--------------------------- MODULE DiskPath_proofs --------------------------
(***************************************************************************)
(* Theorems about DiskPath, for any number of threads, sessions, layers,   *)
(* forward passes and calls, and whatever the file system refuses.         *)
(***************************************************************************)
EXTENDS DiskPath, WellFoundedInduction, FiniteSetTheorems, SequenceTheorems, TLAPS

\* Every session has a directory of its own and every layer of a session a
\* sanitized name of its own: two sessions on one directory, or layers "a.b"
\* and "a_b" of one session, write to the same files.
OwnDirectories ==
  /\ \A r, s \in Sessions : BaseOf[r] = BaseOf[s] => r = s
  /\ \A g, h \in Hooks : SessionOf[g] = SessionOf[h] /\ NameOf[g] = NameOf[h] => g = h

LEMMA OwnDir ==
  ASSUME OwnDirectories, NEW g \in Hooks, NEW h \in Hooks, DirOf(g) = DirOf(h)
  PROVE  g = h
BY DiskPathAssumption DEF OwnDirectories, DirOf

-----------------------------------------------------------------------------
(***************************************************************************)
(* Types, of the variables the arguments are about.                        *)
(***************************************************************************)
DiskTypes ==
  /\ live \subseteq Sessions
  /\ nextIdx \in [Hooks -> Nat]
  /\ taken \in [Hooks -> Seq(Fire)]
  /\ pc \in [Threads -> {"idle", "policy", "index", "open", "write", "leave"}]
  /\ fwd \in [Threads -> Nat] /\ pos \in [Threads -> 1 .. Len(Fires)]
  /\ slot \in [Threads -> Nat] /\ forwards \in Nat

LEMMA HookTyped ==
  ASSUME DiskTypes, NEW t \in Threads
  PROVE  HookOf(t) \in Hooks /\ FireOf(t) \in Fire
BY DiskPathAssumption DEF DiskTypes, HookOf, FireOf, Fire

\* Of the hooks still on the module there is a first one.
LEMMA FirstExists ==
  ASSUME NEW S \in SUBSET Nat, S # {}
  PROVE  \E i \in S : \A j \in S : i <= j
<1> DEFINE less == {p \in Nat \X Nat : p[1] < p[2]}
<1>1. IsWellFoundedOn(less, Nat)
  BY NatLessThanWellFounded, Zenon DEF OpToRel
<1> HIDE DEF less
<1>2. PICK i \in S : \A j \in S : <<j, i>> \notin less
  BY <1>1, WFMin, Zenon
<1>3. ASSUME NEW j \in S PROVE i <= j
  <2>1. <<j, i>> \in less <=> j < i
    BY DEF less
  <2>q. QED BY <1>2, <2>1
<1>q. QED BY <1>3

LEMMA NextFireTyped ==
  ASSUME DiskTypes, NEW t \in Threads, NEW from \in Nat \ {0}, NextFire(t, from)
  PROVE  /\ pc' = [pc EXCEPT ![t] = "idle"] \/ pc' = [pc EXCEPT ![t] = "policy"]
         /\ pos' \in [Threads -> 1 .. Len(Fires)]
         /\ \A u \in Threads \ {t} : pos'[u] = pos[u]
<1> DEFINE on == {i \in from .. Len(Fires) : SessionOf[Fires[i]] \in live}
           first == CHOOSE i \in on : \A j \in on : i <= j
<1>1. Len(Fires) \in Nat /\ on \subseteq 1 .. Len(Fires)
  BY DiskPathAssumption
<1>2. CASE on = {}
  BY <1>2 DEF NextFire, DiskTypes
<1>3. CASE on # {}
  <2>1. first \in on
    <3>1. on \in SUBSET Nat
      BY <1>1
    <3> HIDE DEF on
    <3>q. QED BY <1>3, <3>1, FirstExists
  <2>2. pc' = [pc EXCEPT ![t] = "policy"] /\ pos' = [pos EXCEPT ![t] = first]
    BY <1>3 DEF NextFire
  <2>3. first \in 1 .. Len(Fires)
    BY <1>1, <2>1
  <2> HIDE DEF first
  <2>q. QED BY <2>2, <2>3 DEF DiskTypes
<1>q. QED BY <1>2, <1>3

\* What the calls and the end of the program leave alone.
core == <<live, files, nextIdx, taken, failed, pc, fwd, pos, slot, forwards>>

\* A step of a thread outside the part of its hook that has taken an index and
\* not yet closed its file.
Working(t) == pc[t] \in {"open", "write"}

Outside(t) ==
  /\ ~ Working(t) /\ ~ Working(t)'
  /\ \A u \in Threads \ {t} : pc'[u] = pc[u] /\ fwd'[u] = fwd[u] /\ pos'[u] = pos[u]
  /\ UNCHANGED <<live, files, nextIdx, taken, failed, slot>>

LEMMA OutsideSteps ==
  ASSUME DiskTypes, NEW t \in Threads,
         StartForward(t) \/ ShouldCapture(t) \/ ForwardRaises(t) \/ LeaveHook(t)
  PROVE  DiskTypes' /\ Outside(t)
<1>1. CASE StartForward(t)
  <2>1. NextFire(t, 1) /\ pc[t] = "idle"
    BY <1>1 DEF StartForward
  <2>2. /\ pc' = [pc EXCEPT ![t] = "idle"] \/ pc' = [pc EXCEPT ![t] = "policy"]
        /\ pos' \in [Threads -> 1 .. Len(Fires)] /\ \A u \in Threads \ {t} : pos'[u] = pos[u]
    BY <2>1, NextFireTyped
  <2>3. /\ forwards' = forwards + 1 /\ fwd' = [fwd EXCEPT ![t] = forwards + 1]
        /\ UNCHANGED <<live, files, nextIdx, taken, failed, slot>>
    BY <1>1 DEF StartForward, diskVars, ghosts
  <2>4. DiskTypes'
    <3>1. forwards' \in Nat /\ fwd' \in [Threads -> Nat]
      BY <2>3 DEF DiskTypes
    <3>2. UNCHANGED <<live, nextIdx, taken, slot>>
      BY <2>3
    <3>q. QED BY <2>2, <3>1, <3>2 DEF DiskTypes
  <2>5. Outside(t)
    BY <2>1, <2>2, <2>3 DEF DiskTypes, Outside, Working
  <2>q. QED BY <2>4, <2>5
<1>2. CASE ShouldCapture(t)
  BY <1>2 DEF ShouldCapture, DiskTypes, Outside, Working, diskVars
<1>3. CASE ForwardRaises(t)
  BY <1>3 DEF ForwardRaises, DiskTypes, Outside, Working, diskVars, ghosts
<1>4. CASE LeaveHook(t)
  <2>1. NextFire(t, pos[t] + 1) /\ pc[t] = "leave" /\ pos[t] + 1 \in Nat \ {0}
    BY <1>4 DEF LeaveHook, DiskTypes
  <2>2. /\ pc' = [pc EXCEPT ![t] = "idle"] \/ pc' = [pc EXCEPT ![t] = "policy"]
        /\ pos' \in [Threads -> 1 .. Len(Fires)] /\ \A u \in Threads \ {t} : pos'[u] = pos[u]
    BY <2>1, NextFireTyped
  <2>q. QED BY <1>4, <2>1, <2>2 DEF LeaveHook, DiskTypes, Outside, Working, diskVars, ghosts
<1>q. QED BY <1>1, <1>2, <1>3, <1>4

\* Every step is one of these: of a thread outside its file, taking an index,
\* opening, closing, failing, a removal, or none of the core's business.
LEMMA StepCases ==
  ASSUME [Next]_vars
  PROVE  \/ \E t \in Threads :
              \/ StartForward(t) \/ ShouldCapture(t) \/ ForwardRaises(t) \/ LeaveHook(t)
              \/ TakeIndex(t) \/ Open(t) \/ Close(t) \/ OpenFails(t) \/ WriteFails(t)
         \/ \E s \in Sessions : Destroy(s)
         \/ UNCHANGED core
<1> USE DEF core, diskVars, threadVars, ghosts, readVars
<1>1. ASSUME NEW s \in Sessions, BeginReadback(s) \/ Clear(s) PROVE UNCHANGED core
  BY <1>1 DEF BeginReadback, Clear
<1>2. ASSUME NEW d \in Dirs, ListDir(d) PROVE UNCHANGED core
  BY <1>2 DEF ListDir
<1>3. CASE LoadFile BY <1>3 DEF LoadFile
<1>4. CASE UNCHANGED vars BY <1>4 DEF vars
<1>q. QED BY <1>1, <1>2, <1>3, <1>4 DEF Next, HookStep, Finished

\* The knobs and the dtype are fixed when the program starts.
LEMMA ScopeFixed ==
  ASSUME [Next]_vars
  PROVE  scope' = scope
BY DEF Next, StartForward, HookStep, ShouldCapture, TakeIndex, Open, OpenFails, Close, WriteFails,
       LeaveHook, ForwardRaises, BeginReadback, Clear, Destroy, ListDir, LoadFile, Finished, vars

LEMMA TypesInit == Init => DiskTypes
BY DiskPathAssumption DEF Init, DiskTypes

LEMMA TypesStep ==
  ASSUME DiskTypes, [Next]_vars
  PROVE  DiskTypes'
<1>1. ASSUME NEW t \in Threads, TakeIndex(t) PROVE DiskTypes'
  <2>1. HookOf(t) \in Hooks /\ FireOf(t) \in Fire
    BY HookTyped
  <2>2. nextIdx' \in [Hooks -> Nat] /\ slot' \in [Threads -> Nat]
    BY <1>1, <2>1 DEF TakeIndex, DiskTypes
  <2>3. taken' \in [Hooks -> Seq(Fire)]
    BY <1>1, <2>1 DEF TakeIndex, DiskTypes
  <2>q. QED BY <1>1, <2>2, <2>3 DEF TakeIndex, DiskTypes
<1>2. ASSUME NEW t \in Threads, Open(t) \/ Close(t) \/ OpenFails(t) \/ WriteFails(t)
      PROVE  DiskTypes'
  BY <1>2 DEF Open, Close, OpenFails, WriteFails, DiskTypes, diskVars, ghosts
<1>3. ASSUME NEW s \in Sessions, Destroy(s) PROVE DiskTypes'
  BY <1>3 DEF Destroy, DiskTypes, threadVars, ghosts
<1>4. CASE UNCHANGED core
  BY <1>4 DEF core, DiskTypes
<1>q. QED BY <1>1, <1>2, <1>3, <1>4, StepCases, OutsideSteps

-----------------------------------------------------------------------------
(***************************************************************************)
(* Who owns which file.  A thread that has taken an index of a layer is    *)
(* the only one to have it; files the hooks opened exist only below the    *)
(* next index; a thread's own file is at most a leftover until it opens it.*)
(***************************************************************************)
IndexInv ==
  /\ \A h \in Hooks : nextIdx[h] = Len(taken[h])
  /\ \A t \in Threads : Working(t) =>
       slot[t] < nextIdx[HookOf(t)] /\ taken[HookOf(t)][slot[t] + 1] = FireOf(t)
  /\ \A t \in Threads : \A u \in Threads \ {t} :
       Working(t) /\ Working(u) /\ HookOf(t) = HookOf(u) => slot[t] # slot[u]

FilesInv ==
  /\ \A h \in Hooks, i \in Nat : File(h, i) \in Streamed => i < nextIdx[h]
  /\ \A t \in Threads : pc[t] = "open" => FileOf(t) \notin Streamed
  /\ \A t \in Threads : pc[t] = "write" =>
       FileOf(t) \in Streamed /\ ~ files[FileOf(t)].whole

DiskInv == DiskTypes /\ IndexInv /\ FilesInv

LEMMA SameFile ==
  ASSUME OwnDirectories, NEW g \in Hooks, NEW h \in Hooks, NEW i, NEW j, File(g, i) = File(h, j)
  PROVE  g = h /\ i = j
BY OwnDir DEF File

LEMMA WorkersApart ==
  ASSUME OwnDirectories, DiskInv, NEW t \in Threads, NEW u \in Threads \ {t},
         Working(t), Working(u)
  PROVE  FileOf(t) # FileOf(u)
BY SameFile, HookTyped DEF FileOf, DiskInv, IndexInv

\* At first the disk holds leftovers only, of directories that exist.
LEMMA LeftBehind ==
  ASSUME Init
  PROVE  /\ DOMAIN files \subseteq OldFiles /\ Streamed = {}
         /\ \A f \in DOMAIN files : files[f].fire = Old /\ files[f].whole \in BOOLEAN
         /\ dirs = {f[1] : f \in DOMAIN files}
<1>1. PICK left \in SUBSET {f \in OldFiles : f[1][1] \in bases} :
        /\ files \in [left -> [fire : {Old}, whole : BOOLEAN]]
        /\ dirs = {f[1] : f \in left}
  BY Zenon DEF Init
<1>2. DOMAIN files = left
  BY <1>1
<1>3. \A f \in left : files[f] \in [fire : {Old}, whole : BOOLEAN]
  BY <1>1
<1>4. \A f \in left : files[f].fire = Old /\ files[f].whole \in BOOLEAN
  BY <1>3
<1>q. QED BY <1>1, <1>2, <1>4 DEF Streamed

\* What opening and closing a file do to the disk, and to what was streamed.
LEMMA OpenEffect ==
  ASSUME DiskTypes, NEW t \in Threads, Open(t)
  PROVE  /\ DOMAIN files' = DOMAIN files \cup {FileOf(t)}
         /\ files'[FileOf(t)] = [fire |-> FireOf(t), whole |-> FALSE]
         /\ files'[FileOf(t)].fire = FireOf(t) /\ ~ files'[FileOf(t)].whole
         /\ \A f \in DOMAIN files : f # FileOf(t) => files'[f] = files[f]
         /\ Streamed' = Streamed \cup {FileOf(t)}
<1>1. files' = [f \in DOMAIN files \cup {FileOf(t)} |->
                  IF f = FileOf(t) THEN [fire |-> FireOf(t), whole |-> FALSE] ELSE files[f]]
  BY Zenon DEF Open
<1>2. DOMAIN files' = DOMAIN files \cup {FileOf(t)}
  BY <1>1, Zenon
<1>3. files'[FileOf(t)] = [fire |-> FireOf(t), whole |-> FALSE]
  BY <1>1, Zenon
<1>4. \A f \in DOMAIN files : f # FileOf(t) => files'[f] = files[f]
  BY <1>1, Zenon
<1>5. files'[FileOf(t)].fire = FireOf(t) /\ ~ files'[FileOf(t)].whole
  BY <1>3
<1>6. FireOf(t) # Old
  BY HookTyped, DiskPathAssumption
<1>q. QED BY <1>2, <1>3, <1>4, <1>5, <1>6 DEF Streamed

LEMMA CloseEffect ==
  ASSUME DiskTypes, NEW t \in Threads, Close(t), FileOf(t) \in Streamed
  PROVE  /\ DOMAIN files' = DOMAIN files
         /\ files'[FileOf(t)] = [fire |-> FireOf(t), whole |-> TRUE]
         /\ files'[FileOf(t)].fire = FireOf(t)
         /\ \A f \in DOMAIN files : f # FileOf(t) => files'[f] = files[f]
         /\ Streamed' = Streamed
<1>1. files' = [files EXCEPT ![FileOf(t)] = [fire |-> FireOf(t), whole |-> TRUE]]
  BY Zenon DEF Close
<1>2. FileOf(t) \in DOMAIN files
  BY DEF Streamed
<1>3. /\ DOMAIN files' = DOMAIN files
      /\ files'[FileOf(t)] = [fire |-> FireOf(t), whole |-> TRUE]
      /\ \A f \in DOMAIN files : f # FileOf(t) => files'[f] = files[f]
  BY <1>1, <1>2
<1>4. files'[FileOf(t)].fire = FireOf(t)
  BY <1>3
<1>5. FireOf(t) # Old
  BY HookTyped, DiskPathAssumption
<1>q. QED BY <1>2, <1>3, <1>4, <1>5 DEF Streamed

LEMMA DestroyEffect ==
  ASSUME NEW s \in Sessions, Destroy(s)
  PROVE  /\ \A f : f \in DOMAIN files' <=> f \in DOMAIN files /\ f[1][1] # BaseOf[s]
         /\ \A f \in DOMAIN files' : files'[f] = files[f]
         /\ Streamed' \subseteq Streamed
<1>1. files' = [f \in {g \in DOMAIN files : g[1][1] # BaseOf[s]} |-> files[f]]
  BY Zenon DEF Destroy
<1>2. DOMAIN files' = {g \in DOMAIN files : g[1][1] # BaseOf[s]}
  BY <1>1
<1>3. \A f \in DOMAIN files' : files'[f] = files[f]
  BY <1>1, <1>2
<1>q. QED BY <1>2, <1>3 DEF Streamed

LEMMA DiskInit == Init => DiskInv
<1> SUFFICES ASSUME Init PROVE DiskInv
  OBVIOUS
<1>1. DiskTypes /\ Streamed = {}
  BY TypesInit, LeftBehind
<1>2. \A t \in Threads : pc[t] = "idle"
  BY DEF Init
<1>3. \A h \in Hooks : nextIdx[h] = 0 /\ Len(taken[h]) = 0
  BY DEF Init
<1>4. IndexInv /\ FilesInv
  BY <1>1, <1>2, <1>3 DEF IndexInv, FilesInv, Working
<1>q. QED BY <1>1, <1>4 DEF DiskInv

LEMMA OutsideInv ==
  ASSUME DiskInv, DiskTypes', NEW t \in Threads, Outside(t)
  PROVE  DiskInv'
<1>1. \A u \in Threads : Working(u)' =>
        Working(u) /\ pc'[u] = pc[u] /\ HookOf(u)' = HookOf(u) /\ FireOf(u)' = FireOf(u)
                   /\ slot'[u] = slot[u]
  BY DEF Outside, Working, HookOf, FireOf
<1>2. IndexInv'
  BY <1>1 DEF DiskInv, IndexInv, Outside
<1>3. \A u \in Threads : Working(u)' => FileOf(u)' = FileOf(u)
  BY <1>1 DEF FileOf, File
<1>4. FilesInv'
  BY <1>1, <1>3 DEF DiskInv, FilesInv, Outside, Working, File, Streamed
<1>q. QED BY <1>2, <1>4 DEF DiskInv

LEMMA TakeIndexInv ==
  ASSUME OwnDirectories, DiskInv, DiskTypes', NEW t \in Threads, TakeIndex(t)
  PROVE  DiskInv'
<1> DEFINE h == HookOf(t)
<1> USE DEF DiskInv
<1>1. h \in Hooks /\ FireOf(t) \in Fire /\ nextIdx[h] \in Nat /\ taken[h] \in Seq(Fire)
  BY HookTyped DEF DiskTypes
<1>2. /\ pc[t] = "index" /\ pc' = [pc EXCEPT ![t] = "open"]
      /\ slot' = [slot EXCEPT ![t] = nextIdx[h]]
      /\ nextIdx' = [nextIdx EXCEPT ![h] = @ + 1]
      /\ taken' = [taken EXCEPT ![h] = Append(@, FireOf(t))]
      /\ UNCHANGED <<fwd, pos, files>>
  BY DEF TakeIndex
<1>3. \A u \in Threads : /\ HookOf(u)' = HookOf(u) /\ FireOf(u)' = FireOf(u)
                         /\ HookOf(u) \in Hooks
  BY <1>2, HookTyped DEF HookOf, FireOf
<1>4. \A u \in Threads \ {t} : /\ pc'[u] = pc[u] /\ slot'[u] = slot[u]
                               /\ Working(u)' = Working(u) /\ slot[u] \in Nat
  BY <1>2 DEF DiskTypes, Working
<1>5. slot'[t] = nextIdx[h] /\ pc'[t] = "open"
  BY <1>2 DEF DiskTypes
<1>6. \A g \in Hooks : /\ nextIdx'[g] = Len(taken'[g]) /\ nextIdx[g] <= nextIdx'[g]
                       /\ \A i \in 1 .. nextIdx[g] : taken'[g][i] = taken[g][i]
  BY <1>1, <1>2 DEF DiskTypes, IndexInv
<1>7. nextIdx'[h] = nextIdx[h] + 1 /\ taken'[h][nextIdx[h] + 1] = FireOf(t)
  BY <1>1, <1>2 DEF DiskTypes, IndexInv
<1>8. ASSUME NEW u \in Threads, Working(u)'
      PROVE  slot'[u] < nextIdx'[HookOf(u)] /\ taken'[HookOf(u)][slot'[u] + 1] = FireOf(u)
  <2>1. CASE u = t BY <1>1, <1>5, <1>7, <2>1
  <2>2. CASE u # t
    <3>1. slot[u] < nextIdx[HookOf(u)] /\ taken[HookOf(u)][slot[u] + 1] = FireOf(u)
      BY <1>4, <1>8, <2>2 DEF IndexInv
    <3> DEFINE g == HookOf(u)
    <3>2. g \in Hooks /\ nextIdx[g] \in Nat /\ nextIdx'[g] \in Nat /\ slot[u] \in Nat
      BY <1>3, <1>4, <2>2 DEF DiskTypes
    <3>3. slot'[u] = slot[u]
      BY <1>4, <2>2
    <3> HIDE DEF g
    <3>4. slot[u] + 1 \in 1 .. nextIdx[g]
      BY <3>1, <3>2 DEF g
    <3>5. taken'[g][slot[u] + 1] = taken[g][slot[u] + 1] /\ nextIdx[g] <= nextIdx'[g]
      BY <1>6, <3>2, <3>4
    <3>q. QED BY <3>1, <3>2, <3>3, <3>5 DEF g
  <2>q. QED BY <2>1, <2>2
<1>9. ASSUME NEW u \in Threads, NEW v \in Threads \ {u}, Working(u)', Working(v)',
             HookOf(u) = HookOf(v)
      PROVE  slot'[u] # slot'[v]
  <2>1. ASSUME NEW w \in Threads \ {t}, Working(w), HookOf(w) = h PROVE slot[w] # nextIdx[h]
    BY <1>1, <1>4, <2>1 DEF IndexInv
  <2>q. QED BY <1>4, <1>5, <1>9, <2>1 DEF IndexInv
<1>10. IndexInv'
  BY <1>3, <1>6, <1>8, <1>9 DEF IndexInv
<1>11. \A u \in Threads \ {t} : FileOf(u)' = FileOf(u)
  BY <1>3, <1>4 DEF FileOf, File
<1>12. FileOf(t)' = File(h, nextIdx[h])
  BY <1>3, <1>5 DEF FileOf, File
<1>13. FilesInv'
  <2>0. files' = files /\ Streamed' = Streamed
    BY <1>2 DEF Streamed
  <2>1. \A g \in Hooks, i \in Nat : File(g, i)' \in Streamed' => i < nextIdx'[g]
    BY <1>6, <2>0 DEF FilesInv, File, DiskTypes
  <2>2. File(h, nextIdx[h]) \notin Streamed
    BY <1>1 DEF FilesInv
  <2>3. \A u \in Threads : pc'[u] = "open" => FileOf(u)' \notin Streamed'
    BY <1>4, <1>11, <1>12, <2>0, <2>2 DEF FilesInv
  <2>4. \A u \in Threads : pc'[u] = "write" =>
           FileOf(u)' \in Streamed' /\ ~ files'[FileOf(u)'].whole
    BY <1>4, <1>5, <1>11, <2>0 DEF FilesInv
  <2>q. QED BY <2>1, <2>3, <2>4 DEF FilesInv
<1>q. QED BY <1>10, <1>13

\* A step that neither takes an index nor lets a thread in keeps the indices
\* right.
LEMMA IndexStays ==
  ASSUME IndexInv, UNCHANGED <<slot, nextIdx, taken, fwd, pos>>,
         \A t \in Threads : Working(t)' => Working(t)
  PROVE  IndexInv'
BY DEF IndexInv, HookOf, FireOf

LEMMA OpenInv ==
  ASSUME OwnDirectories, DiskInv, DiskTypes', NEW t \in Threads, Open(t)
  PROVE  DiskInv'
<1> DEFINE file == FileOf(t)
<1> USE DEF DiskInv
<1>1. /\ pc[t] = "open" /\ pc' = [pc EXCEPT ![t] = "write"]
      /\ UNCHANGED <<slot, nextIdx, taken, fwd, pos>>
  BY DEF Open, ghosts
<1>0. /\ Streamed' = Streamed \cup {file} /\ ~ files'[file].whole
      /\ \A f \in Streamed : f # file => files'[f] = files[f]
  BY OpenEffect DEF Streamed
<1>2. \A u \in Threads : FileOf(u)' = FileOf(u) /\ (u # t => pc'[u] = pc[u])
  BY <1>1 DEF FileOf, File, HookOf, DiskTypes
<1>3. Working(t) /\ pc'[t] = "write"
  BY <1>1 DEF Working, DiskTypes
<1>4. IndexInv'
  BY <1>1, <1>2, <1>3, IndexStays DEF Working
<1>5. \A g \in Hooks, i \in Nat : File(g, i)' \in Streamed' => i < nextIdx'[g]
  <2>1. ASSUME NEW g \in Hooks, NEW i \in Nat, File(g, i) = file
        PROVE  i < nextIdx[g]
    BY <1>3, <2>1, SameFile, HookTyped DEF FileOf, IndexInv
  <2>q. QED BY <1>0, <1>1, <2>1 DEF FilesInv, File
<1>6. \A u \in Threads \ {t} : Working(u) => FileOf(u) # file
  BY <1>3, WorkersApart
<1>7. FilesInv'
  BY <1>0, <1>1, <1>2, <1>3, <1>5, <1>6 DEF FilesInv, Working
<1>q. QED BY <1>4, <1>7

LEMMA CloseInv ==
  ASSUME OwnDirectories, DiskInv, DiskTypes', NEW t \in Threads, Close(t)
  PROVE  DiskInv'
<1> DEFINE file == FileOf(t)
<1> USE DEF DiskInv
<1>1. /\ pc[t] = "write" /\ pc' = [pc EXCEPT ![t] = "leave"]
      /\ UNCHANGED <<slot, nextIdx, taken, fwd, pos>>
  BY DEF Close, ghosts
<1>0. Streamed' = Streamed /\ \A f \in Streamed : f # file => files'[f] = files[f]
  <2>1. file \in Streamed
    BY <1>1 DEF FilesInv
  <2>q. QED BY <2>1, CloseEffect DEF Streamed
<1>2. \A u \in Threads : FileOf(u)' = FileOf(u) /\ (u # t => pc'[u] = pc[u])
  BY <1>1 DEF FileOf, File, HookOf, DiskTypes
<1>3. Working(t) /\ pc'[t] = "leave"
  BY <1>1 DEF Working, DiskTypes
<1>4. IndexInv'
  BY <1>1, <1>2, <1>3, IndexStays DEF Working
<1>5. \A u \in Threads \ {t} : Working(u) => FileOf(u) # file
  BY <1>3, WorkersApart
<1>6. FilesInv'
  BY <1>0, <1>1, <1>2, <1>3, <1>5 DEF FilesInv, Working, File
<1>q. QED BY <1>4, <1>6

LEMMA FailInv ==
  ASSUME DiskInv, DiskTypes', NEW t \in Threads, OpenFails(t) \/ WriteFails(t)
  PROVE  DiskInv'
<1> USE DEF DiskInv
<1>1. /\ pc' = [pc EXCEPT ![t] = "leave"]
      /\ UNCHANGED <<files, slot, nextIdx, taken, fwd, pos>>
  BY DEF OpenFails, WriteFails, diskVars
<1>2. \A u \in Threads : /\ FileOf(u)' = FileOf(u)
                         /\ pc'[u] = pc[u] \/ pc'[u] = "leave"
  BY <1>1 DEF FileOf, File, HookOf, DiskTypes
<1>3. IndexInv'
  BY <1>1, <1>2, IndexStays DEF Working
<1>4. FilesInv'
  BY <1>1, <1>2 DEF FilesInv, File, Streamed
<1>q. QED BY <1>3, <1>4

LEMMA DestroyInv ==
  ASSUME DiskInv, DiskTypes', NEW s \in Sessions, Destroy(s)
  PROVE  DiskInv'
<1> USE DEF DiskInv
<1>1. /\ Streamed' \subseteq Streamed
      /\ \A t \in Threads : pc[t] = "idle"
      /\ UNCHANGED <<pc, slot, nextIdx, taken, fwd, pos>>
  BY DestroyEffect DEF Destroy, Quiet, threadVars, ghosts
<1>2. IndexInv'
  BY <1>1, IndexStays DEF Working
<1>3. FilesInv'
  BY <1>1 DEF FilesInv, File
<1>q. QED BY <1>2, <1>3

LEMMA DiskStep ==
  ASSUME OwnDirectories, DiskInv, [Next]_vars
  PROVE  DiskInv'
<1>1. DiskTypes'
  BY TypesStep DEF DiskInv
<1>2. CASE UNCHANGED core
  BY <1>1, <1>2
     DEF DiskInv, IndexInv, FilesInv, Streamed, core, Working, FileOf, File, HookOf, FireOf
<1>3. ASSUME NEW t \in Threads,
             StartForward(t) \/ ShouldCapture(t) \/ ForwardRaises(t) \/ LeaveHook(t)
      PROVE  DiskInv'
  BY <1>1, <1>3, OutsideSteps, OutsideInv DEF DiskInv
<1>q. QED
  BY <1>1, <1>2, <1>3, StepCases, TakeIndexInv, OpenInv, CloseInv, FailInv, DestroyInv

\* Of a live session a whole file survives every step.
KeepsWhole ==
  \A f \in Streamed :
    files[f].whole /\ (\E s \in live' : f[1][1] = BaseOf[s]) =>
      f \in DOMAIN files' /\ files'[f] = files[f]

LEMMA WholeStep ==
  ASSUME OwnDirectories, DiskInv, [Next]_vars
  PROVE  KeepsWhole
<1> USE DEF DiskInv
<1>1. CASE UNCHANGED core
  BY <1>1 DEF core, KeepsWhole, Streamed
<1>2. ASSUME NEW t \in Threads, Outside(t) \/ TakeIndex(t) \/ OpenFails(t) \/ WriteFails(t)
      PROVE  KeepsWhole
  BY <1>2 DEF Outside, TakeIndex, OpenFails, WriteFails, diskVars, KeepsWhole, Streamed
<1>3. ASSUME NEW t \in Threads, Open(t) PROVE KeepsWhole
  <2>1. FileOf(t) \notin Streamed
    BY <1>3 DEF Open, FilesInv
  <2>q. QED BY <1>3, <2>1, OpenEffect DEF KeepsWhole, Streamed
<1>4. ASSUME NEW t \in Threads, Close(t) PROVE KeepsWhole
  <2>1. FileOf(t) \in Streamed /\ ~ files[FileOf(t)].whole
    BY <1>4 DEF Close, FilesInv
  <2>q. QED BY <1>4, <2>1, CloseEffect DEF KeepsWhole, Streamed
<1>5. ASSUME NEW s \in Sessions, Destroy(s) PROVE KeepsWhole
  <2>1. \A r \in live' : BaseOf[r] # BaseOf[s]
    BY <1>5 DEF Destroy, OwnDirectories, DiskTypes
  <2>q. QED BY <1>5, <2>1, DestroyEffect DEF KeepsWhole, Streamed
<1>q. QED BY <1>1, <1>2, <1>3, <1>4, <1>5, StepCases, OutsideSteps

\* No hook opens a file that one of these sessions opened before: fetch_add
\* hands out every index once (callback.cpp:123) and nothing ever resets it, not
\* even clear().  A file of an earlier program it may well truncate.
THEOREM NoFileOpenedTwice ==
  ASSUME OwnDirectories
  PROVE  Spec => []NeverOverwritten
<1>1. Init => DiskInv
  BY DiskInit
<1>2. DiskInv /\ [Next]_vars => DiskInv'
  BY DiskStep
<1>3. DiskInv => NeverOverwritten
  <2> SUFFICES ASSUME DiskInv PROVE NeverOverwritten
    OBVIOUS
  <2>1. ASSUME NEW t \in Threads, NEW u \in Threads \ {t}, Working(t), Working(u)
        PROVE  FileOf(t) # FileOf(u)
    BY <2>1, WorkersApart
  <2>q. QED BY <2>1 DEF NeverOverwritten, DiskInv, FilesInv, Working
<1>q. QED BY <1>1, <1>2, <1>3, PTL DEF Spec

\* A file that was closed stays as it is until its session is removed
\* (session.cpp, release()).
THEOREM WholeFilesSurvive ==
  ASSUME OwnDirectories
  PROVE  Spec => WholeFilesStay
<1>1. Init => DiskInv
  BY DiskInit
<1>2. DiskInv /\ [Next]_vars => DiskInv' /\ [KeepsWhole]_vars
  BY DiskStep, WholeStep
<1>3. [KeepsWhole]_vars => [\A f \in Streamed :
        files[f].whole /\ (\E s \in live' : f[1][1] = BaseOf[s]) =>
          f \in DOMAIN files' /\ files'[f] = files[f]]_vars
  BY DEF KeepsWhole
<1>q. QED BY <1>1, <1>2, <1>3, PTL DEF Spec, WholeFilesStay

-----------------------------------------------------------------------------
(***************************************************************************)
(* Streaming.  What the i-th activation of a layer has become.             *)
(***************************************************************************)
Accounted(h, i) ==
  \/ Writing(h, i - 1) \/ File(h, i - 1) \in failed
  \/ /\ File(h, i - 1) \in DOMAIN files
     /\ files[File(h, i - 1)] = [fire |-> taken[h][i], whole |-> TRUE]

AllAccounted == \A h \in Hooks : SessionOf[h] \in live => \A i \in 1 .. Len(taken[h]) : Accounted(h, i)

\* One activation through a step that does not take an index of its layer.
LEMMA AccountedStep ==
  ASSUME OwnDirectories, DiskInv, NEW h \in Hooks, NEW i \in Nat, Accounted(h, i),
         SessionOf[h] \in live', taken'[h] = taken[h],
         NEW t \in Threads,
         Outside(t) \/ TakeIndex(t) \/ Open(t) \/ Close(t) \/ OpenFails(t) \/ WriteFails(t)
  PROVE  Accounted(h, i)'
<1> DEFINE file == File(h, i - 1)
<1> USE DEF DiskInv
<1>1. file' = file
  BY DEF File
<1>2. CASE Outside(t)
  <2>1. Writing(h, i - 1) => Writing(h, i - 1)'
    BY <1>2 DEF Outside, Writing, Working, HookOf
  <2>q. QED BY <1>1, <1>2, <2>1 DEF Accounted, Outside
<1>3. CASE TakeIndex(t)
  <2>1. pc[t] = "index" /\ pc' = [pc EXCEPT ![t] = "open"]
        /\ slot' = [slot EXCEPT ![t] = nextIdx[HookOf(t)]] /\ UNCHANGED <<pos, files, failed>>
    BY <1>3 DEF TakeIndex
  <2>2. Writing(h, i - 1) => Writing(h, i - 1)'
    BY <2>1 DEF Writing, HookOf, DiskTypes
  <2>q. QED BY <1>1, <2>1, <2>2 DEF Accounted
<1>4. CASE Open(t)
  <2>1. pc[t] = "open" /\ pc' = [pc EXCEPT ![t] = "write"]
        /\ UNCHANGED <<pos, slot, failed>>
        /\ DOMAIN files \subseteq DOMAIN files'
        /\ \A f \in DOMAIN files : f # FileOf(t) => files'[f] = files[f]
    BY <1>4, OpenEffect DEF Open, ghosts
  <2>2. Writing(h, i - 1) => Writing(h, i - 1)'
    BY <2>1 DEF Writing, HookOf, DiskTypes
  <2>3. FileOf(t) = file => Writing(h, i - 1)'
    <3>1. FileOf(t) = file => HookOf(t) = h /\ slot[t] = i - 1
      BY HookTyped, SameFile DEF FileOf
    <3>2. pc'[t] = "write"
      BY <2>1 DEF DiskTypes
    <3>q. QED BY <2>1, <3>1, <3>2 DEF Writing, HookOf
  <2>q. QED BY <1>1, <2>1, <2>2, <2>3 DEF Accounted
<1>5. CASE Close(t)
  <2>1. pc[t] = "write" /\ pc' = [pc EXCEPT ![t] = "leave"]
        /\ UNCHANGED <<pos, slot, failed>>
        /\ files' = [files EXCEPT ![FileOf(t)] = [fire |-> FireOf(t), whole |-> TRUE]]
    BY <1>5 DEF Close, ghosts
  <2>2. FileOf(t) \in DOMAIN files /\ HookOf(t) \in Hooks
    BY <2>1, HookTyped DEF FilesInv, Streamed
  <2>3. CASE FileOf(t) = file
    <3>1. HookOf(t) = h /\ slot[t] = i - 1
      BY <2>2, <2>3, SameFile DEF FileOf
    <3>2. taken[h][i] = FireOf(t)
      BY <2>1, <3>1 DEF IndexInv, Working
    <3>q. QED BY <1>1, <2>1, <2>2, <2>3, <3>2 DEF Accounted
  <2>4. CASE FileOf(t) # file
    <3>1. Writing(h, i - 1) => Writing(h, i - 1)'
      BY <2>1, <2>4 DEF Writing, HookOf, FileOf, DiskTypes
    <3>q. QED BY <1>1, <2>1, <2>4, <3>1 DEF Accounted
  <2>q. QED BY <2>3, <2>4
<1>6. CASE OpenFails(t) \/ WriteFails(t)
  <2>1. pc' = [pc EXCEPT ![t] = "leave"] /\ failed' = failed \cup {FileOf(t)}
        /\ UNCHANGED <<pos, slot, files>>
    BY <1>6 DEF OpenFails, WriteFails, diskVars
  <2>2. CASE FileOf(t) = file
    BY <1>1, <2>1, <2>2 DEF Accounted
  <2>3. CASE FileOf(t) # file
    <3>1. Writing(h, i - 1) => Writing(h, i - 1)'
      BY <2>1, <2>3 DEF Writing, HookOf, FileOf, DiskTypes
    <3>q. QED BY <1>1, <2>1, <3>1 DEF Accounted
  <2>q. QED BY <2>2, <2>3
<1>q. QED BY <1>2, <1>3, <1>4, <1>5, <1>6

LEMMA AllAccountedStep ==
  ASSUME OwnDirectories, DiskInv, AllAccounted, [Next]_vars
  PROVE  AllAccounted'
<1> USE DEF DiskInv
<1>1. CASE UNCHANGED core
  BY <1>1 DEF core, AllAccounted, Accounted, Writing, HookOf, File
<1>2. ASSUME NEW t \in Threads, Outside(t) \/ Open(t) \/ Close(t) \/ OpenFails(t) \/ WriteFails(t)
      PROVE  AllAccounted'
  <2>1. live' = live /\ taken' = taken
    BY <1>2 DEF Outside, Open, Close, OpenFails, WriteFails, ghosts
  <2>q. QED BY <1>2, <2>1, AccountedStep DEF AllAccounted
<1>3. ASSUME NEW t \in Threads, TakeIndex(t) PROVE AllAccounted'
  <2> DEFINE g == HookOf(t)
  <2>1. g \in Hooks /\ FireOf(t) \in Fire /\ taken[g] \in Seq(Fire) /\ nextIdx[g] = Len(taken[g])
    BY HookTyped DEF DiskTypes, IndexInv
  <2>2. taken' = [taken EXCEPT ![g] = Append(@, FireOf(t))] /\ UNCHANGED <<live, files, failed, pos>>
        /\ slot'[t] = nextIdx[g] /\ pc'[t] = "open"
    BY <1>3 DEF TakeIndex, DiskTypes
  <2>3. ASSUME NEW h \in Hooks, SessionOf[h] \in live, NEW i \in 1 .. Len(taken'[h])
        PROVE  Accounted(h, i)'
    <3>1. CASE h # g
      <4>1. taken'[h] = taken[h]
        BY <2>2, <3>1 DEF DiskTypes
      <4>2. i \in Nat /\ i \in 1 .. Len(taken[h])
        BY <2>3, <4>1 DEF DiskTypes
      <4>3. Accounted(h, i) /\ SessionOf[h] \in live'
        BY <2>2, <2>3, <4>2 DEF AllAccounted
      <4>q. QED BY <1>3, <4>1, <4>2, <4>3, AccountedStep
    <3>2. CASE h = g /\ i = Len(taken[g]) + 1
      <4>1. Writing(h, i - 1)'
        BY <2>1, <2>2, <3>2 DEF Writing, HookOf
      <4>q. QED BY <4>1 DEF Accounted
    <3>3. CASE h = g /\ i # Len(taken[g]) + 1
      <4>1. taken'[g] = Append(taken[g], FireOf(t))
        BY <2>1, <2>2 DEF DiskTypes
      <4>2. i \in 1 .. Len(taken[h]) /\ taken'[h][i] = taken[h][i]
        BY <2>1, <3>3, <4>1
      <4>3. Accounted(h, i)
        BY <2>3, <4>2 DEF AllAccounted
      <4>4. Writing(h, i - 1) => Writing(h, i - 1)'
        BY <1>3 DEF TakeIndex, Writing, HookOf, DiskTypes
      <4>q. QED BY <2>2, <4>2, <4>3, <4>4 DEF Accounted, File
    <3>q. QED BY <3>1, <3>2, <3>3
  <2>q. QED BY <2>2, <2>3 DEF AllAccounted
<1>4. ASSUME NEW s \in Sessions, Destroy(s) PROVE AllAccounted'
  <2>1. live' \subseteq live /\ UNCHANGED <<taken, failed, pc, pos, slot>>
        /\ \A f \in DOMAIN files : f[1][1] # BaseOf[s] => f \in DOMAIN files' /\ files'[f] = files[f]
    BY <1>4 DEF Destroy, threadVars, ghosts
  <2>2. ASSUME NEW h \in Hooks, SessionOf[h] \in live', NEW i \in Nat
        PROVE  File(h, i)[1][1] # BaseOf[s]
    <3>1. BaseOf[SessionOf[h]] # BaseOf[s]
      BY <1>4, <2>2 DEF Destroy, OwnDirectories, DiskTypes
    <3>q. QED BY <3>1 DEF File, DirOf
  <2>3. \A h \in Hooks, i \in Nat : Writing(h, i)' = Writing(h, i)
    BY <2>1 DEF Writing, HookOf
  <2>4. ASSUME NEW h \in Hooks, SessionOf[h] \in live', NEW i \in 1 .. Len(taken[h])
        PROVE  Accounted(h, i)'
    <3>1. Accounted(h, i) /\ i - 1 \in Nat
      BY <2>1, <2>4 DEF AllAccounted, DiskTypes
    <3>2. File(h, i - 1)[1][1] # BaseOf[s] /\ Writing(h, i - 1)' = Writing(h, i - 1)
      BY <2>2, <2>3, <2>4, <3>1
    <3>3. File(h, i - 1)' = File(h, i - 1)
      BY DEF File
    <3>q. QED BY <2>1, <3>1, <3>2, <3>3 DEF Accounted
  <2>q. QED BY <2>1, <2>4 DEF AllAccounted
<1>q. QED BY <1>1, <1>2, <1>3, <1>4, StepCases, OutsideSteps

\* Of a live session the i-th activation to take an index is in file i, whole,
\* or is being written, or its file failed (hook_callback, callback.cpp:115-139).
THEOREM StreamingExact ==
  ASSUME OwnDirectories
  PROVE  Spec => []StreamedExactly
<1>1. Init => DiskInv /\ AllAccounted
  BY DiskInit DEF Init, AllAccounted
<1>2. DiskInv /\ AllAccounted /\ [Next]_vars => DiskInv' /\ AllAccounted'
  BY DiskStep, AllAccountedStep
<1>3. DiskInv /\ AllAccounted => StreamedExactly
  BY DEF DiskInv, IndexInv, AllAccounted, Accounted, StreamedExactly
<1>q. QED BY <1>1, <1>2, <1>3, PTL DEF Spec

-----------------------------------------------------------------------------
(***************************************************************************)
(* Removal.                                                                *)
(***************************************************************************)

LEMMA GoneStep ==
  ASSUME RemovedIsGone, [Next]_vars
  PROVE  RemovedIsGone'
<1> DEFINE Gone(s) == /\ BaseOf[s] \notin bases
                      /\ \A d \in dirs : d[1] # BaseOf[s]
                      /\ \A f \in DOMAIN files : f[1][1] # BaseOf[s]
<1>1. RemovedIsGone <=> \A s \in Sessions \ live : Gone(s)
  BY DEF RemovedIsGone
<1>2. RemovedIsGone' <=> \A s \in Sessions \ live' : Gone(s)'
  BY DEF RemovedIsGone
<1>3. CASE UNCHANGED <<live, diskVars>>
  BY <1>1, <1>2, <1>3 DEF diskVars
<1>4. ASSUME NEW t \in Threads, TakeIndex(t) PROVE RemovedIsGone'
  <2>1. /\ UNCHANGED <<live, bases, files>>
        /\ \A d \in dirs' : d \in dirs \/ d[1] \in bases
    BY <1>4 DEF TakeIndex, DirOf
  <2>q. QED BY <1>1, <1>2, <2>1
<1>5. ASSUME NEW t \in Threads, Open(t) PROVE RemovedIsGone'
  <2>1. /\ UNCHANGED <<live, bases, dirs>>
        /\ \A f \in DOMAIN files' : f \in DOMAIN files \/ f[1] \in dirs
    BY <1>5 DEF Open, FileOf, File
  <2>q. QED BY <1>1, <1>2, <2>1
<1>6. ASSUME NEW t \in Threads, Close(t) PROVE RemovedIsGone'
  <2>1. UNCHANGED <<live, bases, dirs>> /\ DOMAIN files' = DOMAIN files
    BY <1>6 DEF Close
  <2>q. QED BY <1>1, <1>2, <2>1
<1>7. ASSUME NEW s \in Sessions, Destroy(s) PROVE RemovedIsGone'
  BY <1>1, <1>2, <1>7 DEF Destroy
<1>8. ASSUME NEW t \in Threads,
             \/ StartForward(t) \/ ShouldCapture(t) \/ ForwardRaises(t) \/ LeaveHook(t)
             \/ OpenFails(t) \/ WriteFails(t)
      PROVE  UNCHANGED <<live, diskVars>>
  BY <1>8 DEF StartForward, ShouldCapture, ForwardRaises, LeaveHook, OpenFails, WriteFails
<1>9. ASSUME NEW s \in Sessions, BeginReadback(s) \/ Clear(s)
      PROVE  UNCHANGED <<live, diskVars>>
  BY <1>9 DEF BeginReadback, Clear
<1>10. ASSUME NEW d \in Dirs, ListDir(d) PROVE UNCHANGED <<live, diskVars>>
  BY <1>10 DEF ListDir
<1>11. CASE LoadFile \/ UNCHANGED vars
  BY <1>3, <1>11 DEF LoadFile, vars
<1>q. QED
  BY <1>3, <1>4, <1>5, <1>6, <1>7, <1>8, <1>9, <1>10, <1>11 DEF Next, HookStep, Finished

\* After remove() nothing of the session is left on the disk and no later step
\* brings any of it back, whoever shares the directory (session.cpp, release()).
THEOREM RemovedStaysGone == Spec => []RemovedIsGone
<1>1. Init => RemovedIsGone
  BY DEF Init, RemovedIsGone
<1>2. RemovedIsGone /\ [Next]_vars => RemovedIsGone'
  BY GoneStep
<1>q. QED BY <1>1, <1>2, PTL DEF Spec

-----------------------------------------------------------------------------
(***************************************************************************)
(* What std::sort makes of the files of a directory.                       *)
(***************************************************************************)
Enumerates(q, S) == q \in [1 .. Cardinality(S) -> S] /\ Increasing(q)

LEMMA SortedExists ==
  ASSUME NEW S \in SUBSET Nat, IsFiniteSet(S)
  PROVE  \E q : Enumerates(q, S)
<1> DEFINE Wrong == {n \in Nat : \E T \in SUBSET Nat :
                       IsFiniteSet(T) /\ Cardinality(T) = n /\ ~ \E q : Enumerates(q, T)}
<1>1. ASSUME Wrong # {} PROVE FALSE
  <2>1. PICK n \in Wrong : \A m \in Wrong : n <= m
    <3>1. Wrong \in SUBSET Nat
      OBVIOUS
    <3> HIDE DEF Wrong
    <3>q. QED BY <1>1, <3>1, FirstExists
  <2>2. PICK T \in SUBSET Nat : IsFiniteSet(T) /\ Cardinality(T) = n /\ ~ \E q : Enumerates(q, T)
    BY <2>1
  <2>3. n \in Nat
    BY <2>1
  <2>4. CASE T = {}
    <3> DEFINE q == [i \in 1 .. 0 |-> 0]
    <3>1. n = 0 /\ \A i : i \notin 1 .. 0
      BY <2>2, <2>4, FS_EmptySet
    <3>2. Enumerates(q, T)
      BY <2>2, <3>1 DEF Enumerates, Increasing
    <3>q. QED BY <2>2, <3>2
  <2>5. CASE T # {}
    <3>1. PICK m \in T : \A j \in T : m <= j
      BY <2>5, FirstExists
    <3> DEFINE U == T \ {m}
    <3>2. U \in SUBSET Nat /\ IsFiniteSet(U) /\ Cardinality(U) = n - 1
      BY <2>2, FS_RemoveElement
    <3>3. n - 1 \in Nat
      BY <3>2, FS_CardinalityType
    <3>4. n - 1 \notin Wrong
      BY <2>1, <2>3
    <3>5. PICK q : Enumerates(q, U)
      BY <3>2, <3>3, <3>4
    <3> DEFINE r == [i \in 1 .. n |-> IF i = 1 THEN m ELSE q[i - 1]]
    <3>6. q \in [1 .. (n - 1) -> U] /\ Increasing(q)
      BY <3>2, <3>5 DEF Enumerates
    <3>7. ASSUME NEW i \in 1 .. n, i # 1
          PROVE  i - 1 \in 1 .. (n - 1) /\ q[i - 1] \in U /\ r[i] = q[i - 1]
      BY <2>3, <3>6, <3>7
    <3>8. r[1] = m
      BY <2>3, <3>3
    <3>9. r \in [1 .. n -> T]
      <4>1. \A i \in 1 .. n : r[i] \in T
        BY <3>7, <3>8
      <4>q. QED BY <4>1
    <3>10. ASSUME NEW i \in 1 .. n, NEW j \in 1 .. n, i < j PROVE r[i] < r[j]
      <4>1. j # 1 /\ j \in Nat /\ i \in Nat
        BY <2>3, <3>10
      <4>2. j - 1 \in 1 .. (n - 1) /\ q[j - 1] \in U /\ r[j] = q[j - 1]
        BY <3>7, <4>1
      <4>3. CASE i = 1
        <5>1. m <= q[j - 1] /\ m # q[j - 1] /\ m \in Nat /\ q[j - 1] \in Nat
          BY <3>1, <4>2
        <5>q. QED BY <3>8, <4>2, <4>3, <5>1
      <4>4. CASE i # 1
        <5>1. i - 1 \in 1 .. (n - 1) /\ r[i] = q[i - 1]
          BY <3>7, <4>4
        <5>2. i - 1 < j - 1
          BY <3>10, <4>1
        <5>3. DOMAIN q = 1 .. (n - 1)
          BY <3>6
        <5>4. q[i - 1] < q[j - 1]
          BY <3>6, <4>2, <5>1, <5>2, <5>3 DEF Increasing
        <5>q. QED BY <4>2, <5>1, <5>4
      <4>q. QED BY <4>3, <4>4
    <3> HIDE DEF r
    <3>11. Enumerates(r, T)
      <4>1. DOMAIN r = 1 .. n
        BY <3>9
      <4>q. QED BY <2>2, <3>9, <3>10, <4>1 DEF Enumerates, Increasing
    <3>q. QED BY <2>2, <3>11
  <2>q. QED BY <2>4, <2>5
<1>2. Cardinality(S) \in Nat /\ Cardinality(S) \notin Wrong
  BY <1>1, FS_CardinalityType
<1>q. QED BY <1>2

\* Sorting keeps every number, once, in ascending order.
LEMMA SortedIs ==
  ASSUME NEW S \in SUBSET Nat, IsFiniteSet(S)
  PROVE  /\ Sorted(S) \in Seq(S) /\ Sorted(S) \in Seq(Nat)
         /\ Increasing(Sorted(S))
         /\ \A i \in S : \E n \in DOMAIN Sorted(S) : Sorted(S)[n] = i
<1> DEFINE q == Sorted(S)
           n == Cardinality(S)
<1>1. n \in Nat
  BY FS_CardinalityType
<1>2. q \in [1 .. n -> S] /\ Increasing(q)
  BY SortedExists DEF Enumerates, Sorted
<1> HIDE DEF q
<1>3. q \in Injection(1 .. n, S)
  <2>1. \A i, j \in 1 .. n : i < j => q[i] < q[j]
    BY <1>2 DEF Increasing
  <2>2. \A i \in 1 .. n : q[i] \in Nat
    BY <1>2
  <2>3. ASSUME NEW i \in 1 .. n, NEW j \in 1 .. n, q[i] = q[j] PROVE i = j
    <3>1. ~ (q[i] < q[j]) /\ ~ (q[j] < q[i])
      BY <2>2, <2>3
    <3>2. ~ (i < j) /\ ~ (j < i)
      BY <2>1, <3>1
    <3>q. QED BY <1>1, <3>2
  <2>q. QED BY <1>2, <2>3 DEF Injection, IsInjective
<1>4. Cardinality(1 .. n) = n
  BY <1>1, FS_Interval
<1>5. q \in Surjection(1 .. n, S)
  BY <1>3, <1>4, FS_Injection
<1>6. \A i \in S : \E m \in 1 .. n : q[m] = i
  BY <1>5 DEF Surjection
<1> HIDE DEF n
<1>7. DOMAIN q = 1 .. n /\ q \in [1 .. n -> S] /\ q \in [1 .. n -> Nat]
  <2>1. DOMAIN q = 1 .. n /\ \A i \in 1 .. n : q[i] \in Nat
    BY <1>2
  <2>q. QED BY <1>2, <2>1
<1>8. q \in Seq(S) /\ q \in Seq(Nat)
  BY <1>1, <1>7
<1>q. QED BY <1>2, <1>6, <1>7, <1>8 DEF q

-----------------------------------------------------------------------------
(***************************************************************************)
(* Types.  The directory listing is what makes them an invariant only      *)
(* together with the finiteness of the disk: std::sort of a directory is a *)
(* sequence because the directory holds finitely many files.               *)
(***************************************************************************)
DiskTyped == TypeOK /\ IsFiniteSet(DOMAIN files)

LEMMA TypedSome == TypeOK => DiskTypes
BY DEF TypeOK, DiskTypes

LEMMA IndicesFinite ==
  ASSUME DiskTyped, NEW d \in Dirs
  PROVE  Indices(d) \in SUBSET Nat /\ IsFiniteSet(Indices(d))
<1> DEFINE here == {f \in DOMAIN files : f[1] = d}
           number == [f \in here |-> f[2]]
<1>1. IsFiniteSet(here)
  BY FS_Subset DEF DiskTyped
<1>2. \A f \in here : f[2] \in Nat
  BY DEF DiskTyped, TypeOK, Paths
<1>3. Indices(d) = {f[2] : f \in here}
  BY DEF Indices
<1> HIDE DEF here
<1>4. number \in Surjection(here, Indices(d))
  BY <1>3 DEF Surjection
<1>5. IsFiniteSet(Indices(d))
  BY <1>1, <1>4, FS_Surjection
<1>q. QED BY <1>2, <1>3, <1>5

\* The files of a directory as a readback lists them.
Listing(d) == [n \in DOMAIN Sorted(Indices(d)) |-> <<d, Sorted(Indices(d))[n]>>]

LEMMA ListingTyped ==
  ASSUME DiskTyped, NEW d \in Dirs
  PROVE  Listing(d) \in Seq(Paths)
<1> DEFINE q == Sorted(Indices(d))
<1>1. q \in Seq(Nat)
  BY IndicesFinite, SortedIs
<1>2. DOMAIN q = 1 .. Len(q) /\ Len(q) \in Nat /\ \A n \in DOMAIN q : q[n] \in Nat
  BY <1>1
<1> HIDE DEF q
<1>3. \A n \in 1 .. Len(q) : <<d, q[n]>> \in Paths
  BY <1>2 DEF Paths
<1>4. [n \in 1 .. Len(q) |-> <<d, q[n]>>] \in Seq(Paths)
  BY <1>2, <1>3
<1>q. QED BY <1>2, <1>4 DEF Listing, q

LEMMA TypedInit == Init => DiskTyped
<1> SUFFICES ASSUME Init PROVE DiskTyped
  OBVIOUS
<1>1. DOMAIN files \subseteq OldFiles /\ OldFiles \subseteq Paths /\ IsFiniteSet(OldFiles)
  BY LeftBehind, DiskPathAssumption
<1>2. 1 \in 1 .. Len(Fires)
  BY DiskPathAssumption
<1>3. TypeOK
  <2>0. ASSUME NEW f \in DOMAIN files PROVE files[f] \in Entry
    <3>1. PICK left \in SUBSET OldFiles : files \in [left -> [fire : {Old}, whole : BOOLEAN]]
      BY Zenon DEF Init
    <3>2. files[f] \in [fire : {Old}, whole : BOOLEAN]
      BY <2>0, <3>1
    <3>q. QED BY <3>2 DEF Entry
  <2>1. /\ DOMAIN files \subseteq Paths /\ \A f \in DOMAIN files : files[f] \in Entry
        /\ queue \in Seq(Paths) /\ out \in Seq(Paths \X (Fire \cup {Old, Garbled}))
    BY <1>1, <2>0 DEF Init
  <2>d. dirs \subseteq Dirs
    <3>1. \A f \in DOMAIN files : f[1] \in Dirs
      BY <1>1 DEF Paths
    <3>q. QED BY <3>1, LeftBehind
  <2>2. /\ scope \in Scopes /\ live \subseteq Sessions
        /\ bases \subseteq Bases /\ dirs \subseteq Dirs
        /\ reading \subseteq Dirs /\ failed \subseteq Paths
        /\ reader \in Sessions /\ calm \in BOOLEAN
    BY <2>d DEF Init
  <2>3. /\ count \in [Hooks -> Nat] /\ nextIdx \in [Hooks -> Nat]
        /\ kept \in [Hooks -> SUBSET Fire] /\ clears \in [Sessions -> Nat]
        /\ forwards \in Nat /\ calls \in Nat
    BY DEF Init
  <2>4. taken \in [Hooks -> Seq(Fire)]
    BY DEF Init
  <2>5. /\ pc \in [Threads -> {"idle", "policy", "index", "open", "write", "leave"}]
        /\ fwd \in [Threads -> Nat] /\ pos \in [Threads -> 1 .. Len(Fires)]
        /\ slot \in [Threads -> Nat]
    BY <1>2 DEF Init
  <2>q. QED BY <2>1, <2>2, <2>3, <2>4, <2>5 DEF TypeOK
<1>q. QED BY <1>1, <1>3, FS_Subset DEF DiskTyped

LEMMA FileTyped ==
  ASSUME TypeOK, NEW t \in Threads
  PROVE  FileOf(t) \in Paths /\ DirOf(HookOf(t)) \in Dirs
<1>1. HookOf(t) \in Hooks
  BY TypedSome, HookTyped
<1>q. QED BY <1>1 DEF TypeOK, FileOf, File, Dirs, Paths

\* The steps outside the disk: of a pass between two hooks, of the policy.
LEMMA TypedMoves ==
  ASSUME TypeOK, NEW t \in Threads, StartForward(t) \/ LeaveHook(t)
  PROVE  TypeOK' /\ files' = files
<1>1. DiskTypes /\ DiskTypes'
  BY TypedSome, OutsideSteps
<1>2. /\ UNCHANGED <<scope, bases, dirs, files, count, calls, reading, queue, out, reader,
                     failed, kept, clears, taken>>
      /\ calm' \in BOOLEAN
  BY DEF StartForward, LeaveHook, diskVars, readVars, ghosts, TypeOK
<1>3. DiskTypes' => TypeOK'
  BY <1>2 DEF TypeOK, DiskTypes
<1>q. QED BY <1>1, <1>2, <1>3

LEMMA TypedPolicy ==
  ASSUME TypeOK, NEW t \in Threads, ShouldCapture(t)
  PROVE  TypeOK' /\ files' = files
<1> DEFINE h == HookOf(t)
<1>1. h \in Hooks /\ FireOf(t) \in Fire
  BY TypedSome, HookTyped
<1>2. /\ count' = [count EXCEPT ![h] = Tick(cfg, count[h])]
      /\ pc' = [pc EXCEPT ![t] = "index"] \/ pc' = [pc EXCEPT ![t] = "leave"]
      /\ kept' = [kept EXCEPT ![h] = @ \cup {FireOf(t)}] \/ kept' = kept
      /\ UNCHANGED <<scope, live, diskVars, nextIdx, fwd, pos, slot, forwards, calls, readVars,
                     taken, failed, clears>>
  BY Zenon DEF ShouldCapture
<1>3. Tick(cfg, count[h]) \in Nat
  BY <1>1 DEF TypeOK, Tick
<1>4. count' \in [Hooks -> Nat]
  BY <1>2, <1>3 DEF TypeOK
<1>5. kept' \in [Hooks -> SUBSET Fire]
  <2>1. kept \in [Hooks -> SUBSET Fire]
    BY DEF TypeOK
  <2> HIDE DEF h
  <2>2. kept[h] \cup {FireOf(t)} \in SUBSET Fire
    BY <1>1, <2>1
  <2>q. QED BY <1>1, <1>2, <2>1, <2>2
<1>6. pc' \in [Threads -> {"idle", "policy", "index", "open", "write", "leave"}]
  BY <1>2 DEF TypeOK
<1> HIDE DEF h
<1>7. UNCHANGED <<scope, live, bases, dirs, files, nextIdx, fwd, pos, slot, forwards, calls,
                  reading, queue, out, reader, calm, taken, failed, clears>>
  BY <1>2 DEF diskVars, readVars
<1>q. QED BY <1>4, <1>5, <1>6, <1>7 DEF TypeOK

LEMMA TypedIndex ==
  ASSUME TypeOK, NEW t \in Threads, TakeIndex(t)
  PROVE  TypeOK' /\ files' = files
<1>1. DiskTypes'
  <2>1. HookOf(t) \in Hooks /\ FireOf(t) \in Fire
    BY TypedSome, HookTyped
  <2>2. nextIdx' \in [Hooks -> Nat] /\ slot' \in [Threads -> Nat]
    BY <2>1 DEF TakeIndex, TypeOK
  <2>3. taken' \in [Hooks -> Seq(Fire)]
    BY <2>1 DEF TakeIndex, TypeOK
  <2>q. QED BY <2>2, <2>3 DEF TakeIndex, TypeOK, DiskTypes
<1>2. /\ dirs' \subseteq dirs \cup {DirOf(HookOf(t))}
      /\ UNCHANGED <<scope, bases, files, count, calls, readVars, failed, kept, clears>>
  BY DEF TakeIndex
<1>3. dirs' \subseteq Dirs
  BY <1>2, FileTyped DEF TypeOK
<1>q. QED BY <1>1, <1>2, <1>3 DEF TypeOK, DiskTypes, readVars

LEMMA TypedFile ==
  ASSUME DiskTyped, NEW t \in Threads,
         Open(t) \/ Close(t) \/ OpenFails(t) \/ WriteFails(t) \/ ForwardRaises(t)
  PROVE  DiskTyped'
<1> USE DEF DiskTyped
<1>1. FileOf(t) \in Paths /\ FireOf(t) \in Fire
  BY TypedSome, HookTyped, FileTyped
<1>2. UNCHANGED <<scope, live, bases, dirs, count, nextIdx, fwd, pos, slot, forwards, calls,
                  reading, queue, out, reader, calm, taken, kept, clears>>
  BY DEF Open, Close, OpenFails, WriteFails, ForwardRaises, diskVars, readVars, ghosts
<1>3. /\ pc' \in [Threads -> {"idle", "policy", "index", "open", "write", "leave"}]
      /\ failed' \subseteq Paths
  BY <1>1 DEF Open, Close, OpenFails, WriteFails, ForwardRaises, TypeOK, ghosts
<1>4. /\ IsFiniteSet(DOMAIN files') /\ DOMAIN files' \subseteq Paths
      /\ \A f \in DOMAIN files' : files'[f] \in Entry
  <2>1. CASE Open(t)
    <3>1. /\ DOMAIN files' = DOMAIN files \cup {FileOf(t)}
          /\ \A f \in DOMAIN files' :
               \/ files'[f] = [fire |-> FireOf(t), whole |-> FALSE]
               \/ f \in DOMAIN files /\ files'[f] = files[f]
      <4>1. files' = [f \in DOMAIN files \cup {FileOf(t)} |->
                        IF f = FileOf(t) THEN [fire |-> FireOf(t), whole |-> FALSE] ELSE files[f]]
        BY <2>1, Zenon DEF Open
      <4>2. DOMAIN files' = DOMAIN files \cup {FileOf(t)}
        BY <4>1, Zenon
      <4>3. ASSUME NEW f \in DOMAIN files'
            PROVE  \/ files'[f] = [fire |-> FireOf(t), whole |-> FALSE]
                   \/ f \in DOMAIN files /\ files'[f] = files[f]
        BY <4>1, <4>2, <4>3, Zenon
      <4>q. QED BY <4>2, <4>3
    <3>2. IsFiniteSet(DOMAIN files')
      BY <3>1, FS_AddElement
    <3>3. [fire |-> FireOf(t), whole |-> FALSE] \in Entry
      BY <1>1 DEF Entry
    <3>4. \A f \in DOMAIN files : files[f] \in Entry
      BY DEF TypeOK
    <3>5. DOMAIN files' \subseteq Paths
      BY <1>1, <3>1 DEF TypeOK
    <3>q. QED BY <3>1, <3>2, <3>3, <3>4, <3>5
  <2>2. CASE Close(t)
    <3>1. /\ DOMAIN files' = DOMAIN files
          /\ \A f \in DOMAIN files' :
               files'[f] = [fire |-> FireOf(t), whole |-> TRUE] \/ files'[f] = files[f]
      BY <2>2 DEF Close
    <3>2. [fire |-> FireOf(t), whole |-> TRUE] \in Entry
      BY <1>1 DEF Entry
    <3>3. /\ \A f \in DOMAIN files : files[f] \in Entry
          /\ DOMAIN files \subseteq Paths
      BY DEF TypeOK
    <3>q. QED BY <3>1, <3>2, <3>3
  <2>3. CASE OpenFails(t) \/ WriteFails(t) \/ ForwardRaises(t)
    BY <2>3 DEF OpenFails, WriteFails, ForwardRaises, diskVars, TypeOK
  <2>q. QED BY <2>1, <2>2, <2>3
<1>q. QED BY <1>2, <1>3, <1>4 DEF TypeOK

LEMMA TypedCalls ==
  ASSUME DiskTyped, NEW s \in Sessions, BeginReadback(s) \/ Clear(s) \/ Destroy(s)
  PROVE  DiskTyped'
<1> USE DEF DiskTyped
<1>1. CASE BeginReadback(s)
  <2>1. calm' \in BOOLEAN
    <3>1. calm' = Quiet
      BY <1>1 DEF BeginReadback
    <3>q. QED BY <3>1 DEF Quiet
  <2>2. reader' \in Sessions /\ reading' \subseteq Dirs /\ calls' \in Nat
    BY <1>1 DEF BeginReadback, TypeOK
  <2>3. queue' \in Seq(Paths) /\ out' \in Seq(Paths \X (Fire \cup {Old, Garbled}))
    BY <1>1 DEF BeginReadback
  <2>4. UNCHANGED <<scope, live, bases, dirs, files, count, nextIdx, pc, fwd, pos, slot, forwards,
                    taken, failed, kept, clears>>
    BY <1>1 DEF BeginReadback, diskVars, threadVars, ghosts
  <2>q. QED BY <2>1, <2>2, <2>3, <2>4 DEF TypeOK
<1>2. CASE Clear(s)
  <2>1. /\ count' \in [Hooks -> Nat] /\ kept' \in [Hooks -> SUBSET Fire]
        /\ clears' \in [Sessions -> Nat]
    BY <1>2 DEF Clear, TypeOK
  <2>q. QED BY <1>2, <2>1, SMTT(20) DEF Clear, TypeOK, diskVars, threadVars, readVars
<1>3. CASE Destroy(s)
  <2>1. DOMAIN files' \in SUBSET DOMAIN files /\ \A f \in DOMAIN files' : files'[f] = files[f]
    BY <1>3 DEF Destroy
  <2>2. IsFiniteSet(DOMAIN files')
    BY <2>1, FS_Subset
  <2>q. QED BY <1>3, <2>1, <2>2 DEF Destroy, TypeOK, threadVars, readVars, ghosts
<1>q. QED BY <1>1, <1>2, <1>3

LEMMA TypedListing ==
  ASSUME DiskTyped, NEW d \in Dirs, ListDir(d)
  PROVE  DiskTyped'
<1>1. /\ queue' = queue \o Listing(d) /\ reading' = reading \ {d}
      /\ UNCHANGED <<scope, live, diskVars, count, nextIdx, threadVars, forwards, calls, out,
                     reader, calm, ghosts>>
  BY Zenon DEF ListDir, Listing
<1>2. queue' \in Seq(Paths)
  BY <1>1, ListingTyped DEF DiskTyped, TypeOK
<1>q. QED BY <1>1, <1>2 DEF DiskTyped, TypeOK, diskVars, threadVars, ghosts

\* What comes of a file that is loaded: its tensor, if it is whole and its dtype
\* one that is read as itself, garbage if load_raw_tensor makes such of it.
LEMMA ContentIs ==
  ASSUME DiskTyped, NEW file, MayLoad(file)
  PROVE  /\ file \in DOMAIN files
         /\ \/ /\ Content(file) = files[file].fire /\ Content(file) \in Fire \cup {Old}
               /\ Loads(file) /\ Dat!Exact(scope.form)
            \/ Content(file) = Garbled /\ Dat!Garbles(scope.form)
<1>1. file \in DOMAIN files
  BY DEF MayLoad, Loads
<1>2. files[file].fire \in Fire \cup {Old}
  BY <1>1 DEF DiskTyped, TypeOK, Entry
<1>3. CASE Loads(file) /\ Dat!Exact(scope.form)
  BY <1>1, <1>2, <1>3 DEF Content
<1>4. CASE ~ (Loads(file) /\ Dat!Exact(scope.form))
  <2>1. Content(file) = Garbled
    BY <1>4 DEF Content
  <2>2. \/ Dat!Misreads(scope.form)
        \/ Dat!Readable(scope.form) /\ ~ Dat!Exact(scope.form)
    BY <1>4 DEF MayLoad, Loads
  <2>q. QED BY <1>1, <2>1, <2>2 DEF Dat!Garbles
<1>q. QED BY <1>3, <1>4

LEMMA TypedLoad ==
  ASSUME DiskTyped, LoadFile
  PROVE  DiskTyped'
<1> USE DEF DiskTyped
<1>1. /\ queue # <<>> /\ queue' = Tail(queue)
      /\ \/ out' = out
         \/ /\ MayLoad(Head(queue))
            /\ out' = Append(out, <<Head(queue), Content(Head(queue))>>)
      /\ UNCHANGED <<scope, live, diskVars, count, nextIdx, threadVars, forwards, calls, reading,
                     reader, calm, ghosts>>
  BY Zenon DEF LoadFile
<1>2. queue' \in Seq(Paths) /\ Head(queue) \in Paths
  BY <1>1 DEF TypeOK
<1>3. out' \in Seq(Paths \X (Fire \cup {Old, Garbled}))
  <2>1. CASE out' = out BY <2>1 DEF TypeOK
  <2>2. CASE /\ MayLoad(Head(queue))
             /\ out' = Append(out, <<Head(queue), Content(Head(queue))>>)
    <3>1. Content(Head(queue)) \in Fire \cup {Old, Garbled}
      BY <2>2, ContentIs
    <3>2. <<Head(queue), Content(Head(queue))>> \in Paths \X (Fire \cup {Old, Garbled})
      BY <1>2, <3>1
    <3>q. QED BY <2>2, <3>2 DEF TypeOK
  <2>q. QED BY <1>1, <2>1, <2>2
<1>q. QED BY <1>1, <1>2, <1>3 DEF TypeOK, diskVars, threadVars, ghosts

LEMMA TypedStep ==
  ASSUME DiskTyped, [Next]_vars
  PROVE  DiskTyped'
<1>1. ASSUME NEW t \in Threads, StartForward(t) \/ LeaveHook(t) \/ ShouldCapture(t) \/ TakeIndex(t)
      PROVE  DiskTyped'
  BY <1>1, TypedMoves, TypedPolicy, TypedIndex DEF DiskTyped
<1>2. CASE UNCHANGED vars
  BY <1>2 DEF vars, diskVars, threadVars, readVars, ghosts, DiskTyped, TypeOK
<1>q. QED
  BY <1>1, <1>2, TypedFile, TypedCalls, TypedListing, TypedLoad DEF Next, HookStep, Finished

\* Every variable keeps its type: whatever the file system refuses, an index
\* names a file of a hook's directory, and what a readback queues and returns
\* are such files and what becomes of the bytes they hold.
THEOREM DiskPathTypes == Spec => []TypeOK
<1>1. DiskTyped => TypeOK
  BY DEF DiskTyped
<1>q. QED BY <1>1, TypedInit, TypedStep, PTL DEF Spec

-----------------------------------------------------------------------------
(***************************************************************************)
(* Readbacks.  A file a hook opened holds the fire that took its index,    *)
(* whether it was closed or not, and any other was left behind by an       *)
(* earlier program, so what is loaded matches; the order comes from four   *)
(* facts about what a readback has listed, loaded, and still to do.        *)
(***************************************************************************)
Recorded ==
  /\ \A h \in Hooks, i \in Nat :
       File(h, i) \in Streamed => files[File(h, i)].fire = taken[h][i + 1]
  /\ DOMAIN files \ Streamed \subseteq OldFiles

\* What a readback may return for file i of hook h, whose activations q took an
\* index, if the tensors have that form.
Genuine(h, i, content, q, form) ==
  \/ i < Len(q) /\ content = q[i + 1]
  \/ content = Old /\ File(h, i) \in OldFiles
  \/ content = Garbled /\ Dat!Garbles(form)

OutMatches ==
  \A h \in Hooks : \A n \in DOMAIN out : out[n][1][1] = DirOf(h) =>
    Genuine(h, out[n][1][2], out[n][2], taken[h], scope.form)

QueueAscends ==
  \A m, n \in DOMAIN queue : m < n /\ queue[m][1] = queue[n][1] => queue[m][2] < queue[n][2]
OutAscends ==
  \A m, n \in DOMAIN out : m < n /\ out[m][1][1] = out[n][1][1] => out[m][1][2] < out[n][1][2]
OutBelowQueue ==
  \A m \in DOMAIN out, n \in DOMAIN queue :
    out[m][1][1] = queue[n][1] => out[m][1][2] < queue[n][2]
UnlistedFresh ==
  /\ \A n \in DOMAIN queue : queue[n][1] \notin reading
  /\ \A n \in DOMAIN out : out[n][1][1] \notin reading

ReadOrder == QueueAscends /\ OutAscends /\ OutBelowQueue /\ UnlistedFresh

ReadInv == DiskTyped /\ DiskInv /\ Recorded /\ OutMatches /\ ReadOrder

LEMMA TakenGrows ==
  ASSUME DiskInv, [Next]_vars, NEW h \in Hooks
  PROVE  /\ Len(taken[h]) <= Len(taken'[h])
         /\ \A i \in 1 .. Len(taken[h]) : taken'[h][i] = taken[h][i]
<1>1. taken[h] \in Seq(Fire) /\ Len(taken[h]) \in Nat
  BY DEF DiskInv, DiskTypes
<1>2. CASE taken' = taken
  BY <1>1, <1>2
<1>3. ASSUME NEW t \in Threads, TakeIndex(t)
      PROVE  taken'[h] = taken[h] \/ taken'[h] = Append(taken[h], FireOf(t))
  BY <1>3 DEF TakeIndex, DiskInv, DiskTypes
<1>4. ASSUME NEW t \in Threads, taken'[h] = Append(taken[h], FireOf(t))
      PROVE  /\ Len(taken[h]) <= Len(taken'[h])
             /\ \A i \in 1 .. Len(taken[h]) : taken'[h][i] = taken[h][i]
  <2>1. FireOf(t) \in Fire
    BY HookTyped DEF DiskInv
  <2>q. QED BY <1>1, <1>4, <2>1
<1>5. ASSUME NEW t \in Threads,
             \/ Outside(t) \/ Open(t) \/ Close(t) \/ OpenFails(t) \/ WriteFails(t)
      PROVE  taken' = taken
  BY <1>5 DEF Outside, Open, Close, OpenFails, WriteFails, ghosts
<1>6. ASSUME NEW s \in Sessions, Destroy(s) PROVE taken' = taken
  BY <1>6 DEF Destroy, ghosts
<1>7. CASE UNCHANGED core
  BY <1>2, <1>7 DEF core
<1>q. QED BY <1>1, <1>2, <1>3, <1>4, <1>5, <1>6, <1>7, StepCases, OutsideSteps DEF DiskInv

LEMMA RecordedStep ==
  ASSUME OwnDirectories, DiskInv, DiskInv', Recorded, [Next]_vars
  PROVE  Recorded'
<1>1. ASSUME NEW h \in Hooks, NEW i \in Nat, File(h, i) \in Streamed
      PROVE  taken'[h][i + 1] = taken[h][i + 1]
  <2>1. i + 1 \in 1 .. Len(taken[h])
    BY <1>1 DEF DiskInv, FilesInv, IndexInv, DiskTypes
  <2>q. QED BY <2>1, TakenGrows
<1>2. ASSUME \A f \in DOMAIN files' : f \in DOMAIN files /\ files'[f] = files[f]
      PROVE  Recorded'
  <2>1. /\ \A f \in Streamed' : f \in Streamed /\ files'[f] = files[f]
        /\ DOMAIN files' \ Streamed' \subseteq DOMAIN files \ Streamed
    BY <1>2 DEF Streamed
  <2>2. \A h \in Hooks, i \in Nat :
          File(h, i)' \in Streamed' => files'[File(h, i)'].fire = taken'[h][i + 1]
    BY <1>1, <2>1 DEF Recorded, File
  <2>q. QED BY <2>1, <2>2 DEF Recorded
<1>3. ASSUME NEW t \in Threads, Working(t), taken' = taken, files'[FileOf(t)].fire = FireOf(t),
             DOMAIN files' = DOMAIN files \cup {FileOf(t)},
             Streamed' = Streamed \cup {FileOf(t)},
             \A f \in DOMAIN files : f # FileOf(t) => files'[f] = files[f]
      PROVE  Recorded'
  <2>1. taken[HookOf(t)][slot[t] + 1] = FireOf(t) /\ HookOf(t) \in Hooks
    BY <1>3, HookTyped DEF DiskInv, IndexInv
  <2>2. ASSUME NEW h \in Hooks, NEW i \in Nat, File(h, i) = FileOf(t)
        PROVE  taken[h][i + 1] = FireOf(t)
    BY <2>1, <2>2, SameFile DEF FileOf
  <2>3. ASSUME NEW h \in Hooks, NEW i \in Nat, File(h, i) \in Streamed'
        PROVE  files'[File(h, i)].fire = taken'[h][i + 1]
    <3>1. CASE File(h, i) = FileOf(t)
      BY <1>3, <2>2, <3>1
    <3>2. CASE File(h, i) # FileOf(t)
      <4>1. File(h, i) \in Streamed /\ File(h, i) \in DOMAIN files
        BY <1>3, <2>3, <3>2 DEF Streamed
      <4>q. QED BY <1>3, <3>2, <4>1 DEF Recorded
    <3>q. QED BY <3>1, <3>2
  <2>4. DOMAIN files' \ Streamed' \subseteq OldFiles
    BY <1>3 DEF Recorded
  <2>q. QED BY <2>3, <2>4 DEF Recorded, File
<1>4. ASSUME NEW t \in Threads, Outside(t) \/ OpenFails(t) \/ WriteFails(t) \/ TakeIndex(t)
      PROVE  files' = files
  BY <1>4 DEF Outside, OpenFails, WriteFails, TakeIndex, diskVars
<1>5. ASSUME NEW t \in Threads, Open(t) PROVE Recorded'
  <2>1. Working(t) /\ taken' = taken
    BY <1>5 DEF Open, Working, ghosts
  <2>q. QED BY <1>3, <1>5, <2>1, OpenEffect DEF DiskInv
<1>6. ASSUME NEW t \in Threads, Close(t) PROVE Recorded'
  <2>1. Working(t) /\ taken' = taken
    BY <1>6 DEF Close, Working, ghosts
  <2>2. FileOf(t) \in Streamed
    BY <1>6 DEF Close, DiskInv, FilesInv
  <2>3. DOMAIN files = DOMAIN files \cup {FileOf(t)} /\ Streamed = Streamed \cup {FileOf(t)}
    BY <2>2 DEF Streamed
  <2>q. QED BY <1>3, <1>6, <2>1, <2>2, <2>3, CloseEffect DEF DiskInv
<1>7. ASSUME NEW s \in Sessions, Destroy(s) PROVE Recorded'
  BY <1>2, <1>7, DestroyEffect
<1>8. CASE UNCHANGED core
  BY <1>2, <1>8 DEF core
<1>q. QED BY <1>2, <1>4, <1>5, <1>6, <1>7, <1>8, StepCases, OutsideSteps DEF DiskInv

-----------------------------------------------------------------------------
\* Of the steps only three are the readback's.
LEMMA ReadCases ==
  ASSUME [Next]_vars
  PROVE  \/ \E s \in Sessions : BeginReadback(s)
         \/ \E d \in Dirs : ListDir(d)
         \/ LoadFile
         \/ UNCHANGED <<reading, queue, out>>
<1>1. ASSUME NEW t \in Threads, StartForward(t) \/ HookStep(t)
      PROVE  UNCHANGED <<reading, queue, out>>
  BY <1>1 DEF StartForward, HookStep, ShouldCapture, TakeIndex, Open, OpenFails, Close,
              WriteFails, LeaveHook, ForwardRaises, readVars
<1>2. ASSUME NEW s \in Sessions, Clear(s) \/ Destroy(s) PROVE UNCHANGED <<reading, queue, out>>
  BY <1>2 DEF Clear, Destroy, readVars
<1>3. CASE UNCHANGED vars
  BY <1>3 DEF vars, readVars
<1>q. QED BY <1>1, <1>2, <1>3 DEF Next, Finished

\* What one directory's listing appends.
LEMMA ListEffect ==
  ASSUME DiskTyped, NEW d \in Dirs, ListDir(d)
  PROVE  /\ d \in reading /\ reading' = reading \ {d} /\ out' = out
         /\ \A n \in DOMAIN queue : n \in DOMAIN queue' /\ queue'[n] = queue[n]
         /\ \A n \in DOMAIN queue' \ DOMAIN queue :
              \E m \in DOMAIN Sorted(Indices(d)) :
                m = n - Len(queue) /\ queue'[n] = <<d, Sorted(Indices(d))[m]>>
         /\ \A m \in DOMAIN Sorted(Indices(d)) :
              /\ Len(queue) + m \in DOMAIN queue'
              /\ queue'[Len(queue) + m] = <<d, Sorted(Indices(d))[m]>>
<1>1. /\ d \in reading /\ reading' = reading \ {d} /\ out' = out
      /\ queue' = queue \o Listing(d)
  BY Zenon DEF ListDir, Listing
<1>2. queue \in Seq(Paths) /\ Listing(d) \in Seq(Paths)
  BY ListingTyped DEF DiskTyped, TypeOK
<1>3. /\ DOMAIN Listing(d) = DOMAIN Sorted(Indices(d))
      /\ \A m \in DOMAIN Sorted(Indices(d)) : Listing(d)[m] = <<d, Sorted(Indices(d))[m]>>
  BY DEF Listing
<1> DEFINE q == queue
           l == Listing(d)
<1> HIDE DEF l
<1>4. /\ q \in Seq(Paths) /\ l \in Seq(Paths)
      /\ DOMAIN (q \o l) = 1 .. Len(q) + Len(l)
      /\ \A n \in 1 .. Len(q) + Len(l) :
           (q \o l)[n] = IF n <= Len(q) THEN q[n] ELSE l[n - Len(q)]
      /\ Len(q) \in Nat /\ Len(l) \in Nat
      /\ DOMAIN q = 1 .. Len(q) /\ DOMAIN l = 1 .. Len(l)
  BY <1>2 DEF l
<1>5. queue' = q \o l
  BY <1>1 DEF l
<1>6. \A n \in DOMAIN q : n \in DOMAIN (q \o l) /\ (q \o l)[n] = q[n]
  BY <1>4
<1>7. \A n \in DOMAIN (q \o l) \ DOMAIN q :
        n - Len(q) \in DOMAIN l /\ (q \o l)[n] = l[n - Len(q)]
  BY <1>4
<1>8. \A m \in DOMAIN l : Len(q) + m \in DOMAIN (q \o l) /\ (q \o l)[Len(q) + m] = l[m]
  BY <1>4
<1>q. QED BY <1>1, <1>3, <1>5, <1>6, <1>7, <1>8 DEF l

\* What loading one file does: the head of the queue goes to the end of out, or
\* is dropped.
LEMMA LoadEffect ==
  ASSUME DiskTyped, LoadFile
  PROVE  /\ reading = {} /\ reading' = {} /\ 1 \in DOMAIN queue /\ queue[1] \in Paths
         /\ \A n \in DOMAIN queue' : n + 1 \in DOMAIN queue /\ queue'[n] = queue[n + 1]
         /\ \A n \in DOMAIN queue : n = 1 \/ (n - 1 \in DOMAIN queue' /\ queue'[n - 1] = queue[n])
         /\ \/ ~ Loads(queue[1]) /\ out' = out
            \/ /\ MayLoad(queue[1])
               /\ DOMAIN out' = DOMAIN out \cup {Len(out) + 1}
               /\ \A n \in DOMAIN out : n \in Nat /\ n < Len(out) + 1 /\ out'[n] = out[n]
               /\ out'[Len(out) + 1] = <<queue[1], Content(queue[1])>>
<1>1. /\ reading = {} /\ reading' = reading /\ queue # <<>> /\ queue' = Tail(queue)
      /\ \/ MayLoad(Head(queue)) /\ out' = Append(out, <<Head(queue), Content(Head(queue))>>)
         \/ ~ Loads(Head(queue)) /\ out' = out
  BY Zenon DEF LoadFile
<1>2. queue \in Seq(Paths) /\ out \in Seq(Paths \X (Fire \cup {Old, Garbled}))
  BY DEF DiskTyped, TypeOK
<1>3. /\ Head(queue) = queue[1] /\ queue[1] \in Paths /\ 1 \in DOMAIN queue
      /\ \A n \in DOMAIN queue' : n + 1 \in DOMAIN queue /\ queue'[n] = queue[n + 1]
      /\ \A n \in DOMAIN queue : n = 1 \/ (n - 1 \in DOMAIN queue' /\ queue'[n - 1] = queue[n])
  BY <1>1, <1>2
<1>4. ASSUME MayLoad(queue[1]), out' = Append(out, <<queue[1], Content(queue[1])>>)
      PROVE  /\ DOMAIN out' = DOMAIN out \cup {Len(out) + 1}
             /\ \A n \in DOMAIN out : n \in Nat /\ n < Len(out) + 1 /\ out'[n] = out[n]
             /\ out'[Len(out) + 1] = <<queue[1], Content(queue[1])>>
  <2> DEFINE e == <<queue[1], Content(queue[1])>>
  <2>1. out' = Append(out, e)
    BY <1>4
  <2>2. e \in Paths \X (Fire \cup {Old, Garbled})
    BY <1>3, <1>4, ContentIs
  <2> HIDE DEF e
  <2>3. /\ DOMAIN out' = DOMAIN out \cup {Len(out) + 1}
        /\ \A n \in DOMAIN out : n \in Nat /\ n < Len(out) + 1 /\ out'[n] = out[n]
        /\ out'[Len(out) + 1] = e
    BY <1>2, <2>1, <2>2
  <2>q. QED BY <2>3 DEF e
<1>q. QED BY <1>1, <1>3, <1>4

LEMMA BeginEffect ==
  ASSUME NEW s \in Sessions, BeginReadback(s)
  PROVE  DOMAIN queue' = {} /\ DOMAIN out' = {}
<1>1. queue' = <<>> /\ out' = <<>>
  BY DEF BeginReadback
<1>q. QED BY <1>1

LEMMA OutMatchesStep ==
  ASSUME DiskTyped, DiskInv, DiskInv', Recorded, OutMatches, [Next]_vars
  PROVE  OutMatches'
<1>1. ASSUME NEW h \in Hooks, NEW i \in Nat, NEW c, Genuine(h, i, c, taken[h], scope.form)
      PROVE  Genuine(h, i, c, taken'[h], scope'.form)
  <2>1. Len(taken[h]) \in Nat /\ Len(taken'[h]) \in Nat
    BY DEF DiskInv, DiskTypes
  <2>2. CASE i < Len(taken[h]) /\ c = taken[h][i + 1]
    <3>1. i + 1 \in 1 .. Len(taken[h]) /\ Len(taken[h]) <= Len(taken'[h])
      BY <2>1, <2>2, TakenGrows
    <3>2. taken'[h][i + 1] = taken[h][i + 1]
      BY <3>1, TakenGrows
    <3>q. QED BY <2>1, <2>2, <3>1, <3>2 DEF Genuine
  <2>3. CASE c = Old /\ File(h, i) \in OldFiles
    BY <2>3 DEF Genuine
  <2>4. CASE c = Garbled /\ Dat!Garbles(scope.form)
    BY <2>4, ScopeFixed DEF Genuine
  <2>q. QED BY <1>1, <2>2, <2>3, <2>4 DEF Genuine
<1>2. ASSUME NEW h \in Hooks, NEW n \in DOMAIN out, out[n][1][1] = DirOf(h)
      PROVE  Genuine(h, out[n][1][2], out[n][2], taken'[h], scope'.form)
  <2>1. out[n][1][2] \in Nat
    BY DEF DiskTyped, TypeOK, Paths
  <2>q. QED BY <1>1, <1>2, <2>1 DEF OutMatches
<1>3. CASE out' = out
  BY <1>2, <1>3 DEF OutMatches
<1>4. ASSUME NEW s \in Sessions, BeginReadback(s) PROVE OutMatches'
  BY <1>4, BeginEffect DEF OutMatches
<1>5. ASSUME LoadFile, out' # out PROVE OutMatches'
  <2> DEFINE f == queue[1]
             N == Len(out) + 1
             c == Content(f)
  <2>1. /\ f \in Paths /\ MayLoad(f) /\ DOMAIN out' = DOMAIN out \cup {N}
        /\ \A n \in DOMAIN out : out'[n] = out[n]
        /\ out'[N] = <<f, c>>
    BY <1>5, LoadEffect
  <2>2. /\ f \in DOMAIN files
        /\ c = files[f].fire \/ (c = Garbled /\ Dat!Garbles(scope.form))
    BY <2>1, ContentIs
  <2> HIDE DEF f, N, c
  <2>3. ASSUME NEW h \in Hooks, f[1] = DirOf(h)
        PROVE  Genuine(h, f[2], c, taken'[h], scope'.form)
    <3>1. f = File(h, f[2]) /\ f[2] \in Nat
      BY <2>1, <2>3 DEF Paths, File
    <3> DEFINE i == f[2]
    <3>2. f = File(h, i) /\ i \in Nat
      BY <3>1
    <3> HIDE DEF i
    <3>3. CASE f \in Streamed /\ c = files[f].fire
      <4>1. i < Len(taken[h]) /\ c = taken[h][i + 1]
        BY <3>2, <3>3 DEF Recorded, DiskInv, FilesInv, IndexInv
      <4>2. Genuine(h, i, c, taken[h], scope.form)
        BY <4>1 DEF Genuine
      <4>3. Genuine(h, i, c, taken'[h], scope'.form)
        BY <1>1, <3>2, <4>2
      <4>q. QED BY <4>3 DEF i
    <3>4. CASE f \notin Streamed /\ c = files[f].fire
      <4>1. c = Old /\ File(h, i) \in OldFiles
        BY <2>2, <3>2, <3>4 DEF Recorded, Streamed
      <4>q. QED BY <4>1 DEF Genuine, i
    <3>5. CASE c = Garbled /\ Dat!Garbles(scope.form)
      BY <3>5, ScopeFixed DEF Genuine
    <3>q. QED BY <2>2, <3>3, <3>4, <3>5
  <2>4. ASSUME NEW h \in Hooks, NEW n \in DOMAIN out', out'[n][1][1] = DirOf(h)
        PROVE  Genuine(h, out'[n][1][2], out'[n][2], taken'[h], scope'.form)
    <3>1. CASE n = N BY <2>1, <2>3, <2>4, <3>1
    <3>2. CASE n # N BY <1>2, <2>1, <2>4, <3>2
    <3>q. QED BY <3>1, <3>2
  <2>q. QED BY <2>4 DEF OutMatches
<1>6. ASSUME NEW d \in Dirs, ListDir(d) PROVE out' = out
  BY <1>6 DEF ListDir
<1>q. QED BY <1>3, <1>4, <1>5, <1>6, ReadCases

\* Each step of a readback keeps the four facts about its order.
LEMMA OrderListed ==
  ASSUME DiskTyped, ReadOrder, NEW d \in Dirs, ListDir(d)
  PROVE  ReadOrder'
<1> DEFINE srt == Sorted(Indices(d))
<1>1. Increasing(srt) /\ \A m \in DOMAIN srt : srt[m] \in Nat /\ m \in Nat
  <2>1. srt \in Seq(Nat) /\ Increasing(srt)
    BY IndicesFinite, SortedIs
  <2> HIDE DEF srt
  <2>q. QED BY <2>1
<1>2. /\ d \in reading /\ reading' = reading \ {d} /\ out' = out
      /\ \A n \in DOMAIN queue : queue'[n] = queue[n]
      /\ \A n \in DOMAIN queue' \ DOMAIN queue :
           \E m \in DOMAIN srt : m = n - Len(queue) /\ queue'[n] = <<d, srt[m]>>
  BY ListEffect
<1> HIDE DEF srt
<1>3. /\ Len(queue) \in Nat /\ DOMAIN queue = 1 .. Len(queue)
      /\ \A n \in DOMAIN queue' : n \in Nat
  <2>1. queue \in Seq(Paths) /\ queue' \in Seq(Paths)
    BY TypedListing DEF DiskTyped, TypeOK
  <2>q. QED BY <2>1
<1>4. ASSUME NEW n \in DOMAIN queue' \ DOMAIN queue PROVE queue'[n][1] = d
  BY <1>2
<1>5. QueueAscends'
  <2> SUFFICES ASSUME NEW m \in DOMAIN queue', NEW n \in DOMAIN queue',
                      m < n, queue'[m][1] = queue'[n][1]
               PROVE  queue'[m][2] < queue'[n][2]
    BY DEF QueueAscends
  <2>1. CASE m \in DOMAIN queue /\ n \in DOMAIN queue
    BY <1>2, <2>1 DEF ReadOrder, QueueAscends
  <2>2. CASE m \in DOMAIN queue /\ n \notin DOMAIN queue
    BY <1>2, <1>4, <2>2 DEF ReadOrder, UnlistedFresh
  <2>3. CASE m \notin DOMAIN queue /\ n \in DOMAIN queue
    BY <1>3, <2>3
  <2>4. CASE m \notin DOMAIN queue /\ n \notin DOMAIN queue
    <3>1. PICK i \in DOMAIN srt : i = m - Len(queue) /\ queue'[m] = <<d, srt[i]>>
      BY <1>2, <2>4
    <3>2. PICK j \in DOMAIN srt : j = n - Len(queue) /\ queue'[n] = <<d, srt[j]>>
      BY <1>2, <2>4
    <3>3. i < j
      BY <1>3, <3>1, <3>2
    <3>4. srt[i] < srt[j]
      BY <1>1, <3>3 DEF Increasing
    <3>q. QED BY <3>1, <3>2, <3>4
  <2>q. QED BY <2>1, <2>2, <2>3, <2>4
<1>6. OutAscends'
  BY <1>2 DEF ReadOrder, OutAscends
<1>7. OutBelowQueue'
  <2> SUFFICES ASSUME NEW m \in DOMAIN out, NEW n \in DOMAIN queue', out[m][1][1] = queue'[n][1]
               PROVE  out[m][1][2] < queue'[n][2]
    BY <1>2 DEF OutBelowQueue
  <2>1. CASE n \in DOMAIN queue
    BY <1>2, <2>1 DEF ReadOrder, OutBelowQueue
  <2>2. CASE n \notin DOMAIN queue
    BY <1>2, <1>4, <2>2 DEF ReadOrder, UnlistedFresh
  <2>q. QED BY <2>1, <2>2
<1>8. UnlistedFresh'
  BY <1>2, <1>4 DEF ReadOrder, UnlistedFresh
<1>q. QED BY <1>5, <1>6, <1>7, <1>8 DEF ReadOrder

LEMMA OrderLoaded ==
  ASSUME DiskTyped, ReadOrder, LoadFile
  PROVE  ReadOrder'
<1>1. /\ reading' = {} /\ 1 \in DOMAIN queue
      /\ \A n \in DOMAIN queue' : n + 1 \in DOMAIN queue /\ queue'[n] = queue[n + 1]
  BY LoadEffect
<1>2. \A n \in DOMAIN queue' : n \in Nat /\ n # 0
  <2>1. queue' \in Seq(Paths)
    BY TypedLoad DEF DiskTyped, TypeOK
  <2>q. QED BY <2>1
<1>3. QueueAscends' /\ UnlistedFresh'
  <2>1. QueueAscends'
    BY <1>1, <1>2 DEF ReadOrder, QueueAscends
  <2>q. QED BY <1>1, <2>1 DEF UnlistedFresh
<1>4. \A n \in DOMAIN queue' : queue[1][1] = queue'[n][1] => queue[1][2] < queue'[n][2]
  BY <1>1, <1>2 DEF ReadOrder, QueueAscends
<1>5. CASE out' = out
  BY <1>1, <1>5, <1>3 DEF ReadOrder, OutAscends, OutBelowQueue
<1>6. CASE out' # out
  <2> DEFINE N == Len(out) + 1
             file == queue[1]
  <2>1. /\ DOMAIN out' = DOMAIN out \cup {N}
        /\ \A n \in DOMAIN out : n \in Nat /\ n < N /\ out'[n] = out[n]
        /\ out'[N] = <<file, Content(file)>>
    BY <1>6, LoadEffect
  <2>2. N \in Nat
    BY DEF DiskTyped, TypeOK
  <2>3. out'[N][1] = file
    BY <2>1
  <2> HIDE DEF N
  <2>4. OutAscends'
    <3> SUFFICES ASSUME NEW m \in DOMAIN out', NEW n \in DOMAIN out',
                        m < n, out'[m][1][1] = out'[n][1][1]
                 PROVE  out'[m][1][2] < out'[n][1][2]
      BY DEF OutAscends
    <3>1. CASE m \in DOMAIN out /\ n \in DOMAIN out
      BY <2>1, <3>1 DEF ReadOrder, OutAscends
    <3>2. CASE m \in DOMAIN out /\ n = N
      BY <1>1, <2>1, <2>3, <3>2 DEF ReadOrder, OutBelowQueue
    <3>3. m # N
      BY <2>1, <2>2
    <3>q. QED BY <2>1, <3>1, <3>2, <3>3
  <2>5. OutBelowQueue'
    <3> SUFFICES ASSUME NEW m \in DOMAIN out', NEW n \in DOMAIN queue',
                        out'[m][1][1] = queue'[n][1]
                 PROVE  out'[m][1][2] < queue'[n][2]
      BY DEF OutBelowQueue
    <3>1. CASE m \in DOMAIN out
      BY <1>1, <2>1, <3>1 DEF ReadOrder, OutBelowQueue
    <3>2. CASE m = N
      BY <1>4, <2>3, <3>2
    <3>q. QED BY <2>1, <3>1, <3>2
  <2>q. QED BY <1>3, <2>4, <2>5 DEF ReadOrder
<1>q. QED BY <1>5, <1>6

LEMMA OrderStep ==
  ASSUME DiskTyped, ReadOrder, [Next]_vars
  PROVE  ReadOrder'
<1>1. ASSUME NEW s \in Sessions, BeginReadback(s) PROVE ReadOrder'
  BY <1>1, BeginEffect
     DEF ReadOrder, QueueAscends, OutAscends, OutBelowQueue, UnlistedFresh
<1>2. CASE UNCHANGED <<reading, queue, out>>
  BY <1>2 DEF ReadOrder, QueueAscends, OutAscends, OutBelowQueue, UnlistedFresh
<1>q. QED BY <1>1, <1>2, ReadCases, OrderListed, OrderLoaded

LEMMA ReadInit == Init => ReadInv
<1> SUFFICES ASSUME Init PROVE ReadInv
  OBVIOUS
<1>1. DiskTyped /\ DiskInv
  BY TypedInit, DiskInit
<1>2. Streamed = {} /\ DOMAIN files \subseteq OldFiles
  BY LeftBehind
<1>3. DOMAIN queue = {} /\ DOMAIN out = {}
  BY DEF Init
<1>q. QED
  BY <1>1, <1>2, <1>3 DEF ReadInv, Recorded, OutMatches, ReadOrder, QueueAscends, OutAscends,
     OutBelowQueue, UnlistedFresh

LEMMA ReadStep ==
  ASSUME OwnDirectories, ReadInv, [Next]_vars
  PROVE  ReadInv'
<1>1. DiskTyped' /\ DiskInv'
  BY TypedStep, DiskStep DEF ReadInv
<1>q. QED
  BY <1>1, RecordedStep, OutMatchesStep, OrderStep DEF ReadInv

\* A readback that races the hooks returns, of every layer, in the order of the
\* indices, the tensor that took the file's index, or one that an earlier program
\* left in that file; anything else only of a dtype load_raw_tensor garbles
\* (session_readback_disk, session.cpp:247-268, and activations, tracker.py).
THEOREM ReadbacksSound ==
  ASSUME OwnDirectories
  PROVE  Spec => []ReadbackSound
<1>1. Init => ReadInv
  BY ReadInit
<1>2. ReadInv /\ [Next]_vars => ReadInv'
  BY ReadStep
<1>3. ReadInv => ReadbackSound
  BY DEF ReadInv, OutMatches, Genuine, ReadOrder, OutAscends, ReadbackSound, HooksOf, Loaded
<1>q. QED BY <1>1, <1>2, <1>3, PTL DEF Spec

-----------------------------------------------------------------------------
(***************************************************************************)
(* Completeness.  While no hook runs the disk stands still, so a file that *)
(* was streamed stays ahead of the readback until it is loaded, if its     *)
(* dtype is read as itself; and if it is not, no tensor comes out of it.   *)
(***************************************************************************)
AsWritten == Dat!Exact(scope.form)

CalmInv == calm => Quiet
HomeInv == \A f \in DOMAIN files : f[1] \in dirs
FailedInv ==
  /\ \A f \in failed : f \in Streamed => ~ files[f].whole
  /\ \A t \in Threads : Working(t) => FileOf(t) \notin failed
  /\ \A h \in Hooks, i \in Nat : File(h, i) \in failed => i < nextIdx[h]

\* A streamed file is still to be listed, to be loaded, or loaded.
Coming(h, i) ==
  \/ DirOf(h) \in reading
  \/ \E n \in DOMAIN queue : queue[n] = File(h, i)
  \/ \E n \in DOMAIN out : out[n][1] = File(h, i) /\ out[n][2] \in Fire
AllComing ==
  calm /\ reader \in live /\ AsWritten => \A h \in HooksOf(reader) :
    \A i \in Nat : i < Len(taken[h]) /\ File(h, i) \notin failed => Coming(h, i)

\* Nothing that was returned as a tensor of these sessions failed to be written,
\* and nothing is if the dtype is not read as itself.
NoneFailed ==
  \A n \in DOMAIN out : out[n][2] \in Fire => AsWritten /\ (calm => out[n][1] \notin failed)

CompleteInv == CalmInv /\ HomeInv /\ FailedInv /\ AllComing /\ NoneFailed

\* A thread's step is no part of a calm readback, unless it ends the calm.
LEMMA CalmCases ==
  ASSUME CalmInv, [Next]_vars
  PROVE  \/ ~ calm'
         \/ \E s \in Sessions : BeginReadback(s)
         \/ /\ Quiet /\ Quiet' /\ calm' = calm
            /\ UNCHANGED <<taken, failed, reader>>
            /\ \/ UNCHANGED <<reading, queue, out>> /\ live' \subseteq live
               \/ \E d \in Dirs : ListDir(d) /\ live' = live
               \/ LoadFile /\ live' = live
<1> DEFINE Still == calm' = calm /\ UNCHANGED <<taken, failed, reader>>
<1>1. ASSUME NEW t \in Threads, StartForward(t) PROVE ~ calm'
  BY <1>1 DEF StartForward
<1>2. ASSUME NEW t \in Threads, HookStep(t) PROVE ~ calm'
  <2>1. calm' = calm
    BY <1>2 DEF HookStep, ShouldCapture, TakeIndex, Open, OpenFails, Close, WriteFails, LeaveHook,
                ForwardRaises, readVars
  <2>2. pc[t] # "idle"
    BY <1>2 DEF HookStep, ShouldCapture, TakeIndex, Open, OpenFails, Close, WriteFails, LeaveHook,
                ForwardRaises
  <2>q. QED BY <2>1, <2>2 DEF CalmInv, Quiet
<1>3. ASSUME NEW s \in Sessions, Clear(s) \/ Destroy(s)
      PROVE  Quiet /\ Quiet' /\ Still /\ UNCHANGED <<reading, queue, out>> /\ live' \subseteq live
  BY <1>3 DEF Clear, Destroy, Quiet, readVars, threadVars, ghosts
<1>4. ASSUME NEW d \in Dirs, ListDir(d)
      PROVE  Still /\ live' = live /\ (Quiet => Quiet')
  BY <1>4 DEF ListDir, Quiet, threadVars, ghosts
<1>5. CASE LoadFile
  <2>1. Still /\ live' = live /\ (Quiet => Quiet')
    BY <1>5 DEF LoadFile, Quiet, threadVars, ghosts
  <2>q. QED BY <1>5, <2>1 DEF CalmInv
<1>6. CASE UNCHANGED vars
  BY <1>6 DEF vars, readVars, threadVars, ghosts, Quiet, CalmInv
<1>q. QED BY <1>1, <1>2, <1>3, <1>4, <1>5, <1>6 DEF Next, Finished, CalmInv

LEMMA CalmStep ==
  ASSUME CalmInv, [Next]_vars
  PROVE  CalmInv'
<1>1. ASSUME NEW s \in Sessions, BeginReadback(s) PROVE CalmInv'
  <2>1. calm' = Quiet /\ pc' = pc
    BY <1>1 DEF BeginReadback, threadVars
  <2>q. QED BY <2>1 DEF CalmInv, Quiet
<1>q. QED BY <1>1, CalmCases DEF CalmInv

LEMMA HomeStep ==
  ASSUME HomeInv, [Next]_vars
  PROVE  HomeInv'
<1>1. ASSUME DOMAIN files' \subseteq DOMAIN files, dirs \subseteq dirs' PROVE HomeInv'
  BY <1>1 DEF HomeInv
<1>2. ASSUME NEW t \in Threads, TakeIndex(t) PROVE HomeInv'
  <2>1. files' = files /\ dirs \subseteq dirs'
    BY <1>2 DEF TakeIndex
  <2>q. QED BY <1>1, <2>1
<1>3. ASSUME NEW t \in Threads, Open(t) PROVE HomeInv'
  <2>1. /\ DirOf(HookOf(t)) \in dirs /\ dirs' = dirs
        /\ DOMAIN files' = DOMAIN files \cup {FileOf(t)}
    BY <1>3 DEF Open
  <2>q. QED BY <2>1 DEF HomeInv, FileOf, File
<1>4. ASSUME NEW t \in Threads, Close(t) PROVE HomeInv'
  <2>1. dirs' = dirs /\ DOMAIN files' = DOMAIN files
    BY <1>4 DEF Close
  <2>q. QED BY <1>1, <2>1
<1>5. ASSUME NEW s \in Sessions, Destroy(s) PROVE HomeInv'
  <2>1. /\ files' = [f \in {g \in DOMAIN files : g[1][1] # BaseOf[s]} |-> files[f]]
        /\ dirs' = {d \in dirs : d[1] # BaseOf[s]}
    BY <1>5, Zenon DEF Destroy
  <2>q. QED BY <2>1 DEF HomeInv
<1>6. ASSUME NEW t \in Threads,
             \/ StartForward(t) \/ ShouldCapture(t) \/ ForwardRaises(t) \/ LeaveHook(t)
             \/ OpenFails(t) \/ WriteFails(t)
      PROVE  UNCHANGED diskVars
  BY <1>6 DEF StartForward, ShouldCapture, ForwardRaises, LeaveHook, OpenFails, WriteFails
<1>7. ASSUME NEW s \in Sessions, BeginReadback(s) \/ Clear(s) PROVE UNCHANGED diskVars
  BY <1>7 DEF BeginReadback, Clear
<1>8. ASSUME NEW d \in Dirs, ListDir(d) PROVE UNCHANGED diskVars
  BY <1>8 DEF ListDir
<1>9. UNCHANGED diskVars => HomeInv'
  BY <1>1 DEF diskVars
<1>10. CASE LoadFile
  BY <1>9, <1>10 DEF LoadFile
<1>11. CASE UNCHANGED vars
  BY <1>9, <1>11 DEF vars
<1>q. QED
  BY <1>2, <1>3, <1>4, <1>5, <1>6, <1>7, <1>8, <1>9, <1>10, <1>11 DEF Next, HookStep, Finished

LEMMA FailedStep ==
  ASSUME OwnDirectories, DiskInv, DiskInv', FailedInv, [Next]_vars
  PROVE  FailedInv'
<1> USE DEF DiskInv
<1>1. \A h \in Hooks : nextIdx[h] <= nextIdx'[h]
  BY TakenGrows DEF IndexInv
<1>2. CASE UNCHANGED core
  BY <1>2 DEF core, FailedInv, Streamed, Working, FileOf, File, HookOf
<1>3. ASSUME NEW t \in Threads, Outside(t) PROVE FailedInv'
  <2>1. \A u \in Threads : Working(u)' => Working(u) /\ FileOf(u)' = FileOf(u)
    BY <1>3 DEF Outside, Working, FileOf, File, HookOf
  <2>q. QED BY <1>3, <2>1 DEF FailedInv, Outside, File, Streamed
<1>4. ASSUME NEW t \in Threads, TakeIndex(t) PROVE FailedInv'
  <2> DEFINE h == HookOf(t)
  <2>1. /\ slot' = [slot EXCEPT ![t] = nextIdx[h]] /\ pc' = [pc EXCEPT ![t] = "open"]
        /\ UNCHANGED <<files, failed, pos>>
    BY <1>4 DEF TakeIndex
  <2>2. h \in Hooks /\ nextIdx[h] \in Nat
    BY HookTyped DEF DiskTypes
  <2>3. \A u \in Threads \ {t} : (Working(u)' <=> Working(u)) /\ FileOf(u)' = FileOf(u)
    BY <2>1 DEF Working, FileOf, File, HookOf, DiskTypes
  <2>4. FileOf(t)' = File(h, nextIdx[h])
    BY <2>1 DEF FileOf, File, HookOf, DiskTypes
  <2>5. File(h, nextIdx[h]) \notin failed
    BY <2>2 DEF FailedInv
  <2>6. \A g \in Hooks, i \in Nat : File(g, i)' \in failed' => i < nextIdx'[g]
    <3> SUFFICES ASSUME NEW g \in Hooks, NEW i \in Nat, File(g, i) \in failed PROVE i < nextIdx'[g]
      BY <2>1 DEF File
    <3>1. i < nextIdx[g] /\ nextIdx[g] <= nextIdx'[g]
      BY <1>1 DEF FailedInv
    <3>2. nextIdx[g] \in Nat /\ nextIdx'[g] \in Nat
      BY DEF DiskTypes
    <3>q. QED BY <3>1, <3>2
  <2>7. \A u \in Threads : Working(u)' => FileOf(u)' \notin failed'
    BY <2>1, <2>3, <2>4, <2>5 DEF FailedInv
  <2>8. Streamed' = Streamed
    BY <2>1 DEF Streamed
  <2>q. QED BY <2>1, <2>6, <2>7, <2>8 DEF FailedInv
<1>5. ASSUME NEW t \in Threads, Open(t) \/ Close(t) PROVE FailedInv'
  <2>1. /\ Working(t) /\ UNCHANGED <<failed, pos, slot, nextIdx>>
        /\ pc' = [pc EXCEPT ![t] = "write"] \/ pc' = [pc EXCEPT ![t] = "leave"]
    BY <1>5 DEF Open, Close, ghosts, Working
  <2>2. \A u \in Threads : (Working(u)' => Working(u)) /\ FileOf(u)' = FileOf(u)
    BY <2>1 DEF Working, FileOf, File, HookOf, DiskTypes
  <2>3. \A f \in Streamed' : f # FileOf(t) => f \in Streamed /\ files'[f] = files[f]
    <3>1. CASE Open(t)
      <4>1. /\ Streamed' = Streamed \cup {FileOf(t)}
            /\ \A f \in DOMAIN files : f # FileOf(t) => files'[f] = files[f]
        BY <3>1, OpenEffect
      <4>2. Streamed \subseteq DOMAIN files
        BY DEF Streamed
      <4>q. QED BY <4>1, <4>2
    <3>2. CASE Close(t)
      <4>1. FileOf(t) \in Streamed
        BY <3>2 DEF Close, FilesInv
      <4>q. QED BY <3>2, <4>1, CloseEffect DEF Streamed
    <3>q. QED BY <1>5, <3>1, <3>2
  <2>4. FileOf(t) \notin failed
    BY <2>1 DEF FailedInv
  <2>q. QED BY <2>1, <2>2, <2>3, <2>4 DEF FailedInv, File
<1>6. ASSUME NEW t \in Threads, OpenFails(t) \/ WriteFails(t) PROVE FailedInv'
  <2>1. /\ Working(t) /\ UNCHANGED <<files, pos, slot, nextIdx>>
        /\ pc' = [pc EXCEPT ![t] = "leave"] /\ failed' = failed \cup {FileOf(t)}
    BY <1>6 DEF OpenFails, WriteFails, diskVars, Working
  <2>2. ~ Working(t)' /\ \A u \in Threads \ {t} : Working(u)' <=> Working(u)
    BY <2>1 DEF Working, DiskTypes
  <2>3. \A u \in Threads : FileOf(u)' = FileOf(u)
    BY <2>1 DEF FileOf, File, HookOf
  <2>4. FileOf(t) \in Streamed => ~ files[FileOf(t)].whole
    BY <1>6 DEF OpenFails, WriteFails, FilesInv
  <2>5. \A u \in Threads \ {t} : Working(u) => FileOf(u) # FileOf(t)
    BY <2>1, WorkersApart
  <2>6. ASSUME NEW h \in Hooks, NEW i \in Nat, File(h, i) = FileOf(t) PROVE i < nextIdx[h]
    BY <2>1, <2>6, SameFile, HookTyped DEF FileOf, IndexInv
  <2>q. QED BY <2>1, <2>2, <2>3, <2>4, <2>5, <2>6 DEF FailedInv, File, Streamed
<1>7. ASSUME NEW s \in Sessions, Destroy(s) PROVE FailedInv'
  <2>1. /\ Quiet /\ UNCHANGED <<failed, nextIdx, pc>>
        /\ \A f \in Streamed' : f \in Streamed /\ files'[f] = files[f]
    BY <1>7, DestroyEffect DEF Destroy, threadVars, ghosts, Streamed
  <2>q. QED BY <2>1 DEF FailedInv, Working, Quiet, File
<1>q. QED BY <1>2, <1>3, <1>4, <1>5, <1>6, <1>7, StepCases, OutsideSteps

LEMMA StreamedWhole ==
  ASSUME DiskInv, AllAccounted, Quiet, NEW h \in Hooks, SessionOf[h] \in live,
         NEW i \in Nat, i < Len(taken[h]), File(h, i) \notin failed, AsWritten
  PROVE  Loads(File(h, i)) /\ Content(File(h, i)) \in Fire
<1>1. i + 1 \in 1 .. Len(taken[h]) /\ (i + 1) - 1 = i
  BY DEF DiskInv, DiskTypes
<1>2. Accounted(h, i + 1)
  BY <1>1 DEF AllAccounted
<1>3. ~ Writing(h, i)
  BY DEF Quiet, Writing
<1>4. /\ File(h, i) \in DOMAIN files
      /\ files[File(h, i)] = [fire |-> taken[h][i + 1], whole |-> TRUE]
  BY <1>1, <1>2, <1>3 DEF Accounted
<1>5. files[File(h, i)].whole /\ files[File(h, i)].fire = taken[h][i + 1]
  BY <1>4
<1>6. taken[h][i + 1] \in Fire
  BY <1>1 DEF DiskInv, DiskTypes
<1>7. Dat!Exact(scope.form) /\ Dat!Readable(scope.form)
  BY DEF AsWritten, Dat!Exact
<1>8. Loads(File(h, i))
  BY <1>4, <1>5, <1>7 DEF Loads
<1>q. QED BY <1>5, <1>6, <1>7, <1>8 DEF Content

LEMMA ComingBegun ==
  ASSUME DiskInv, AllAccounted, HomeInv, NEW s \in Sessions, BeginReadback(s)
  PROVE  AllComing' /\ NoneFailed'
<1>1. /\ s \in live /\ reader' = s /\ calm' = Quiet
      /\ reading' = {d \in dirs : d[1] = BaseOf[s]}
      /\ UNCHANGED <<live, taken, failed, scope>>
  BY DEF BeginReadback, MayCall, ghosts
<1>2. ASSUME Quiet, AsWritten, NEW h \in HooksOf(s), NEW i \in Nat, i < Len(taken[h]),
             File(h, i) \notin failed
      PROVE  DirOf(h) \in reading'
  <2>1. h \in Hooks /\ SessionOf[h] = s
    BY DEF HooksOf
  <2>2. File(h, i) \in DOMAIN files
    BY <1>1, <1>2, <2>1, StreamedWhole DEF Loads
  <2>3. DirOf(h) \in dirs
    BY <2>2 DEF HomeInv, File
  <2>4. DirOf(h)[1] = BaseOf[s]
    BY <2>1 DEF DirOf
  <2>q. QED BY <1>1, <2>3, <2>4
<1>3. AllComing'
  BY <1>1, <1>2 DEF AllComing, AsWritten, Coming, HooksOf, File, DirOf
<1>4. NoneFailed'
  BY BeginEffect DEF NoneFailed
<1>q. QED BY <1>3, <1>4

LEMMA ComingListed ==
  ASSUME DiskTyped, DiskInv, AllAccounted, Quiet, NEW d \in Dirs, ListDir(d),
         NEW h \in Hooks, SessionOf[h] \in live, NEW i \in Nat, i < Len(taken[h]),
         File(h, i) \notin failed, AsWritten, Coming(h, i)
  PROVE  Coming(h, i)'
<1>1. File(h, i)' = File(h, i) /\ DirOf(h)' = DirOf(h)
  BY DEF File, DirOf
<1>2. CASE DirOf(h) \in reading /\ DirOf(h) # d
  BY <1>1, <1>2, ListEffect DEF Coming
<1>3. CASE DirOf(h) = d
  <2>1. File(h, i) \in DOMAIN files
    BY StreamedWhole DEF Loads
  <2>2. i \in Indices(d)
    BY <1>3, <2>1 DEF Indices, File
  <2>3. PICK m \in DOMAIN Sorted(Indices(d)) : Sorted(Indices(d))[m] = i
    BY <2>2, IndicesFinite, SortedIs
  <2>4. /\ Len(queue) + m \in DOMAIN queue'
        /\ queue'[Len(queue) + m] = <<d, i>>
    BY <2>3, ListEffect
  <2>q. QED BY <1>1, <1>3, <2>4 DEF Coming, File
<1>4. ASSUME NEW n \in DOMAIN queue, queue[n] = File(h, i) PROVE Coming(h, i)'
  <2>1. n \in DOMAIN queue' /\ queue'[n] = queue[n]
    BY ListEffect
  <2>q. QED BY <1>1, <1>4, <2>1 DEF Coming
<1>5. ASSUME NEW n \in DOMAIN out, out[n][1] = File(h, i), out[n][2] \in Fire
      PROVE  Coming(h, i)'
  <2>1. out' = out
    BY ListEffect
  <2>q. QED BY <1>1, <1>5, <2>1 DEF Coming
<1>q. QED BY <1>2, <1>3, <1>4, <1>5 DEF Coming

LEMMA ComingLoaded ==
  ASSUME DiskTyped, DiskInv, AllAccounted, Quiet, LoadFile,
         NEW h \in Hooks, SessionOf[h] \in live, NEW i \in Nat, i < Len(taken[h]),
         File(h, i) \notin failed, AsWritten, Coming(h, i)
  PROVE  Coming(h, i)'
<1> DEFINE f == File(h, i)
<1>1. Loads(f) /\ Content(f) \in Fire /\ f' = f
  BY StreamedWhole DEF File
<1>0. Fire' = Fire
  BY DEF Fire
<1>2. DirOf(h) \notin reading
  BY LoadEffect
<1>3. Coming(h, i)' <=> \/ DirOf(h)' \in reading'
                        \/ \E n \in DOMAIN queue' : queue'[n] = f
                        \/ \E n \in DOMAIN out' : out'[n][1] = f /\ out'[n][2] \in Fire
  BY <1>0, <1>1 DEF Coming
<1>4. Coming(h, i) <=> \/ DirOf(h) \in reading
                       \/ \E n \in DOMAIN queue : queue[n] = f
                       \/ \E n \in DOMAIN out : out[n][1] = f /\ out[n][2] \in Fire
  BY DEF Coming
<1> HIDE DEF f
<1>5. CASE queue[1] = f
  <2>1. Len(out) + 1 \in DOMAIN out' /\ out'[Len(out) + 1] = <<f, Content(f)>>
    BY <1>1, <1>5, LoadEffect
  <2>q. QED BY <1>1, <1>3, <2>1
<1>6. ASSUME NEW n \in DOMAIN queue, n # 1, queue[n] = f PROVE Coming(h, i)'
  <2>1. n - 1 \in DOMAIN queue' /\ queue'[n - 1] = queue[n]
    BY <1>6, LoadEffect
  <2>q. QED BY <1>3, <1>6, <2>1
<1>7. ASSUME NEW n \in DOMAIN out, out[n][1] = f, out[n][2] \in Fire PROVE Coming(h, i)'
  <2>1. n \in DOMAIN out' /\ out'[n] = out[n]
    BY LoadEffect
  <2>q. QED BY <1>3, <1>7, <2>1
<1>q. QED BY <1>2, <1>4, <1>5, <1>6, <1>7

LEMMA NoneFailedLoaded ==
  ASSUME DiskTyped, FailedInv, NoneFailed, LoadFile
  PROVE  NoneFailed'
<1>1. UNCHANGED <<scope, failed, calm>>
  BY DEF LoadFile, ghosts
<1>2. AsWritten' = AsWritten /\ Fire' = Fire
  BY <1>1 DEF AsWritten, Fire
<1>3. CASE out' = out
  BY <1>1, <1>2, <1>3 DEF NoneFailed
<1>4. CASE out' # out
  <2> DEFINE N == Len(out) + 1
             file == queue[1]
  <2>1. /\ MayLoad(file) /\ DOMAIN out' = DOMAIN out \cup {N}
        /\ \A n \in DOMAIN out : out'[n] = out[n]
        /\ out'[N] = <<file, Content(file)>>
    BY <1>4, LoadEffect
  <2> HIDE DEF N, file
  <2>2. ASSUME Content(file) \in Fire PROVE AsWritten /\ file \notin failed
    <3>1. /\ file \in DOMAIN files /\ Content(file) = files[file].fire
          /\ Loads(file) /\ AsWritten
      BY <2>1, <2>2, ContentIs, DiskPathAssumption DEF AsWritten
    <3>2. file \in Streamed
      BY <2>2, <3>1, DiskPathAssumption DEF Streamed
    <3>q. QED BY <3>1, <3>2 DEF FailedInv, Loads
  <2>3. out'[N][1] = file /\ out'[N][2] = Content(file)
    BY <2>1
  <2>q. QED BY <1>1, <1>2, <2>1, <2>2, <2>3 DEF NoneFailed
<1>q. QED BY <1>3, <1>4

\* A thread's step returns nothing and at most ends the calm; what has failed so
\* far does not matter to a readback that is not calm.
LEMMA NoneFailedStep ==
  ASSUME DiskTyped, CalmInv, FailedInv, NoneFailed, [Next]_vars
  PROVE  NoneFailed'
<1>1. AsWritten' = AsWritten /\ Fire' = Fire
  BY ScopeFixed DEF AsWritten, Fire
<1>2. ASSUME out' = out, calm' => calm /\ failed' = failed PROVE NoneFailed'
  BY <1>1, <1>2 DEF NoneFailed
<1>3. ASSUME NEW s \in Sessions, BeginReadback(s) PROVE NoneFailed'
  BY <1>3, BeginEffect DEF NoneFailed
<1>4. ASSUME NEW d \in Dirs, ListDir(d) PROVE out' = out
  BY <1>4 DEF ListDir
<1>5. CASE ~ LoadFile /\ ~ \E s \in Sessions : BeginReadback(s)
  <2>1. out' = out
    BY <1>4, <1>5, ReadCases
  <2>2. calm' => calm /\ failed' = failed
    BY <1>5, CalmCases
  <2>q. QED BY <1>2, <2>1, <2>2
<1>q. QED BY <1>3, <1>5, NoneFailedLoaded

LEMMA CompleteStep ==
  ASSUME OwnDirectories, DiskTyped, DiskInv, DiskInv', AllAccounted, CompleteInv, [Next]_vars
  PROVE  CompleteInv'
<1>1. CalmInv' /\ HomeInv' /\ FailedInv'
  BY CalmStep, HomeStep, FailedStep DEF CompleteInv
<1>2. NoneFailed'
  BY NoneFailedStep DEF CompleteInv
<1>3. AllComing'
  <2>1. CASE ~ calm'
    BY <2>1 DEF AllComing
  <2>2. ASSUME NEW s \in Sessions, BeginReadback(s) PROVE AllComing'
    BY <2>2, ComingBegun DEF CompleteInv
  <2>3. CASE /\ Quiet /\ Quiet' /\ calm' = calm
             /\ UNCHANGED <<taken, failed, reader>>
             /\ \/ UNCHANGED <<reading, queue, out>> /\ live' \subseteq live
                \/ \E d \in Dirs : ListDir(d) /\ live' = live
                \/ LoadFile /\ live' = live
    <3>1. ASSUME calm, reader \in live, AsWritten, NEW h \in HooksOf(reader), NEW i \in Nat,
                 i < Len(taken[h]), File(h, i) \notin failed
          PROVE  Coming(h, i)'
      <4>1. h \in Hooks /\ SessionOf[h] \in live /\ Coming(h, i)
        BY <3>1 DEF CompleteInv, AllComing, HooksOf
      <4>2. CASE UNCHANGED <<reading, queue, out>>
        BY <4>1, <4>2 DEF Coming, File, DirOf, Fire
      <4>q. QED BY <2>3, <3>1, <4>1, <4>2, ComingListed, ComingLoaded
    <3>2. live' \subseteq live /\ AsWritten' = AsWritten
      BY <2>3, ScopeFixed DEF AsWritten
    <3>q. QED BY <2>3, <3>1, <3>2 DEF AllComing, HooksOf, File, DirOf
  <2>4. CalmInv
    BY DEF CompleteInv
  <2>q. QED BY <2>1, <2>2, <2>3, <2>4, CalmCases
<1>q. QED BY <1>1, <1>2, <1>3 DEF CompleteInv

LEMMA CompleteInit == Init => CompleteInv
<1> SUFFICES ASSUME Init PROVE CompleteInv
  OBVIOUS
<1>1. failed = {} /\ calm = FALSE /\ DOMAIN out = {} /\ \A t \in Threads : pc[t] = "idle"
  BY DEF Init
<1>2. HomeInv
  BY LeftBehind DEF HomeInv
<1>q. QED
  BY <1>1, <1>2 DEF CompleteInv, CalmInv, FailedInv, AllComing, NoneFailed, Working

LEMMA AllRead ==
  ASSUME ReadInv, CompleteInv
  PROVE  ReadbackComplete
<1> SUFFICES ASSUME Calm, NEW h \in HooksOf(reader)
             PROVE  {out[n][1][2] : n \in Returned(h)} = IF AsWritten THEN Whole(h) ELSE {}
  BY DEF ReadbackComplete, AsWritten
<1>1. h \in Hooks /\ Len(taken[h]) \in Nat
  BY DEF HooksOf, ReadInv, DiskInv, DiskTypes
<1>2. ASSUME NEW n \in Returned(h)
      PROVE  AsWritten /\ out[n][1][2] \in Whole(h)
  <2>1. n \in DOMAIN out /\ out[n][1][1] = DirOf(h) /\ out[n][2] \in Fire
    BY DEF Returned, Loaded
  <2>2. out[n][1] \in Paths
    BY <2>1 DEF ReadInv, DiskTyped, TypeOK
  <2>3. out[n][1] = File(h, out[n][1][2]) /\ out[n][1][2] \in Nat
    BY <2>1, <2>2 DEF Paths, File
  <2>4. out[n][1][2] < Len(taken[h])
    BY <1>1, <2>1, DiskPathAssumption DEF ReadInv, OutMatches, Genuine
  <2>5. AsWritten /\ out[n][1] \notin failed
    BY <2>1 DEF CompleteInv, NoneFailed, Calm
  <2>q. QED BY <1>1, <2>3, <2>4, <2>5 DEF Whole
<1>3. ASSUME AsWritten, NEW i \in Whole(h)
      PROVE  \E n \in Returned(h) : out[n][1][2] = i
  <2>1. i \in Nat /\ i < Len(taken[h]) /\ File(h, i) \notin failed
    BY <1>1 DEF Whole
  <2>2. Coming(h, i)
    BY <1>3, <2>1 DEF CompleteInv, AllComing, Calm
  <2>3. reading = {} /\ DOMAIN queue = {}
    BY DEF Calm, NoReadback
  <2>4. PICK n \in DOMAIN out : out[n][1] = File(h, i) /\ out[n][2] \in Fire
    BY <2>2, <2>3 DEF Coming
  <2>q. QED BY <2>4 DEF Returned, Loaded, File
<1>q. QED BY <1>2, <1>3

\* A readback that no forward pass overlaps returns, of every layer and whatever
\* was cleared, every activation that was streamed and that the file system did
\* not refuse, if load_raw_tensor reads the dtype as itself; of a session of
\* complex or bfloat16 tensors it returns none of them, though all are on the
\* disk (hook_callback, callback.cpp; activations and load_raw_tensor, utils.py).
THEOREM ReadbacksComplete ==
  ASSUME OwnDirectories
  PROVE  Spec => []ReadbackComplete
<1>1. Init => ReadInv /\ AllAccounted /\ CompleteInv
  BY ReadInit, CompleteInit DEF Init, AllAccounted
<1>2. ReadInv /\ AllAccounted /\ CompleteInv /\ [Next]_vars => ReadInv' /\ AllAccounted' /\ CompleteInv'
  <2> SUFFICES ASSUME ReadInv, AllAccounted, CompleteInv, [Next]_vars
               PROVE  ReadInv' /\ AllAccounted' /\ CompleteInv'
    OBVIOUS
  <2>1. ReadInv'
    BY ReadStep
  <2>2. DiskTyped /\ DiskInv /\ DiskInv'
    BY <2>1 DEF ReadInv
  <2>q. QED BY <2>1, <2>2, AllAccountedStep, CompleteStep
<1>3. ReadInv /\ CompleteInv => ReadbackComplete
  BY AllRead
<1>q. QED BY <1>1, <1>2, <1>3, PTL DEF Spec

-----------------------------------------------------------------------------
(***************************************************************************)
(* The quota.  Under MAX_K an index is taken on a promise, an admission    *)
(* that no index was taken on yet; indices and promises of a layer never   *)
(* exceed K for every clear so far and what its counter admitted since.    *)
(***************************************************************************)
\* The threads admitted to hook h that have not taken their index yet.
Promised(h) == {t \in Threads : pc[t] = "index" /\ HookOf(t) = h}
Least(m, n) == IF m <= n THEN m ELSE n

QuotaOf(h) ==
  /\ IsFiniteSet(Promised(h))
  /\ nextIdx[h] + Cardinality(Promised(h))
       <= cfg.maxBatches * clears[SessionOf[h]] + Least(count[h], cfg.maxBatches)

QuotaInv == cfg.policy = "MAX_K" => \A h \in Hooks : QuotaOf(h)

LEMMA KIsNat ==
  ASSUME TypeOK, cfg.policy = "MAX_K"
  PROVE  cfg.maxBatches \in Nat
<1>1. scope.maxBatches \in Int
  BY DiskPathAssumption DEF TypeOK
<1>2. cfg.maxBatches > 0 /\ cfg.maxBatches \in {scope.maxBatches, 0}
  <2> DEFINE k == Knobs(scope.capture, scope.sampleEvery, scope.maxBatches)
  <2>1. k.maxBatches \in {scope.maxBatches, 0}
    BY DEF Knobs
  <2> HIDE DEF k
  <2>2. cfg = MakeConfig(k)
    BY DEF cfg, k
  <2>3. /\ MakeConfig(k).maxBatches = k.maxBatches
        /\ MakeConfig(k).policy = IF k.maxBatches > 0 THEN "MAX_K"
                                  ELSE IF k.sampleEvery > 1 THEN "SAMPLE_N" ELSE "EVERY"
    BY DEF MakeConfig
  <2>q. QED BY <2>1, <2>2, <2>3
<1>q. QED BY <1>1, <1>2

\* One thread's promise, through a step of its own.
LEMMA PromiseKept ==
  ASSUME TypeOK, NEW t \in Threads, NEW h \in Hooks,
         \A u \in Threads \ {t} : pc'[u] = pc[u] /\ pos'[u] = pos[u]
  PROVE  /\ t \notin Promised(h) /\ t \notin Promised(h)' => Promised(h)' = Promised(h)
         /\ t \in Promised(h)' => Promised(h)' = Promised(h) \cup {t}
         /\ t \notin Promised(h)' => Promised(h)' = Promised(h) \ {t}
BY DEF Promised, HookOf

LEMMA QuotaPolicy ==
  ASSUME TypeOK, cfg.policy = "MAX_K", \A h \in Hooks : QuotaOf(h),
         NEW t \in Threads, ShouldCapture(t), NEW h \in Hooks
  PROVE  QuotaOf(h)'
<1> DEFINE g == HookOf(t)
           K == cfg.maxBatches
<1>1. g \in Hooks /\ K \in Nat /\ cfg' = cfg
  BY TypedSome, HookTyped, KIsNat DEF ShouldCapture, cfg
<1>2. /\ pc[t] = "policy" /\ UNCHANGED <<nextIdx, pos, clears>>
      /\ count' = [count EXCEPT ![g] = Tick(cfg, count[g])]
      /\ IF Admits(cfg, count[g]) THEN pc' = [pc EXCEPT ![t] = "index"]
                                  ELSE pc' = [pc EXCEPT ![t] = "leave"]
  BY Zenon DEF ShouldCapture
<1>3. /\ nextIdx[h] \in Nat /\ clears[SessionOf[h]] \in Nat /\ count[h] \in Nat
      /\ IsFiniteSet(Promised(h)) /\ Cardinality(Promised(h)) \in Nat
  BY DiskPathAssumption, FS_CardinalityType DEF TypeOK, QuotaOf
<1>4. t \notin Promised(h)
  BY <1>2 DEF Promised
<1>5. \A u \in Threads \ {t} : pc'[u] = pc[u] /\ pos'[u] = pos[u]
  BY <1>2 DEF TypeOK
<1>6. count'[h] = IF h = g THEN count[h] + 1 ELSE count[h]
  <2>1. Tick(cfg, count[g]) = count[g] + 1
    BY DEF Tick
  <2>q. QED BY <1>1, <1>2, <2>1 DEF TypeOK
<1>7. t \in Promised(h)' => h = g /\ count[h] + 1 <= K
  <2>1. t \in Promised(h)' => pc'[t] = "index" /\ h = g
    BY <1>2 DEF Promised, HookOf
  <2>2. pc'[t] = "index" => Admits(cfg, count[g])
    BY <1>2 DEF TypeOK
  <2>3. Admits(cfg, count[g]) => count[g] + 1 <= K
    BY DEF Admits
  <2>q. QED BY <2>1, <2>2, <2>3
<1>8. /\ IsFiniteSet(Promised(h)')
      /\ Cardinality(Promised(h)') = IF t \in Promised(h)' THEN Cardinality(Promised(h)) + 1
                                                           ELSE Cardinality(Promised(h))
  <2>1. CASE t \in Promised(h)'
    <3>1. Promised(h)' = Promised(h) \cup {t}
      BY <1>5, <2>1, PromiseKept
    <3>q. QED BY <1>3, <1>4, <2>1, <3>1, FS_AddElement
  <2>2. CASE t \notin Promised(h)'
    <3>1. Promised(h)' = Promised(h)
      BY <1>4, <1>5, <2>2, PromiseKept
    <3>q. QED BY <1>3, <2>2, <3>1
  <2>q. QED BY <2>1, <2>2
<1> DEFINE B == K * clears[SessionOf[h]]
           P == Cardinality(Promised(h))
           c == count[h]
<1>9. B \in Nat /\ nextIdx[h] + P <= B + Least(c, K)
  BY <1>1, <1>3 DEF QuotaOf
<1>10. (cfg.maxBatches * clears[SessionOf[h]])' = B
  BY <1>1, <1>2
<1>11. ASSUME NEW p \in {P, P + 1}, NEW d \in {c, c + 1}, p = P + 1 => d = c + 1 /\ c + 1 <= K
       PROVE  nextIdx[h] + p <= B + Least(d, K)
  <2>1. P \in Nat /\ c \in Nat /\ nextIdx[h] \in Nat
    BY <1>3
  <2> HIDE DEF P, c, B, K
  <2>q. QED BY <1>1, <1>9, <1>11, <2>1 DEF Least
<1>12. nextIdx'[h] + Cardinality(Promised(h)') <= B + Least(count'[h], K)
  <2>1. Cardinality(Promised(h)') \in {P, P + 1} /\ count'[h] \in {c, c + 1}
    BY <1>6, <1>8
  <2>2. Cardinality(Promised(h)') = P + 1 => count'[h] = c + 1 /\ c + 1 <= K
    BY <1>3, <1>6, <1>7, <1>8
  <2> HIDE DEF P, c, B, K
  <2>q. QED BY <1>2, <1>11, <2>1, <2>2
<1>q. QED BY <1>1, <1>8, <1>10, <1>12 DEF QuotaOf

LEMMA QuotaIndex ==
  ASSUME TypeOK, cfg.policy = "MAX_K", \A h \in Hooks : QuotaOf(h),
         NEW t \in Threads, TakeIndex(t) \/ ForwardRaises(t), NEW h \in Hooks
  PROVE  QuotaOf(h)'
<1> DEFINE g == HookOf(t)
           K == cfg.maxBatches
<1>1. g \in Hooks /\ K \in Nat /\ cfg' = cfg
  BY TypedSome, HookTyped, KIsNat DEF TakeIndex, ForwardRaises, cfg
<1>2. /\ UNCHANGED <<count, pos, clears>>
      /\ pc'[t] # "index" /\ \A u \in Threads \ {t} : pc'[u] = pc[u] /\ pos'[u] = pos[u]
      /\ nextIdx'[h] \in {nextIdx[h], nextIdx[h] + 1}
      /\ nextIdx'[h] = nextIdx[h] + 1 => pc[t] = "index" /\ h = g
  <2>1. CASE TakeIndex(t)
    BY <1>1, <2>1, SMTT(20) DEF TakeIndex, TypeOK
  <2>2. CASE ForwardRaises(t)
    BY <1>1, <2>2 DEF ForwardRaises, TypeOK, ghosts
  <2>q. QED BY <2>1, <2>2
<1>3. /\ nextIdx[h] \in Nat /\ clears[SessionOf[h]] \in Nat /\ count[h] \in Nat
      /\ IsFiniteSet(Promised(h)) /\ Cardinality(Promised(h)) \in Nat
  BY DiskPathAssumption, FS_CardinalityType DEF TypeOK, QuotaOf
<1>4. Promised(h)' = Promised(h) \ {t}
  <2>1. t \notin Promised(h)'
    BY <1>2 DEF Promised
  <2>q. QED BY <1>2, <2>1, PromiseKept
<1>5. /\ IsFiniteSet(Promised(h)')
      /\ Cardinality(Promised(h)') = IF t \in Promised(h) THEN Cardinality(Promised(h)) - 1
                                                          ELSE Cardinality(Promised(h))
  BY <1>3, <1>4, FS_RemoveElement, SMTT(20)
<1>6. nextIdx'[h] = nextIdx[h] + 1 => t \in Promised(h)
  BY <1>2 DEF Promised
<1>7. nextIdx'[h] + Cardinality(Promised(h)') <= nextIdx[h] + Cardinality(Promised(h))
  BY <1>2, <1>3, <1>5, <1>6
<1>8. (cfg.maxBatches * clears[SessionOf[h]] + Least(count[h], cfg.maxBatches))'
        = cfg.maxBatches * clears[SessionOf[h]] + Least(count[h], cfg.maxBatches)
  BY <1>1, <1>2
<1> DEFINE R == cfg.maxBatches * clears[SessionOf[h]] + Least(count[h], cfg.maxBatches)
<1>9. R \in Nat /\ nextIdx[h] + Cardinality(Promised(h)) <= R
  BY <1>1, <1>3 DEF QuotaOf, Least
<1>10. nextIdx'[h] \in Nat /\ Cardinality(Promised(h)') \in Nat
  BY <1>2, <1>3, <1>5, FS_CardinalityType
<1> HIDE DEF R, K
<1>11. nextIdx'[h] + Cardinality(Promised(h)') <= R
  BY <1>3, <1>7, <1>9, <1>10
<1>q. QED BY <1>5, <1>8, <1>11 DEF QuotaOf, R

LEMMA QuotaClear ==
  ASSUME TypeOK, cfg.policy = "MAX_K", \A h \in Hooks : QuotaOf(h),
         NEW s \in Sessions, Clear(s), NEW h \in Hooks
  PROVE  QuotaOf(h)'
<1> DEFINE K == cfg.maxBatches
           C == clears[SessionOf[h]]
           c == count[h]
<1>1. K \in Nat /\ cfg' = cfg
  BY KIsNat DEF Clear, cfg
<1>2. /\ Quiet /\ UNCHANGED <<nextIdx, pc, pos>>
      /\ count' = [r \in Hooks |-> IF SessionOf[r] = s THEN 0 ELSE count[r]]
      /\ clears' = [clears EXCEPT ![s] = @ + 1]
  BY DEF Clear, threadVars
<1>3. /\ nextIdx[h] \in Nat /\ C \in Nat /\ c \in Nat /\ SessionOf[h] \in Sessions
      /\ nextIdx[h] + Cardinality(Promised(h)) <= K * C + Least(c, K)
  BY DiskPathAssumption DEF TypeOK, QuotaOf
<1>4. Promised(h) = {} /\ Promised(h)' = {}
  BY <1>2 DEF Promised, Quiet
<1>5. IsFiniteSet(Promised(h)') /\ Cardinality(Promised(h)) = 0 /\ Cardinality(Promised(h)') = 0
  BY <1>4, FS_EmptySet
<1>6. CASE SessionOf[h] # s
  <2>1. clears'[SessionOf[h]] = C /\ count'[h] = c
    BY <1>2, <1>3, <1>6 DEF TypeOK
  <2>q. QED BY <1>1, <1>2, <1>3, <1>5, <2>1 DEF QuotaOf
<1>7. CASE SessionOf[h] = s
  <2>1. clears'[SessionOf[h]] = C + 1 /\ count'[h] = 0
    BY <1>2, <1>3, <1>7 DEF TypeOK
  <2>2. K * (C + 1) = K * C + K /\ K * C \in Nat
    BY <1>1, <1>3
  <2>3. nextIdx[h] <= K * C + Least(c, K)
    BY <1>3, <1>5
  <2>4. Least(c, K) <= K /\ Least(c, K) \in Nat /\ Least(0, K) = 0
    BY <1>1, <1>3 DEF Least
  <2> HIDE DEF K, C, c
  <2>5. nextIdx[h] + 0 <= K * (C + 1) + Least(0, K)
    BY <1>1, <1>3, <2>2, <2>3, <2>4
  <2>q. QED BY <1>1, <1>2, <1>5, <2>1, <2>5 DEF QuotaOf, K
<1>q. QED BY <1>6, <1>7

\* No other step takes an index, promises one or clears a session.
LEMMA QuotaCases ==
  ASSUME TypeOK, [Next]_vars
  PROVE  \/ \E t \in Threads : ShouldCapture(t) \/ TakeIndex(t) \/ ForwardRaises(t)
         \/ \E s \in Sessions : Clear(s)
         \/ /\ UNCHANGED <<scope, nextIdx, count, clears>>
            /\ \A h \in Hooks : Promised(h)' = Promised(h)
<1> DEFINE Idle == UNCHANGED <<scope, nextIdx, count, clears>>
<1>1. ASSUME NEW t \in Threads,
             \/ StartForward(t) \/ LeaveHook(t) \/ Open(t) \/ OpenFails(t) \/ Close(t)
             \/ WriteFails(t)
      PROVE  Idle /\ \A h \in Hooks : Promised(h)' = Promised(h)
  <2>1. Idle
    BY <1>1 DEF StartForward, LeaveHook, Open, OpenFails, Close, WriteFails, ghosts
  <2>2. \A u \in Threads \ {t} : pc'[u] = pc[u] /\ pos'[u] = pos[u]
    <3>1. CASE StartForward(t) \/ LeaveHook(t)
      BY <3>1, TypedSome, OutsideSteps DEF Outside
    <3>2. CASE Open(t) \/ OpenFails(t) \/ Close(t) \/ WriteFails(t)
      BY <3>2 DEF Open, OpenFails, Close, WriteFails, TypeOK
    <3>q. QED BY <1>1, <3>1, <3>2
  <2>3. pc[t] # "index" /\ pc'[t] # "index"
    BY <1>1 DEF StartForward, LeaveHook, Open, OpenFails, Close, WriteFails, NextFire, TypeOK
  <2>4. \A h \in Hooks : t \notin Promised(h) /\ t \notin Promised(h)'
    BY <2>3 DEF Promised
  <2>q. QED BY <2>1, <2>2, <2>4, PromiseKept
<1>2. ASSUME Idle, UNCHANGED <<pc, pos>> PROVE \A h \in Hooks : Promised(h)' = Promised(h)
  BY <1>2 DEF Promised, HookOf
<1>3. ASSUME NEW s \in Sessions, BeginReadback(s) \/ Destroy(s) PROVE Idle /\ UNCHANGED <<pc, pos>>
  BY <1>3 DEF BeginReadback, Destroy, threadVars, ghosts
<1>4. ASSUME NEW d \in Dirs, ListDir(d) PROVE Idle /\ UNCHANGED <<pc, pos>>
  BY <1>4 DEF ListDir, threadVars, ghosts
<1>5. CASE LoadFile
  BY <1>2, <1>5 DEF LoadFile, threadVars, ghosts
<1>6. CASE UNCHANGED vars
  BY <1>2, <1>6 DEF vars, threadVars, ghosts
<1>q. QED BY <1>1, <1>2, <1>3, <1>4, <1>5, <1>6 DEF Next, HookStep, Finished

LEMMA QuotaStep ==
  ASSUME TypeOK, QuotaInv, [Next]_vars
  PROVE  QuotaInv'
<1>1. cfg' = cfg
  <2>1. scope' = scope
    BY QuotaCases DEF ShouldCapture, TakeIndex, ForwardRaises, Clear
  <2>q. QED BY <2>1 DEF cfg
<1>2. QuotaInv <=> (cfg.policy = "MAX_K" => \A h \in Hooks : QuotaOf(h))
  BY DEF QuotaInv
<1>3. QuotaInv' <=> (cfg'.policy = "MAX_K" => \A h \in Hooks : QuotaOf(h)')
  BY DEF QuotaInv
<1>4. ASSUME cfg.policy = "MAX_K", NEW h \in Hooks PROVE QuotaOf(h)'
  <2>1. CASE UNCHANGED <<nextIdx, count, clears>> /\ Promised(h)' = Promised(h)
    BY <1>1, <1>2, <1>4, <2>1 DEF QuotaOf
  <2>q. QED BY <1>2, <1>4, <2>1, QuotaCases, QuotaPolicy, QuotaIndex, QuotaClear
<1>q. QED BY <1>1, <1>3, <1>4

\* A layer has no more files of these sessions than indices.
LEMMA FilesBounded ==
  ASSUME OwnDirectories, DiskTyped, DiskInv, NEW h \in Hooks
  PROVE  Cardinality({f \in Streamed : f[1] = DirOf(h)}) <= nextIdx[h]
<1> DEFINE S == {f \in Streamed : f[1] = DirOf(h)}
           T == 0 .. nextIdx[h] - 1
           number == [f \in S |-> f[2]]
<1>1. nextIdx[h] \in Nat
  BY DEF DiskInv, DiskTypes
<1>2. \A f \in S : f = File(h, f[2]) /\ f[2] \in Nat /\ f[2] < nextIdx[h]
  <2> SUFFICES ASSUME NEW f \in S PROVE f = File(h, f[2]) /\ f[2] \in Nat /\ f[2] < nextIdx[h]
    OBVIOUS
  <2>1. f = File(h, f[2]) /\ f[2] \in Nat
    BY DEF DiskTyped, TypeOK, Paths, File, Streamed
  <2>q. QED BY <2>1 DEF DiskInv, FilesInv
<1> HIDE DEF S
<1>3. number \in Injection(S, T)
  <2>1. \A f \in S : f[2] \in T
    BY <1>1, <1>2
  <2>2. \A f, g \in S : f[2] = g[2] => f = g
    BY <1>2
  <2>q. QED BY <2>1, <2>2 DEF Injection, IsInjective
<1>4. IsFiniteSet(T) /\ Cardinality(T) = nextIdx[h]
  BY <1>1, FS_Interval, SMTT(20)
<1>5. Cardinality(S) <= Cardinality(T)
  BY <1>3, <1>4, FS_Injection
<1>q. QED BY <1>4, <1>5 DEF S

LEMMA QuotaInit == Init => QuotaInv
<1> SUFFICES ASSUME Init PROVE QuotaInv
  OBVIOUS
<1>1. DiskTyped
  BY TypedInit
<1>2. ASSUME NEW h \in Hooks
      PROVE  Promised(h) = {} /\ nextIdx[h] = 0 /\ count[h] = 0 /\ clears[SessionOf[h]] = 0
  BY DiskPathAssumption DEF Init, Promised
<1>3. ASSUME cfg.policy = "MAX_K", NEW h \in Hooks PROVE QuotaOf(h)
  <2>1. cfg.maxBatches \in Nat
    BY <1>1, <1>3, KIsNat DEF DiskTyped
  <2>2. IsFiniteSet(Promised(h)) /\ Cardinality(Promised(h)) = 0
    BY <1>2, FS_EmptySet
  <2>q. QED BY <1>2, <2>1, <2>2 DEF QuotaOf, Least
<1>q. QED BY <1>3 DEF QuotaInv

\* MAX_K bounds what a layer adds to the disk: K files for every clear()
\* and K more, with any number of threads in its hook (should_capture,
\* capture_policy.cpp; hook_callback, callback.cpp; session_clear).
THEOREM QuotaHeld ==
  ASSUME OwnDirectories
  PROVE  Spec => []MaxKPerClear
<1>1. Init => DiskTyped /\ DiskInv /\ QuotaInv
  BY TypedInit, DiskInit, QuotaInit
<1>2. DiskTyped /\ DiskInv /\ QuotaInv /\ [Next]_vars => DiskTyped' /\ DiskInv' /\ QuotaInv'
  BY TypedStep, DiskStep, QuotaStep DEF DiskTyped
<1>3. DiskTyped /\ DiskInv /\ QuotaInv => MaxKPerClear
  <2> SUFFICES ASSUME DiskTyped, DiskInv, QuotaInv, cfg.policy = "MAX_K", NEW h \in Hooks
               PROVE  Cardinality({f \in Streamed : f[1] = DirOf(h)})
                        <= cfg.maxBatches * (1 + clears[SessionOf[h]])
    BY DEF MaxKPerClear
  <2> DEFINE K == cfg.maxBatches
             C == clears[SessionOf[h]]
             S == {f \in Streamed : f[1] = DirOf(h)}
  <2>1. K \in Nat /\ C \in Nat /\ count[h] \in Nat /\ nextIdx[h] \in Nat
    BY KIsNat, DiskPathAssumption DEF DiskTyped, TypeOK
  <2>2. Cardinality(S) <= nextIdx[h] /\ Cardinality(S) \in Nat
    <3>1. IsFiniteSet(S)
      <4>1. S \in SUBSET DOMAIN files
        BY DEF Streamed
      <4> HIDE DEF S
      <4>q. QED BY <4>1, FS_Subset DEF DiskTyped
    <3>q. QED BY <3>1, FilesBounded, FS_CardinalityType
  <2>3. /\ Cardinality(Promised(h)) \in Nat
        /\ nextIdx[h] + Cardinality(Promised(h)) <= K * C + Least(count[h], K)
    BY FS_CardinalityType DEF QuotaInv, QuotaOf
  <2>4. Least(count[h], K) <= K /\ Least(count[h], K) \in Nat
    BY <2>1 DEF Least
  <2>5. K * (1 + C) = K * C + K /\ K * C \in Nat
    BY <2>1
  <2> HIDE DEF K, C, S
  <2>6. Cardinality(S) <= K * (1 + C)
    BY <2>1, <2>2, <2>3, <2>4, <2>5
  <2>q. QED BY <2>6 DEF K, C, S
<1>q. QED BY <1>1, <1>2, <1>3, PTL DEF Spec
=============================================================================
