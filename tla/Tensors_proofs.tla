--------------------------- MODULE Tensors_proofs --------------------------
(***************************************************************************)
(* Theorems about Tensors and DatFormat: which tensors of the program the  *)
(* library may write to, what a DISK session's files hold, what becomes of *)
(* a tensor that was handed out, what a reduction folds, and that the two  *)
(* trackers agree, for every model, program and bound.                     *)
(***************************************************************************)
EXTENDS Tensors, FiniteSetTheorems, WellFoundedInduction, TLAPS

(***************************************************************************)
(* The product of a shape, which is a fold, is a number.                   *)
(***************************************************************************)

\* Least elements, with which the recursion of the library's fold is followed
\* without an induction principle.
Least(S) == CHOOSE i \in S : \A j \in S : i <= j

LEMMA LeastIs ==
  ASSUME NEW S \in SUBSET Nat, S # {}
  PROVE  Least(S) \in S /\ \A j \in S : Least(S) <= j
<1> DEFINE less == {p \in Nat \X Nat : p[1] < p[2]}
<1>1. IsWellFoundedOn(less, Nat)
  BY NatLessThanWellFounded, Zenon DEF OpToRel
<1> HIDE DEF less
<1>2. PICK i \in S : \A j \in S : <<j, i>> \notin less
  BY <1>1, WFMin, Zenon
<1>3. ASSUME NEW j \in S PROVE i <= j
  <2>1. <<j, i>> \in less <=> j < i
    BY DEF less
  <2>q. QED BY <1>2, <2>1
<1>q. QED BY <1>3 DEF Least

\* The recursion of FoldFunction, when it multiplies the values of a function
\* on a finite set: Some is the element it takes next.
Some(s) == CHOOSE i \in s : TRUE
ProductBody(D, f, g) ==
  [s \in SUBSET D |-> IF s = {} THEN 1 ELSE f[Some(s)] * g[s \ {Some(s)}]]
Level(D, m) == {s \in SUBSET D : Cardinality(s) <= m}
ProductTo(D, f, m, g) ==
  /\ g \in [Level(D, m) -> Nat]
  /\ \A s \in Level(D, m) :
       g[s] = IF s = {} THEN 1 ELSE f[Some(s)] * g[s \ {Some(s)}]

LEMMA TakeOne ==
  ASSUME NEW D, IsFiniteSet(D), NEW m \in Nat, NEW s \in Level(D, m + 1), s # {}
  PROVE  Some(s) \in s /\ s \ {Some(s)} \in Level(D, m)
<1>1. Some(s) \in s
  BY DEF Some
<1>2. s \in SUBSET D /\ Cardinality(s) <= m + 1 /\ IsFiniteSet(s)
  BY FS_Subset DEF Level
<1>3. Cardinality(s \ {Some(s)}) = Cardinality(s) - 1 /\ Cardinality(s) \in Nat
  BY <1>1, <1>2, FS_RemoveElement, FS_CardinalityType
<1>4. Cardinality(s \ {Some(s)}) <= m
  BY <1>2, <1>3
<1>q. QED BY <1>1, <1>2, <1>4 DEF Level

LEMMA ProductExists ==
  ASSUME NEW D, IsFiniteSet(D), NEW f \in [D -> Nat], NEW n \in Nat
  PROVE  \E g : ProductTo(D, f, n, g)
<1> DEFINE Wrong == {m \in Nat : ~ \E g : ProductTo(D, f, m, g)}
           m == Least(Wrong)
<1>1. ASSUME Wrong # {} PROVE m \in Wrong /\ \A j \in Wrong : m <= j
  <2>1. Wrong \in SUBSET Nat
    OBVIOUS
  <2> HIDE DEF Wrong
  <2>q. QED BY <1>1, <2>1, LeastIs
<1> HIDE DEF m
<1>2. 0 \notin Wrong
  <2> DEFINE g == [s \in Level(D, 0) |-> 1]
  <2>1. ASSUME NEW s \in Level(D, 0) PROVE s = {}
    <3>1. s \in SUBSET D /\ IsFiniteSet(s) /\ Cardinality(s) <= 0
      BY FS_Subset DEF Level
    <3>2. Cardinality(s) \in Nat
      BY <3>1, FS_CardinalityType
    <3>3. Cardinality(s) = 0
      BY <3>1, <3>2
    <3>q. QED BY <3>1, <3>3, FS_EmptySet
  <2>2. ProductTo(D, f, 0, g)
    BY <2>1, Zenon DEF ProductTo
  <2>q. QED BY <2>2
<1>3. ASSUME NEW k \in Nat, k \notin Wrong PROVE k + 1 \notin Wrong
  <2>1. PICK g : ProductTo(D, f, k, g)
    BY <1>3
  <2> DEFINE h == [s \in Level(D, k + 1) |->
                     IF s = {} THEN 1 ELSE f[Some(s)] * g[s \ {Some(s)}]]
  <2>2. ASSUME NEW s \in Level(D, k) PROVE s \in Level(D, k + 1) /\ s \in SUBSET D
    <3>1. s \in SUBSET D /\ IsFiniteSet(s) /\ Cardinality(s) <= k
      BY FS_Subset DEF Level
    <3>2. Cardinality(s) \in Nat
      BY <3>1, FS_CardinalityType
    <3>q. QED BY <3>1, <3>2 DEF Level
  <2>3. ASSUME NEW s \in Level(D, k + 1), s # {}
        PROVE  /\ f[Some(s)] \in Nat
               /\ s \ {Some(s)} \in Level(D, k)
               /\ g[s \ {Some(s)}] \in Nat
    <3>1. Some(s) \in s /\ s \ {Some(s)} \in Level(D, k)
      BY <2>3, TakeOne
    <3>2. Some(s) \in D
      BY <3>1 DEF Level
    <3>q. QED BY <2>1, <3>1, <3>2 DEF ProductTo
  <2>4. ASSUME NEW s \in Level(D, k) PROVE h[s] = g[s]
    <3>1. s \in Level(D, k + 1)
      BY <2>2
    <3>q. QED BY <2>1, <3>1, Zenon DEF ProductTo
  <2>5. ASSUME NEW s \in Level(D, k + 1) PROVE h[s] \in Nat
    <3> DEFINE x == f[Some(s)]  y == g[s \ {Some(s)}]
    <3>1. h[s] = IF s = {} THEN 1 ELSE x * y
      BY Zenon
    <3>2. CASE s = {}
      BY <3>1, <3>2
    <3>3. CASE s # {}
      <4>1. x \in Nat /\ y \in Nat
        BY <2>3, <3>3
      <4> HIDE DEF x, y, h
      <4>q. QED BY <3>1, <3>3, <4>1
    <3>q. QED BY <3>2, <3>3
  <2>6. ASSUME NEW s \in Level(D, k + 1)
        PROVE  h[s] = IF s = {} THEN 1 ELSE f[Some(s)] * h[s \ {Some(s)}]
    <3>1. CASE s = {}
      BY <3>1, Zenon
    <3>2. CASE s # {}
      <4>1. h[s \ {Some(s)}] = g[s \ {Some(s)}]
        BY <2>3, <2>4, <3>2
      <4>q. QED BY <3>2, <4>1, Zenon
    <3>q. QED BY <3>1, <3>2
  <2>7. h \in [Level(D, k + 1) -> Nat]
    <3>1. h = [s \in Level(D, k + 1) |-> h[s]]
      BY Zenon
    <3> HIDE DEF h
    <3>q. QED BY <2>5, <3>1
  <2>8. ProductTo(D, f, k + 1, h)
    <3> HIDE DEF h
    <3>q. QED BY <2>6, <2>7 DEF ProductTo
  <2>q. QED BY <2>8
<1>4. ASSUME Wrong # {} PROVE FALSE
  <2>1. m \in Nat /\ m # 0 /\ \A j \in Wrong : m <= j
    BY <1>1, <1>2, <1>4
  <2>2. m - 1 \in Nat /\ m - 1 \notin Wrong /\ (m - 1) + 1 = m
    <3> HIDE DEF Wrong
    <3>q. QED BY <2>1
  <2>q. QED BY <1>1, <1>3, <1>4, <2>2
<1>q. QED BY <1>4

\* The number of elements of a shape is a natural number.
LEMMA NumelIsNat == \A shape \in Seq(Nat) : Numel(shape) \in Nat
<1> SUFFICES ASSUME NEW f \in Seq(Nat) PROVE Numel(f) \in Nat
  OBVIOUS
<1> DEFINE D == DOMAIN f
           n == Cardinality(D)
           iter == CHOOSE g : g = ProductBody(D, f, g)
<1>1. IsFiniteSet(D) /\ f \in [D -> Nat] /\ n \in Nat
  <2>1. Len(f) \in Nat /\ D = 1 .. Len(f) /\ f \in [D -> Nat]
    OBVIOUS
  <2>2. ASSUME NEW k \in Nat PROVE IsFiniteSet(1 .. k)
    BY FS_Interval
  <2>3. IsFiniteSet(D)
    BY <2>1, <2>2, Zenon
  <2> HIDE DEF D
  <2>q. QED BY <2>1, <2>3, FS_CardinalityType
<1> HIDE DEF D
<1>2. Level(D, n) = SUBSET D
  <2>1. ASSUME NEW s \in SUBSET D PROVE Cardinality(s) <= n
    BY <1>1, FS_Subset
  <2>q. QED BY <2>1 DEF Level
<1>3. \E g : g = ProductBody(D, f, g)
  <2>1. PICK g : ProductTo(D, f, n, g)
    BY <1>1, ProductExists
  <2>2. \A s \in SUBSET D : g[s] = ProductBody(D, f, g)[s]
    BY <1>2, <2>1, Zenon DEF ProductTo, ProductBody
  <2>3. g = [s \in SUBSET D |-> g[s]]
    BY <1>2, <2>1, Zenon DEF ProductTo
  <2>4. ProductBody(D, f, g) = [s \in SUBSET D |-> ProductBody(D, f, g)[s]]
    BY Zenon DEF ProductBody
  <2>q. QED BY <2>2, <2>3, <2>4, Zenon
<1>4. iter = ProductBody(D, f, iter)
  BY <1>3, Zenon
<1>5. Numel(f) = iter[D]
  BY Zenon DEF Numel, FoldFunction, FoldFunctionOnSet, MapThenFoldSet, ProductBody, Some, D
<1> HIDE DEF iter
<1> DEFINE Wrong == {m \in Nat : \E s \in Level(D, m) : iter[s] \notin Nat}
           m == Least(Wrong)
<1>6. ASSUME Wrong # {} PROVE m \in Wrong /\ \A j \in Wrong : m <= j
  <2>1. Wrong \in SUBSET Nat
    OBVIOUS
  <2> HIDE DEF Wrong
  <2>q. QED BY <1>6, <2>1, LeastIs
<1> HIDE DEF m
<1>7. ASSUME NEW s \in SUBSET D
      PROVE  iter[s] = IF s = {} THEN 1 ELSE f[Some(s)] * iter[s \ {Some(s)}]
  BY <1>4, Zenon DEF ProductBody
<1>8. ASSUME Wrong # {} PROVE FALSE
  <2>1. m \in Nat /\ \A j \in Wrong : m <= j
    BY <1>6, <1>8
  <2>2. PICK s \in Level(D, m) : iter[s] \notin Nat
    BY <1>6, <1>8
  <2>3. s \in SUBSET D /\ IsFiniteSet(s) /\ Cardinality(s) \in Nat /\ Cardinality(s) <= m
    BY <1>1, FS_Subset, FS_CardinalityType DEF Level
  <2>4. s # {}
    <3> SUFFICES ASSUME s = {} PROVE FALSE
      OBVIOUS
    <3>1. iter[s] = 1
      BY <1>7, <2>3
    <3> HIDE DEF Wrong
    <3>q. QED BY <2>2, <3>1
  <2>5. m # 0
    BY <2>3, <2>4, FS_EmptySet
  <2>6. m - 1 \in Nat /\ m - 1 \notin Wrong /\ (m - 1) + 1 = m
    <3> HIDE DEF Wrong
    <3>q. QED BY <2>1, <2>5
  <2>7. Some(s) \in s /\ s \ {Some(s)} \in Level(D, m - 1)
    BY <1>1, <2>4, <2>6, TakeOne
  <2> DEFINE x == f[Some(s)]  y == iter[s \ {Some(s)}]
  <2>8. y \in Nat /\ x \in Nat
    BY <1>1, <2>3, <2>6, <2>7
  <2>9. iter[s] = x * y
    BY <1>7, <2>3, <2>4
  <2> HIDE DEF x, y
  <2>q. QED BY <2>2, <2>8, <2>9
<1>9. D \in Level(D, n)
  BY <1>2
<1>q. QED BY <1>1, <1>5, <1>8, <1>9
-----------------------------------------------------------------------------
(***************************************************************************)
(* The file format.                                                        *)
(***************************************************************************)

\* The two tables of the reader invert the writer's number of a supported
\* dtype.
LEMMA TablesAgree ==
  ASSUME NEW d \in Supported
  PROVE  /\ NumpyDtype(TorchDtype(Code(d))) = d
         /\ Size(d) \in {1, 2, 4, 8} /\ d \in Dtypes /\ d # "uint16"
<1>1. CASE d = "uint8"
  BY <1>1 DEF NumpyDtype, TorchDtype, AtenScalarToTorch, Code, Size, ScalarType, Dtypes
<1>2. CASE d = "int8"
  BY <1>2 DEF NumpyDtype, TorchDtype, AtenScalarToTorch, Code, Size, ScalarType, Dtypes
<1>3. CASE d = "int16"
  BY <1>3 DEF NumpyDtype, TorchDtype, AtenScalarToTorch, Code, Size, ScalarType, Dtypes
<1>4. CASE d = "int32"
  BY <1>4 DEF NumpyDtype, TorchDtype, AtenScalarToTorch, Code, Size, ScalarType, Dtypes
<1>5. CASE d = "int64"
  BY <1>5 DEF NumpyDtype, TorchDtype, AtenScalarToTorch, Code, Size, ScalarType, Dtypes
<1>6. CASE d = "float16"
  BY <1>6 DEF NumpyDtype, TorchDtype, AtenScalarToTorch, Code, Size, ScalarType, Dtypes
<1>7. CASE d = "float32"
  BY <1>7 DEF NumpyDtype, TorchDtype, AtenScalarToTorch, Code, Size, ScalarType, Dtypes
<1>8. CASE d = "float64"
  BY <1>8 DEF NumpyDtype, TorchDtype, AtenScalarToTorch, Code, Size, ScalarType, Dtypes
<1>9. CASE d = "bool"
  BY <1>9 DEF NumpyDtype, TorchDtype, AtenScalarToTorch, Code, Size, ScalarType, Dtypes
<1>q. QED BY <1>1, <1>2, <1>3, <1>4, <1>5, <1>6, <1>7, <1>8, <1>9 DEF Supported

\* A file of a supported dtype is loaded if and only if it has exactly the
\* bytes that were meant for it, and as a tensor of its form
\* (load_raw_tensor, utils.py:144).
THEOREM LoadsExactlyWholeFiles ==
  ASSUME NEW dtype \in Supported, NEW shape \in Seq(Nat), NEW n \in Int
  PROVE  LET form == [dtype |-> dtype, shape |-> shape] IN
         /\ Loads(form, n) <=> n = FileBytes(form)
         /\ Loaded(form) = form
<1> DEFINE form == [dtype |-> dtype, shape |-> shape]
           data == n - HeaderBytes(form)
           item == Size(dtype)
           elements == Numel(shape)
<1>1. ReadAs(form) = dtype /\ dtype # "uint16" /\ item \in {1, 2, 4, 8}
  BY TablesAgree DEF ReadAs
<1>2. HeaderBytes(form) \in Nat /\ data \in Int /\ elements \in Nat
  BY NumelIsNat DEF HeaderBytes
<1>3. FileBytes(form) = HeaderBytes(form) + elements * item
  BY DEF FileBytes
<1>4. Loads(form, n) <=> data >= 0 /\ data % item = 0 /\ data \div item = elements
  BY <1>1 DEF Loads
<1>5. (data >= 0 /\ data % item = 0 /\ data \div item = elements) <=> data = elements * item
  <2> HIDE DEF data, item, elements
  <2>1. CASE item = 1 BY <1>2, <2>1
  <2>2. CASE item = 2 BY <1>2, <2>2
  <2>3. CASE item = 4 BY <1>2, <2>3
  <2>4. CASE item = 8 BY <1>2, <2>4
  <2>q. QED BY <1>1, <2>1, <2>2, <2>3, <2>4
<1>6. elements * item \in Nat
  <2> HIDE DEF elements, item
  <2>q. QED BY <1>1, <1>2
<1>7. data = elements * item <=> n = FileBytes(form)
  BY <1>2, <1>3, <1>6
<1>8. Loaded(form) = form
  BY <1>1 DEF Loaded
<1>q. QED BY <1>4, <1>5, <1>7, <1>8

\* The whole file of a tensor of a supported dtype is returned as the tensor
\* that was written, and no file of one, truncated or whole, is taken for
\* anything else (utils.py:144): what the disk model asks of its Form.
THEOREM SupportedExact ==
  ASSUME NEW dtype \in Supported, NEW shape \in Seq(Nat)
  PROVE  LET form == [dtype |-> dtype, shape |-> shape] IN
         Exact(form) /\ ~ Garbles(form)
<1> DEFINE form == [dtype |-> dtype, shape |-> shape]
<1>1. ASSUME NEW n \in Int
      PROVE  (Loads(form, n) <=> n = FileBytes(form)) /\ Loaded(form) = form
  BY LoadsExactlyWholeFiles
<1>2. FileBytes(form) \in Nat
  <2>1. Numel(shape) \in Nat /\ Size(dtype) \in {1, 2, 4, 8}
    BY NumelIsNat, TablesAgree
  <2>q. QED BY <2>1 DEF FileBytes, HeaderBytes
<1> HIDE DEF form
<1>3. Exact(form)
  BY <1>1, <1>2 DEF Exact, Readable
<1>4. \A n \in 0 .. FileBytes(form) - 1 : ~ Loads(form, n)
  BY <1>1, <1>2
<1>5. ~ Garbles(form)
  BY <1>3, <1>4 DEF Garbles, Misreads
<1>q. QED BY <1>3, <1>5 DEF form

-----------------------------------------------------------------------------
(***************************************************************************)
(* The memory.  A handle r is a memory and a tensor in it; an operation    *)
(* copies when it leaves every block alone and hands on the same batches.  *)
(***************************************************************************)
Blocks == [batches : Seq(Int), dev : Devices]
Hooks  == {"scope", "naive"}
Forms  == [dtype : Dtypes, shape : Seq(Nat)]
Files  == [form : Forms, bytes : Int, batches : Seq(Int)]

Fits(r) == r.mem \in Seq(Blocks) /\ r.at \in 1 .. Len(r.mem)

Copies(r, s) ==
  /\ Fits(s)
  /\ Len(s.mem) >= Len(r.mem)
  /\ \A b \in 1 .. Len(r.mem) : s.mem[b] = r.mem[b]
  /\ s.mem[s.at].batches = r.mem[r.at].batches
  /\ s.at = r.at \/ s.at > Len(r.mem)

\* A new tensor is the last block, and the others are as they were.
LEMMA NewTensor ==
  ASSUME NEW m \in Seq(Blocks), NEW batches \in Seq(Int), NEW dev \in Devices
  PROVE  LET s == New(m, batches, dev) IN
         /\ Fits(s) /\ s.at = Len(m) + 1 /\ Len(s.mem) = Len(m) + 1
         /\ s.mem[s.at] = Block(batches, dev)
         /\ \A b \in 1 .. Len(m) : s.mem[b] = m[b]
<1> DEFINE block == Block(batches, dev)
<1>1. block \in Blocks
  BY DEF Block, Blocks
<1> HIDE DEF block
<1>2. /\ Append(m, block) \in Seq(Blocks) /\ Len(Append(m, block)) = Len(m) + 1
      /\ Append(m, block)[Len(m) + 1] = block
      /\ \A b \in 1 .. Len(m) : Append(m, block)[b] = m[b]
  BY <1>1
<1>3. New(m, batches, dev) = [mem |-> Append(m, block), at |-> Len(m) + 1]
  BY DEF New, block
<1>4. Len(m) + 1 \in 1 .. Len(m) + 1
  OBVIOUS
<1>q. QED BY <1>2, <1>3, <1>4 DEF Fits, block

LEMMA CopyToCopies ==
  ASSUME NEW r, Fits(r), NEW dev \in Devices
  PROVE  Copies(r, CopyTo(r, dev)) /\ CopyTo(r, dev).at = Len(r.mem) + 1
<1>1. r.mem \in Seq(Blocks) /\ r.at \in 1 .. Len(r.mem) /\ Len(r.mem) \in Nat
  BY DEF Fits
<1>0. r.mem[r.at] \in Blocks
  BY <1>1
<1>2. r.mem[r.at].batches \in Seq(Int)
  BY <1>0 DEF Blocks
<1> DEFINE s == CopyTo(r, dev)
<1>3. /\ Fits(s) /\ s.at = Len(r.mem) + 1 /\ Len(s.mem) = Len(r.mem) + 1
      /\ s.mem[s.at] = Block(r.mem[r.at].batches, dev)
      /\ \A b \in 1 .. Len(r.mem) : s.mem[b] = r.mem[b]
  BY <1>1, <1>2, NewTensor DEF CopyTo
<1>4. s.mem[s.at].batches = r.mem[r.at].batches
  BY <1>3 DEF Block
<1> HIDE DEF s
<1>5. Copies(r, s)
  BY <1>1, <1>3, <1>4 DEF Copies
<1>q. QED BY <1>3, <1>5 DEF s

LEMMA SelfCopies ==
  ASSUME NEW r, Fits(r)
  PROVE  Copies(r, r)
BY DEF Copies, Fits

LEMMA ToDeviceCopies ==
  ASSUME NEW r, Fits(r), NEW dev \in Devices
  PROVE  Copies(r, ToDevice(r, dev))
BY CopyToCopies, SelfCopies DEF ToDevice

LEMMA CloneCopies ==
  ASSUME NEW r, Fits(r)
  PROVE  Copies(r, Clone(r)) /\ Clone(r).at > Len(r.mem)
<1>1. r.mem \in Seq(Blocks) /\ r.at \in 1 .. Len(r.mem)
  BY DEF Fits
<1>2. r.mem[r.at] \in Blocks /\ Len(r.mem) \in Nat
  BY <1>1
<1>3. r.mem[r.at].dev \in Devices
  BY <1>2 DEF Blocks
<1>4. Copies(r, Clone(r)) /\ Clone(r).at = Len(r.mem) + 1
  BY <1>3, CopyToCopies DEF Clone
<1>q. QED BY <1>2, <1>4

LEMMA CopiesOnce ==
  ASSUME NEW r, NEW s, NEW t, Fits(r), Copies(r, s), Copies(s, t)
  PROVE  Copies(r, t)
<1>1. Len(r.mem) \in Nat /\ Len(s.mem) \in Nat /\ Len(t.mem) \in Nat
  BY DEF Fits, Copies
<1>2. Len(t.mem) >= Len(r.mem)
  BY <1>1 DEF Copies
<1>3. \A b \in 1 .. Len(r.mem) : t.mem[b] = r.mem[b]
  BY <1>1 DEF Copies
<1>4. t.at = r.at \/ t.at > Len(r.mem)
  BY <1>1 DEF Copies, Fits
<1>q. QED BY <1>2, <1>3, <1>4 DEF Copies

-----------------------------------------------------------------------------
(***************************************************************************)
(* The types an argument about memory needs.                               *)
(***************************************************************************)
AccumInv ==
  /\ accum \in [Layers -> Seq(Nat)]
  /\ \A l \in Layers : \A i \in 1 .. Len(accum[l]) : accum[l][i] \in 1 .. Len(mem)

OwnInv ==
  /\ DOMAIN own \subseteq 1 .. Len(mem)
  /\ \A b \in DOMAIN own : own[b] \in Seq(Int)

MemInv ==
  /\ scope \in Scopes
  /\ mem \in Seq(Blocks)
  /\ pos \in 1 .. Len(Model) /\ out \in 1 .. Len(mem) /\ params \in 1 .. Len(mem)
  /\ reg \in Kinds /\ conf \in [Layers -> Kinds]
  /\ hooks \in [Layers -> Seq(Hooks)] /\ due \in Seq(Hooks)
  /\ AccumInv
  /\ files \in [Layers -> Seq(Files)]
  /\ OwnInv
  /\ forwards \in Nat

\* The value that layer l's hook stores.
Value(l) ==
  IF conf[l] = "none" \/ accum[l] = <<>> THEN mem[out].batches
  ELSE mem[Last(accum[l])].batches \o mem[out].batches

\* What a reduction or a copy may do to the memory when layer l's hook runs:
\* it changes at most the running value of an in-place reduction, and the
\* tensor it ends with is new, or that value, or the activation itself.
Reduced(l, r) ==
  /\ Fits(r)
  /\ Len(r.mem) >= Len(mem)
  /\ r.at \in 1 .. Len(mem) =>
       \/ conf[l] = "none" /\ r.at = out
       \/ conf[l] = "max" /\ accum[l] # <<>> /\ r.at = Last(accum[l])
  /\ \A b \in 1 .. Len(mem) :
       r.mem[b] # mem[b] =>
         /\ conf[l] = "max" /\ accum[l] # <<>> /\ b = Last(accum[l])
         /\ r.mem[b] = Block(Value(l), mem[b].dev)
  /\ r.mem[r.at].batches = Value(l)

LEMMA CopyOfReduced ==
  ASSUME NEW l, NEW r, NEW s, mem \in Seq(Blocks), Reduced(l, r), Copies(r, s)
  PROVE  Reduced(l, s)
<1>1. Len(mem) \in Nat /\ Len(r.mem) \in Nat /\ Len(s.mem) \in Nat
  BY DEF Reduced, Fits, Copies
<1>2. Fits(s) /\ Len(s.mem) >= Len(mem)
  BY <1>1 DEF Reduced, Copies
<1>3. s.at \in 1 .. Len(mem) =>
        \/ conf[l] = "none" /\ s.at = out
        \/ conf[l] = "max" /\ accum[l] # <<>> /\ s.at = Last(accum[l])
  BY <1>1 DEF Reduced, Copies
<1>4. \A b \in 1 .. Len(mem) : s.mem[b] = r.mem[b]
  BY <1>1 DEF Reduced, Copies
<1>5. s.mem[s.at].batches = Value(l)
  BY DEF Reduced, Copies
<1>q. QED BY <1>2, <1>3, <1>4, <1>5 DEF Reduced

LEMMA ScopeTypes ==
  ASSUME scope \in Scopes
  PROVE  /\ scope.mode \in Modes /\ scope.form \in Forms /\ Len(scope.form.shape) = 2
         /\ Device \in Devices
BY TensorsAssumption DEF Scope, Forms, Device, Devices

\* The reduction step of hook_callback.
LEMMA ResultReduced ==
  ASSUME MemInv, NEW l \in Layers
  PROVE  Reduced(l, Result(l))
<1> DEFINE start == [mem |-> mem, at |-> Last(accum[l])]
           acc == ToDevice(start, mem[out].dev)
           new == [mem |-> IF accum[l] = <<>> THEN mem ELSE acc.mem, at |-> out]
<1>1. mem \in Seq(Blocks) /\ Len(mem) \in Nat /\ out \in 1 .. Len(mem) /\ conf[l] \in Kinds
  BY DEF MemInv
<1>2. mem[out] \in Blocks
  BY <1>1
<1>3. mem[out].dev \in Devices /\ mem[out].batches \in Seq(Int)
  BY <1>2 DEF Blocks
<1>4. ASSUME accum[l] # <<>>
      PROVE  Fits(start) /\ Copies(start, acc)
  <2>1. Last(accum[l]) \in 1 .. Len(mem)
    BY <1>4 DEF MemInv, AccumInv, Last
  <2>2. Fits(start)
    BY <1>1, <2>1 DEF Fits
  <2>q. QED BY <2>2, <1>3, ToDeviceCopies
<1>5. ASSUME accum[l] # <<>>
      PROVE  /\ acc.mem \in Seq(Blocks) /\ acc.at \in 1 .. Len(acc.mem)
             /\ Len(acc.mem) \in Nat /\ Len(acc.mem) >= Len(mem)
             /\ \A b \in 1 .. Len(mem) : acc.mem[b] = mem[b]
             /\ acc.at = Last(accum[l]) \/ acc.at > Len(mem)
  BY <1>1, <1>4, <1>5 DEF Copies, Fits
<1> HIDE DEF acc
<1>6. /\ new.mem \in Seq(Blocks) /\ new.at = out /\ Len(new.mem) \in Nat
      /\ Len(new.mem) >= Len(mem)
      /\ \A b \in 1 .. Len(mem) : new.mem[b] = mem[b]
      /\ new.mem[out].batches = mem[out].batches
  BY <1>1, <1>5
<1>7. Fits(new)
  BY <1>1, <1>6 DEF Fits
<1>8. Result(l) = IF conf[l] = "none" THEN new
                  ELSE IF accum[l] = <<>> THEN FirstResult(new)
                  ELSE IF conf[l] = "max" THEN Maximum(acc.at, new)
                  ELSE Mean(acc.at, new)
  BY DEF Result, acc
<1>9. CASE conf[l] = "none"
  BY <1>6, <1>7, <1>8, <1>9 DEF Reduced, Value
<1>10. CASE conf[l] # "none" /\ accum[l] = <<>>
  <2> DEFINE r == Clone(new)
  <2>1. Result(l) = r
    BY <1>8, <1>10 DEF FirstResult
  <2>2. Copies(new, r) /\ r.at > Len(new.mem)
    BY <1>7, CloneCopies
  <2> HIDE DEF r
  <2>3. Reduced(l, r)
    BY <1>1, <1>6, <1>10, <2>2 DEF Reduced, Copies, Value
  <2>q. QED BY <2>1, <2>3
<1>11. ASSUME accum[l] # <<>>, conf[l] # "none"
       PROVE  new.mem[acc.at].batches \o new.mem[out].batches = Value(l)
  <2>1. new.mem = acc.mem
    BY <1>11
  <2>2. acc.mem[acc.at].batches = mem[Last(accum[l])].batches
    BY <1>4, <1>11 DEF Copies
  <2>q. QED BY <1>6, <1>11, <2>1, <2>2 DEF Value
<1>12. CASE conf[l] = "max" /\ accum[l] # <<>>
  <2> DEFINE both == new.mem[acc.at].batches \o new.mem[out].batches
             r == Maximum(acc.at, new)
  <2>1. acc.at \in 1 .. Len(new.mem) /\ new.mem = acc.mem
    BY <1>5, <1>12
  <2>2. new.mem[acc.at] \in Blocks /\ new.mem[out] \in Blocks
    BY <1>1, <1>6, <2>1
  <2>3. both \in Seq(Int)
    BY <2>2 DEF Blocks
  <2>0. both = Value(l)
    BY <1>11, <1>12
  <2> DEFINE block == [new.mem[acc.at] EXCEPT !.batches = both]
  <2> HIDE DEF both
  <2>4. /\ block \in Blocks
        /\ block = Block(Value(l), new.mem[acc.at].dev)
        /\ block.batches = Value(l)
    <3> DEFINE old == new.mem[acc.at]
    <3>1. old \in Blocks
      BY <2>2
    <3> HIDE DEF old
    <3>2. /\ [old EXCEPT !.batches = both] \in Blocks
          /\ [old EXCEPT !.batches = both] = [batches |-> both, dev |-> old.dev]
      BY <2>3, <3>1 DEF Blocks
    <3>q. QED BY <2>0, <3>2 DEF Block, old
  <2>5. r = [mem |-> [new.mem EXCEPT ![acc.at] = block], at |-> acc.at]
    BY <1>6 DEF Maximum, both
  <2> HIDE DEF block
  <2>6. /\ r.mem \in Seq(Blocks) /\ Len(r.mem) = Len(new.mem) /\ r.at = acc.at
        /\ \A b \in 1 .. Len(new.mem) : b # acc.at => r.mem[b] = new.mem[b]
        /\ r.mem[acc.at] = block
    BY <1>6, <2>1, <2>4, <2>5
  <2> HIDE DEF r
  <2>7. Fits(r)
    BY <2>1, <2>6 DEF Fits
  <2>8. ASSUME NEW b \in 1 .. Len(mem), r.mem[b] # mem[b]
        PROVE  b = Last(accum[l]) /\ r.mem[b] = Block(Value(l), mem[b].dev)
    <3>1. b \in 1 .. Len(new.mem) /\ new.mem[b] = mem[b]
      BY <1>1, <1>6
    <3>2. b = acc.at
      BY <2>6, <2>8, <3>1
    <3>3. b = Last(accum[l])
      BY <1>1, <1>5, <1>12, <3>2
    <3>q. QED BY <2>4, <2>6, <3>1, <3>2, <3>3
  <2>9. r.mem[r.at].batches = Value(l)
    BY <2>4, <2>6
  <2>10. r.at \in 1 .. Len(mem) => r.at = Last(accum[l])
    BY <1>1, <1>5, <1>12, <2>6
  <2>11. Reduced(l, r)
    BY <1>1, <1>6, <1>12, <2>6, <2>7, <2>8, <2>9, <2>10 DEF Reduced
  <2>q. QED BY <1>8, <1>12, <2>11 DEF r
<1>13. CASE conf[l] = "mean" /\ accum[l] # <<>>
  <2> DEFINE both == new.mem[acc.at].batches \o new.mem[out].batches
             r == New(new.mem, both, new.mem[out].dev)
  <2>1. new.mem[acc.at] \in Blocks /\ new.mem[out] \in Blocks
    BY <1>1, <1>5, <1>6, <1>13
  <2>2. both \in Seq(Int) /\ new.mem[out].dev \in Devices
    BY <2>1 DEF Blocks
  <2>0. both = Value(l)
    BY <1>11, <1>13
  <2>3. Result(l) = r
    BY <1>6, <1>8, <1>13 DEF Mean
  <2> HIDE DEF both, new
  <2>4. /\ Fits(r) /\ r.at = Len(new.mem) + 1
        /\ Len(r.mem) = Len(new.mem) + 1
        /\ \A b \in 1 .. Len(new.mem) : r.mem[b] = new.mem[b]
        /\ r.mem[r.at] = Block(both, new.mem[out].dev)
    BY <1>6, <2>2, NewTensor, SMTT(20)
  <2> HIDE DEF r
  <2>6. r.mem[r.at].batches = Value(l)
    BY <2>0, <2>4 DEF Block
  <2>5. Reduced(l, r)
    BY <1>1, <1>6, <1>13, <2>4, <2>6 DEF Reduced
  <2>q. QED BY <2>3, <2>5
<1>q. QED BY <1>1, <1>9, <1>10, <1>12, <1>13 DEF Kinds

\* The tensor that hook_callback stores.  With SNAPSHOT it is new.
LEMMA StoredReduced ==
  ASSUME MemInv, NEW l \in Layers
  PROVE  LET r == Placed(Detached(Result(l))) IN
         /\ Reduced(l, r)
         /\ scope.mode = "SNAPSHOT" => r.at > Len(mem)
<1> DEFINE res == Result(l)
           det == Detached(res)
           r == Placed(det)
<1>1. Reduced(l, res) /\ mem \in Seq(Blocks)
  BY ResultReduced DEF MemInv
<1> HIDE DEF res
<1>2. Fits(res) /\ Len(res.mem) >= Len(mem) /\ Len(res.mem) \in Nat /\ Len(mem) \in Nat
  BY <1>1 DEF Reduced, Fits
<1>3. Copies(res, det) /\ (scope.mode = "SNAPSHOT" => det.at > Len(res.mem))
  BY <1>2, CloneCopies, SelfCopies DEF Detached
<1> HIDE DEF det
<1>4. Fits(det) /\ Len(det.mem) >= Len(res.mem) /\ Len(det.mem) \in Nat
  BY <1>3 DEF Copies, Fits
<1>5. Copies(det, r)
  BY <1>4, ToDeviceCopies, SelfCopies DEF Placed, Devices
<1>6. r.at = det.at \/ r.at > Len(det.mem)
  BY <1>5 DEF Copies
<1>7. r.at \in Nat /\ det.at \in Nat
  BY <1>4, <1>5 DEF Copies, Fits
<1>8. Reduced(l, r)
  BY <1>1, <1>3, <1>5, CopyOfReduced
<1>9. scope.mode = "SNAPSHOT" => r.at > Len(mem)
  BY <1>2, <1>3, <1>4, <1>6, <1>7
<1>q. QED BY <1>8, <1>9 DEF res, det

-----------------------------------------------------------------------------
(***************************************************************************)
(* The inductive invariant.                                                *)
(***************************************************************************)

\* An accumulator holds a tensor of the program's only as a seed, or as a
\* REFERENCE capture that no reduction made.
AliasInv ==
  \A l \in Layers : \A i \in 1 .. Len(accum[l]) :
    accum[l][i] \in DOMAIN own =>
      \/ accum[l][i] \in seeds
      \/ scope.mode = "REFERENCE" /\ (conf[l] = "none" \/ l \in mixed)

TensorInv == MemInv /\ AliasInv

\* The memory only grows, and the blocks that were there are as they were.
MemGrows ==
  /\ mem' \in Seq(Blocks)
  /\ Len(mem') >= Len(mem)
  /\ \A b \in 1 .. Len(mem) : mem'[b] = mem[b]

LEMMA GrownTypes ==
  ASSUME MemInv, mem' \in Seq(Blocks), Len(mem') >= Len(mem)
  PROVE  /\ \A n : n \in 1 .. Len(mem) => n \in 1 .. Len(mem')
         /\ accum' = accum => AccumInv'
         /\ own' = own => OwnInv'
<1>1. Len(mem) \in Nat /\ Len(mem') \in Nat
  BY DEF MemInv
<1>2. \A n : n \in 1 .. Len(mem) => n \in 1 .. Len(mem')
  BY <1>1
<1>3. accum' = accum => AccumInv'
  BY <1>2 DEF MemInv, AccumInv
<1>4. own' = own => OwnInv'
  BY <1>2 DEF MemInv, OwnInv
<1>q. QED BY <1>2, <1>3, <1>4

LEMMA Positions ==
  /\ Len(Model) \in Nat /\ Len(Model) >= 1
  /\ \A i \in 1 .. Len(Model) : Model[i] \in Layers
BY TensorsAssumption

LEMMA TensorInit ==
  ASSUME Init
  PROVE  TensorInv
<1> USE DEF Init
<1>1. Device \in Devices /\ scope \in Scopes
  BY DEF Device, Devices
<1>2. <<Baseline>> \in Seq(Int)
  BY DEF Baseline
<1>3. Block(<<Baseline>>, Device) \in Blocks
  BY <1>1, <1>2 DEF Block, Blocks
<1>4. mem \in Seq(Blocks) /\ Len(mem) = 1
  BY <1>3
<1>5. AccumInv
  BY DEF AccumInv
<1>6. OwnInv
  BY <1>2, <1>4 DEF OwnInv
<1>7. MemInv
  BY <1>1, <1>4, <1>5, <1>6, Positions DEF MemInv, Kinds
<1>q. QED BY <1>7 DEF TensorInv, AliasInv

LEMMA RunLayerStep ==
  ASSUME TensorInv, RunLayer
  PROVE  TensorInv' /\ MemGrows
<1> USE DEF RunLayer
<1> DEFINE at == IF pos = Len(Model) THEN 1 ELSE pos + 1
           n == IF at = 1 THEN forwards + 1 ELSE forwards
           made == New(mem, <<n>>, Device)
<1>1. /\ MemInv /\ mem \in Seq(Blocks) /\ Len(mem) \in Nat /\ pos \in 1 .. Len(Model)
      /\ forwards \in Nat /\ scope \in Scopes
  BY DEF TensorInv, MemInv
<1>2. at \in 1 .. Len(Model) /\ n \in Nat /\ Model[at] \in Layers
  BY <1>1, Positions, SMTT(20)
<1>3. /\ pos' = at /\ out' = made.at /\ due' = hooks[Model[at]] /\ forwards' = n
      /\ mem' = made.mem /\ own' = OwnAlso(made.at, <<n>>)
      /\ UNCHANGED <<progVars, hookVars, storeVars, calls, wrote, seeds, got, mixed, apart>>
  OBVIOUS
<1> HIDE DEF RunLayer, at, n
<1>4. <<n>> \in Seq(Int) /\ Device \in Devices
  BY <1>1, <1>2, ScopeTypes
<1>5. /\ Fits(made) /\ made.at = Len(mem) + 1 /\ Len(made.mem) = Len(mem) + 1
      /\ made.mem[made.at] = Block(<<n>>, Device)
      /\ \A b \in 1 .. Len(mem) : made.mem[b] = mem[b]
  BY <1>1, <1>4, NewTensor
<1> HIDE DEF made
<1>6. MemGrows
  BY <1>1, <1>3, <1>5 DEF MemGrows, Fits
<1>7. AccumInv' /\ \A m : m \in 1 .. Len(mem) => m \in 1 .. Len(mem')
  BY <1>1, <1>3, <1>6, GrownTypes DEF MemGrows, storeVars
<1>8. out' = Len(mem) + 1 /\ out' \in 1 .. Len(mem')
  BY <1>1, <1>3, <1>5
<1>9. OwnInv'
  <2>1. DOMAIN own' = DOMAIN own \cup {out'}
    BY <1>3 DEF OwnAlso
  <2>2. \A b \in DOMAIN own' : own'[b] = IF b = out' THEN <<n>> ELSE own[b]
    BY <1>3 DEF OwnAlso
  <2>3. DOMAIN own \subseteq 1 .. Len(mem) /\ \A b \in DOMAIN own : own[b] \in Seq(Int)
    BY <1>1 DEF MemInv, OwnInv
  <2>q. QED BY <1>4, <1>7, <1>8, <2>1, <2>2, <2>3 DEF OwnInv
<1>10. due' \in Seq(Hooks) /\ params' \in 1 .. Len(mem')
  BY <1>1, <1>2, <1>3, <1>7 DEF MemInv, progVars
<1>11. MemInv'
  BY <1>1, <1>2, <1>3, <1>6, <1>7, <1>8, <1>9, <1>10
  DEF MemInv, MemGrows, progVars, hookVars, storeVars
<1>12. AliasInv'
  <2> SUFFICES ASSUME NEW l \in Layers, NEW i \in 1 .. Len(accum[l]),
                      accum[l][i] \in DOMAIN own'
               PROVE  \/ accum[l][i] \in seeds
                      \/ scope.mode = "REFERENCE" /\ (conf[l] = "none" \/ l \in mixed)
    BY <1>3 DEF AliasInv, progVars, hookVars, storeVars
  <2>1. accum[l][i] \in 1 .. Len(mem)
    BY <1>1 DEF MemInv, AccumInv
  <2>2. accum[l][i] \in DOMAIN own
    BY <1>1, <1>3, <1>8, <2>1 DEF OwnAlso
  <2>q. QED BY <2>2 DEF TensorInv, AliasInv
<1>q. QED BY <1>6, <1>11, <1>12 DEF TensorInv

LEMMA SecondOfTwo ==
  ASSUME NEW q \in Seq(Nat)
  PROVE  Len(q) = 2 => q[2] + 1 \in Nat /\ q # <<>>
<1>1. ASSUME NEW i \in 1 .. Len(q) PROVE q[i] \in Nat
  OBVIOUS
<1>2. Len(q) = 2 => 2 \in 1 .. Len(q)
  OBVIOUS
<1>3. Len(q) = 2 => q[2] \in Nat
  BY <1>1, <1>2, Zenon
<1>4. Len(q) # 0 => q # <<>>
  OBVIOUS
<1>q. QED BY <1>3, <1>4

LEMMA FormTypes ==
  ASSUME scope \in Scopes, NEW kind \in Kinds
  PROVE  FormOf(kind) \in Forms /\ FileBytes(FormOf(kind)) \in Nat
<1> DEFINE form == scope.form  shape == form.shape
<1>1. form \in Forms /\ Len(shape) = 2
  BY ScopeTypes
<1>2. form.dtype \in Dtypes /\ shape \in Seq(Nat)
  BY <1>1 DEF Forms
<1>3. "float32" \in Dtypes
  BY DEF Dtypes, ScalarType
<1>4. shape[2] + 1 \in Nat /\ Tail(shape) \in Seq(Nat)
  <2>2. ASSUME NEW q \in Seq(Nat), q # <<>>
        PROVE  Tail(q) \in Seq(Nat)
    BY <2>2
  <2>q. QED BY <1>1, <1>2, <2>2, SecondOfTwo
<1>5. FormOf(kind) \in Forms
  <2>1. CASE kind = "none"
    BY <1>1, <2>1 DEF FormOf
  <2>2. CASE kind = "max"
    <3>1. [form EXCEPT !.shape = Tail(shape)] \in Forms
      BY <1>1, <1>2, <1>4 DEF Forms
    <3>q. QED BY <2>2, <3>1 DEF FormOf
  <2>3. CASE kind = "mean"
    <3>1. [dtype |-> "float32", shape |-> <<shape[2] + 1>>] \in Forms
      BY <1>3, <1>4 DEF Forms
    <3>q. QED BY <2>3, <3>1 DEF FormOf
  <2>q. QED BY <2>1, <2>2, <2>3 DEF Kinds
<1>6. ASSUME NEW f \in Forms PROVE FileBytes(f) \in Nat
  <2>1. Numel(f.shape) \in Nat /\ Len(f.shape) \in Nat
    BY NumelIsNat DEF Forms
  <2>2. f.dtype \in Dtypes
    BY DEF Forms
  <2>3. Size(f.dtype) \in Nat
    BY <2>2 DEF Size, Dtypes, ScalarType
  <2> DEFINE elements == Numel(f.shape)  item == Size(f.dtype)
  <2> HIDE DEF elements, item
  <2>4. elements * item \in Nat
    BY <2>1, <2>3 DEF elements, item
  <2>q. QED BY <2>1, <2>4 DEF FileBytes, HeaderBytes, elements, item
<1>q. QED BY <1>5, <1>6

\* What hook_callback stores goes to memory or to a file.
LEMMA HookCallbackStep ==
  ASSUME TensorInv, HookCallback
  PROVE  /\ TensorInv'
         /\ \A b \in 1 .. Len(mem) : mem'[b] # mem[b] =>
              conf[Current] = "max" /\ accum[Current] # <<>> /\ b = Last(accum[Current])
<1> DEFINE l == Current
           r == Placed(Detached(Result(l)))
           cpu == ToDevice(r, "cpu")
           form == FormOf(conf[l])
<1>1. /\ due # <<>> /\ due' = Tail(due)
      /\ IF scope.storage = "DISK" THEN ToFile(l, r) ELSE ToMemory(l, r)
      /\ UNCHANGED <<scope, reg, params, pos, out, hookVars, acts, counters, ghosts>>
  BY DEF HookCallback
<1>2. MemInv /\ AliasInv /\ mem \in Seq(Blocks) /\ scope \in Scopes
  BY DEF TensorInv, MemInv
<1>3. l \in Layers /\ conf[l] \in Kinds /\ Len(mem) \in Nat
  BY <1>2, Positions DEF MemInv, Current
<1> HIDE DEF l
<1>4. Reduced(l, r) /\ (scope.mode = "SNAPSHOT" => r.at > Len(mem))
  BY <1>2, <1>3, StoredReduced
<1> HIDE DEF r
<1>5. Reduced(l, cpu)
  <2>1. Copies(r, cpu)
    BY <1>4, ToDeviceCopies DEF Reduced, Devices
  <2>q. QED BY <1>2, <1>4, <2>1, CopyOfReduced
<1> HIDE DEF cpu
<1>6. ASSUME NEW m \in {r, cpu}, mem' = m.mem
      PROVE  /\ mem' \in Seq(Blocks) /\ Len(mem') >= Len(mem)
             /\ \A b \in 1 .. Len(mem) : mem'[b] # mem[b] =>
                  conf[l] = "max" /\ accum[l] # <<>> /\ b = Last(accum[l])
  BY <1>4, <1>5, <1>6 DEF Reduced, Fits
<1>7. mem' = r.mem \/ mem' = cpu.mem
  BY <1>1 DEF ToFile, ToMemory, cpu
<1>8. /\ mem' \in Seq(Blocks) /\ Len(mem') >= Len(mem)
      /\ \A b \in 1 .. Len(mem) : mem'[b] # mem[b] =>
           conf[l] = "max" /\ accum[l] # <<>> /\ b = Last(accum[l])
  BY <1>6, <1>7
<1>9. /\ OwnInv' /\ \A m : m \in 1 .. Len(mem) => m \in 1 .. Len(mem')
  BY <1>1, <1>2, <1>8, GrownTypes DEF ghosts
<1>10. /\ out' \in 1 .. Len(mem') /\ params' \in 1 .. Len(mem')
       /\ due' \in Seq(Hooks) /\ forwards' \in Nat
  <2>1. due \in Seq(Hooks) /\ due # <<>>
    BY <1>1, <1>2 DEF MemInv
  <2>2. Tail(due) \in Seq(Hooks)
    BY <2>1
  <2>q. QED BY <1>1, <1>2, <1>9, <2>2 DEF MemInv, counters
<1>11. CASE scope.storage = "DISK"
  <2>1. PICK gone \in {0} \cup Missing :
          /\ files' = [files EXCEPT ![l] =
               Append(files[l], [form |-> form, bytes |-> FileBytes(form) - gone,
                                 batches |-> cpu.mem[cpu.at].batches])]
          /\ mem' = cpu.mem /\ accum' = accum
    BY <1>1, <1>11 DEF ToFile, cpu
  <2> DEFINE file == [form |-> form, bytes |-> FileBytes(form) - gone,
                      batches |-> cpu.mem[cpu.at].batches]
  <2>2. form \in Forms /\ FileBytes(form) \in Nat /\ gone \in Nat
    BY <1>2, <1>3, FormTypes, TensorsAssumption
  <2>3. cpu.mem[cpu.at] \in Blocks
    BY <1>5 DEF Reduced, Fits
  <2>4. file.batches \in Seq(Int)
    BY <2>3 DEF Blocks
  <2> HIDE DEF form
  <2>5. file \in Files
    BY <2>2, <2>4 DEF Files
  <2> HIDE DEF file
  <2>7. files' = [files EXCEPT ![l] = Append(files[l], file)] /\ files \in [Layers -> Seq(Files)]
    BY <1>2, <2>1 DEF file, MemInv
  <2>8. files' \in [Layers -> Seq(Files)]
    BY <1>3, <2>5, <2>7
  <2>9. AccumInv'
    BY <1>2, <1>8, <2>1, GrownTypes
  <2>10. MemInv'
    BY <1>1, <1>2, <1>8, <1>9, <1>10, <2>8, <2>9 DEF MemInv, hookVars
  <2>11. AliasInv'
    BY <1>1, <1>2, <2>1 DEF AliasInv, hookVars, ghosts
  <2>q. QED BY <1>8, <2>10, <2>11 DEF TensorInv, l
<1>12. CASE scope.storage # "DISK"
  <2> DEFINE s == accum[l]
             t == IF conf[l] = "none" \/ s = <<>> THEN Append(s, r.at)
                  ELSE [s EXCEPT ![Len(s)] = r.at]
  <2>1. mem' = r.mem /\ accum' = [accum EXCEPT ![l] = t] /\ files' = files
    BY <1>1, <1>3, <1>12 DEF ToMemory, ReplaceAt
  <2>2. r.at \in 1 .. Len(mem') /\ r.at \in Nat
    BY <1>4, <2>1 DEF Reduced, Fits
  <2>3. accum \in [Layers -> Seq(Nat)] /\ s \in Seq(Nat)
        /\ \A i \in 1 .. Len(s) : s[i] \in 1 .. Len(mem)
    BY <1>2, <1>3 DEF MemInv, AccumInv
  <2>4. /\ t \in Seq(Nat)
        /\ \A i \in 1 .. Len(t) : t[i] = r.at \/ (i \in 1 .. Len(s) /\ t[i] = s[i])
    <3>1. CASE conf[l] = "none" \/ s = <<>>
      <4>1. t = Append(s, r.at)
        BY <3>1
      <4> HIDE DEF t, s
      <4>q. QED BY <2>2, <2>3, <4>1
    <3>2. CASE conf[l] # "none" /\ s # <<>>
      <4>1. t = [s EXCEPT ![Len(s)] = r.at]
        BY <3>2
      <4> HIDE DEF t, s
      <4>2. Len(s) \in 1 .. Len(s) /\ Len(s) \in Nat
        BY <2>3, <3>2
      <4>3. t \in Seq(Nat) /\ Len(t) = Len(s)
        BY <2>2, <2>3, <4>1, <4>2
      <4>4. \A i \in 1 .. Len(t) : t[i] = IF i = Len(s) THEN r.at ELSE s[i]
        BY <2>3, <4>1, <4>2, <4>3
      <4>q. QED BY <4>3, <4>4
    <3>q. QED BY <3>1, <3>2
  <2> HIDE DEF t
  <2>5. accum' \in [Layers -> Seq(Nat)] /\ accum'[l] = t
        /\ \A k \in Layers : k # l => accum'[k] = accum[k]
    BY <1>3, <2>1, <2>3, <2>4
  <2>6. AccumInv'
    <3> SUFFICES ASSUME NEW k \in Layers, NEW i \in 1 .. Len(accum'[k])
                 PROVE  accum'[k][i] \in 1 .. Len(mem')
      BY <2>5 DEF AccumInv
    <3>1. CASE k = l
      BY <1>9, <2>2, <2>3, <2>4, <2>5, <3>1
    <3>2. CASE k # l
      BY <1>2, <1>9, <2>5, <3>2 DEF MemInv, AccumInv
    <3>q. QED BY <3>1, <3>2
  <2>7. MemInv'
    BY <1>1, <1>2, <1>8, <1>9, <1>10, <2>1, <2>6 DEF MemInv, hookVars
  <2>8. r.at \in DOMAIN own =>
          \/ r.at \in seeds
          \/ scope.mode = "REFERENCE" /\ (conf[l] = "none" \/ l \in mixed)
    <3> SUFFICES ASSUME r.at \in DOMAIN own, r.at \notin seeds
                 PROVE  scope.mode = "REFERENCE" /\ (conf[l] = "none" \/ l \in mixed)
      OBVIOUS
    <3>1. r.at \in 1 .. Len(mem)
      BY <1>2 DEF MemInv, OwnInv
    <3>2. scope.mode = "REFERENCE"
      BY <1>2, <1>3, <1>4, <3>1, ScopeTypes DEF Modes
    <3>3. CASE conf[l] = "max" /\ s # <<>> /\ r.at = Last(s)
      <4>1. Len(s) \in 1 .. Len(s) /\ r.at = s[Len(s)]
        BY <2>3, <3>3 DEF Last
      <4>q. QED BY <1>2, <1>3, <3>2, <4>1 DEF AliasInv
    <3>q. QED BY <1>4, <3>1, <3>2, <3>3 DEF Reduced
  <2>9. AliasInv'
    <3> SUFFICES ASSUME NEW k \in Layers, NEW i \in 1 .. Len(accum'[k]),
                        accum'[k][i] \in DOMAIN own
                 PROVE  \/ accum'[k][i] \in seeds
                        \/ scope.mode = "REFERENCE" /\ (conf[k] = "none" \/ k \in mixed)
      BY <1>1 DEF AliasInv, hookVars, ghosts
    <3>1. CASE k = l
      BY <1>2, <1>3, <2>4, <2>5, <2>8, <3>1 DEF AliasInv
    <3>2. CASE k # l
      BY <1>2, <2>5, <3>2 DEF AliasInv
    <3>q. QED BY <3>1, <3>2
  <2>q. QED BY <1>8, <2>7, <2>9 DEF TensorInv, l
<1>q. QED BY <1>11, <1>12

\* A step that makes new tensors at most, and changes neither what is stored
\* nor what belongs to the program.
LEMMA GrowthStep ==
  ASSUME TensorInv, MemGrows,
         UNCHANGED <<scope, params, out, accum, files, own, seeds, conf, forwards, mixed>>,
         reg' \in Kinds, pos' \in 1 .. Len(Model),
         hooks' \in [Layers -> Seq(Hooks)],
         due' \in Seq(Hooks), due' # <<>> => due # <<>>
  PROVE  TensorInv'
<1>1. MemInv /\ AliasInv
  BY DEF TensorInv
<1>2. /\ AccumInv' /\ OwnInv'
      /\ \A n : n \in 1 .. Len(mem) => n \in 1 .. Len(mem')
  BY <1>1, GrownTypes DEF MemGrows
<1>3. MemInv'
  BY <1>1, <1>2 DEF MemInv, MemGrows
<1>4. AliasInv'
  BY <1>1 DEF AliasInv
<1>q. QED BY <1>3, <1>4 DEF TensorInv

LEMMA SameMemory ==
  ASSUME TensorInv, mem' = mem
  PROVE  MemGrows
<1>1. mem \in Seq(Blocks) /\ Len(mem) \in Nat
  BY DEF TensorInv, MemInv
<1>q. QED BY <1>1 DEF MemGrows

\* A handle whose tensor was copied leaves a memory that has only grown.
LEMMA CopyGrows ==
  ASSUME TensorInv, NEW r, NEW s, r.mem = mem, Copies(r, s), mem' = s.mem
  PROVE  MemGrows
BY DEF Copies, Fits, MemGrows

\* The hook of the pure Python tracker.
LEMMA NaiveHookStep ==
  ASSUME TensorInv, NaiveHook
  PROVE  TensorInv' /\ MemGrows
<1> DEFINE start == [mem |-> mem, at |-> out]
           copy == ToDevice(start, "cpu")
           t == Detached(copy)
<1>1. /\ due # <<>>
      /\ UNCHANGED <<progVars, out, hookVars, accum, files, counters, own, wrote, seeds, got, mixed>>
      /\ \/ mem' = t.mem /\ due' = Tail(due) /\ pos' = pos
         \/ mem' = mem /\ due' = <<>> /\ pos' = Len(Model)
  BY DEF NaiveHook
<1>2. MemInv
  BY DEF TensorInv
<1>3. Fits(start)
  BY <1>2 DEF MemInv, Fits
<1>4. Copies(start, t)
  <2>1. Copies(start, copy)
    BY <1>3, ToDeviceCopies DEF Devices
  <2>2. Fits(copy)
    BY <2>1 DEF Copies
  <2> HIDE DEF start, copy
  <2>3. Copies(copy, t)
    BY <2>2, CloneCopies, SelfCopies DEF Detached
  <2> HIDE DEF t
  <2>q. QED BY <1>3, <2>1, <2>3, CopiesOnce
<1>5. start.mem = mem
  OBVIOUS
<1> HIDE DEF start, copy, t
<1>6. MemGrows
  BY <1>1, <1>4, <1>5, CopyGrows, SameMemory
<1>7. due' \in Seq(Hooks) /\ pos' \in 1 .. Len(Model)
  <2>1. due \in Seq(Hooks) /\ Tail(due) \in Seq(Hooks)
    BY <1>1, <1>2 DEF MemInv
  <2>2. pos \in 1 .. Len(Model) /\ Len(Model) \in 1 .. Len(Model)
    BY <1>2, Positions DEF MemInv
  <2>3. <<>> \in Seq(Hooks)
    OBVIOUS
  <2>4. due' = Tail(due) \/ due' = <<>>
    BY <1>1
  <2>5. pos' = pos \/ pos' = Len(Model)
    BY <1>1
  <2>6. due' \in Seq(Hooks)
    BY <2>1, <2>3, <2>4
  <2>q. QED BY <2>2, <2>5, <2>6
<1>8. /\ UNCHANGED <<scope, params, out, accum, files, own, seeds, conf, forwards, mixed>>
      /\ reg' \in Kinds /\ hooks' \in [Layers -> Seq(Hooks)]
  BY <1>1, <1>2 DEF MemInv, progVars, hookVars, counters
<1>q. QED BY <1>1, <1>6, <1>7, <1>8, GrowthStep

LEMMA ForwardRaisesStep ==
  ASSUME TensorInv, ForwardRaises
  PROVE  TensorInv' /\ MemGrows
<1>1. MemInv /\ Len(Model) \in 1 .. Len(Model)
  BY Positions DEF TensorInv
<1>2. MemGrows
  BY SameMemory DEF ForwardRaises
<1>q. QED
  BY <1>1, <1>2, GrowthStep
  DEF ForwardRaises, MemInv, progVars, hookVars, storeVars, counters, ghosts

LEMMA RegisterReductionStep ==
  ASSUME TensorInv, NEW kind \in Kinds, RegisterReduction(kind)
  PROVE  TensorInv' /\ MemGrows
<1>1. MemInv
  BY DEF TensorInv
<1>2. MemGrows
  BY SameMemory DEF RegisterReduction
<1>q. QED
  BY <1>1, <1>2, GrowthStep
  DEF RegisterReduction, MemInv, passVars, hookVars, storeVars, ghosts

LEMMA ReadbackStep ==
  ASSUME TensorInv, Readback
  PROVE  TensorInv' /\ MemGrows
<1>1. MemInv
  BY DEF TensorInv
<1>2. MemGrows
  BY SameMemory DEF Readback
<1>q. QED
  BY <1>1, <1>2, GrowthStep
  DEF Readback, MemInv, progVars, passVars, hookVars, storeVars

LEMMA CaptureParametersStep ==
  ASSUME TensorInv, CaptureParameters
  PROVE  TensorInv' /\ MemGrows
<1> DEFINE start == [mem |-> mem, at |-> params]
           host == ToDevice(start, "cpu")
           copy == Clone(host)
<1>1. MemInv
  BY DEF TensorInv
<1>2. Fits(start)
  BY <1>1 DEF MemInv, Fits
<1>3. Copies(start, copy)
  <2>1. Copies(start, host)
    BY <1>2, ToDeviceCopies DEF Devices
  <2>2. Fits(host)
    BY <2>1 DEF Copies
  <2> HIDE DEF start, host
  <2>3. Copies(host, copy)
    BY <2>2, CloneCopies
  <2> HIDE DEF copy
  <2>q. QED BY <1>2, <2>1, <2>3, CopiesOnce
<1>4. /\ mem' = copy.mem
      /\ UNCHANGED <<progVars, passVars, hookVars, storeVars, forwards,
                     own, wrote, seeds, folded, mixed, apart>>
  BY DEF CaptureParameters
<1>5. start.mem = mem
  OBVIOUS
<1> HIDE DEF start, host, copy
<1>6. MemGrows
  BY <1>3, <1>4, <1>5, CopyGrows
<1>q. QED
  BY <1>1, <1>4, <1>6, GrowthStep DEF MemInv, progVars, passVars, hookVars, storeVars

-----------------------------------------------------------------------------
(***************************************************************************)
(* Installing and removing hooks.                                          *)
(***************************************************************************)

LEMMA HooksAdded ==
  ASSUME MemInv, NEW targets, NEW new \in Seq(Hooks)
  PROVE  With(targets, new) \in [Layers -> Seq(Hooks)]
<1>1. ASSUME NEW l \in Layers PROVE hooks[l] \o new \in Seq(Hooks) /\ hooks[l] \in Seq(Hooks)
  BY DEF MemInv
<1>q. QED BY <1>1 DEF With

\* A with-block leaves a finite number of hooks on.
LEMMA HooksRemain ==
  ASSUME MemInv, NEW raised
  PROVE  HooksLeft(raised) \in [Layers -> Seq(Hooks)]
<1>1. ASSUME NEW l \in Layers PROVE Times("naive", hooks[l]) \in Nat
  <2> DEFINE hs == hooks[l]
  <2>1. hs \in Seq(Hooks)
    BY DEF MemInv
  <2>2. Len(hs) \in Nat /\ DOMAIN hs = 1 .. Len(hs)
    BY <2>1
  <2> HIDE DEF hs
  <2>3. IsFiniteSet(1 .. Len(hs))
    BY <2>2, FS_Interval
  <2>4. {i \in DOMAIN hs : hs[i] = "naive"} \subseteq 1 .. Len(hs)
    BY <2>2
  <2>5. IsFiniteSet({i \in DOMAIN hs : hs[i] = "naive"})
    BY <2>3, <2>4, FS_Subset
  <2>6. Cardinality({i \in DOMAIN hs : hs[i] = "naive"}) \in Nat
    BY <2>5, FS_CardinalityType
  <2>q. QED BY <2>6 DEF Times, hs
<1>2. ASSUME NEW n \in Nat PROVE [i \in 1 .. n |-> "naive"] \in Seq(Hooks)
  BY DEF Hooks
<1>3. ASSUME NEW l \in Layers
      PROVE  (IF raised THEN Times("naive", hooks[l]) ELSE 0) \in Nat
  BY <1>1
<1>q. QED BY <1>2, <1>3 DEF HooksLeft

LEMMA ExitTrackStep ==
  ASSUME TensorInv, ExitTrack
  PROVE  TensorInv' /\ MemGrows
<1>1. MemInv
  BY DEF TensorInv
<1>2. MemGrows
  BY SameMemory DEF ExitTrack
<1>3. hooks' \in [Layers -> Seq(Hooks)]
  BY <1>1, HooksRemain DEF ExitTrack
<1>4. UNCHANGED <<progVars, mem, passVars, conf, storeVars, counters,
                  own, wrote, seeds, got, folded, mixed>>
  BY DEF ExitTrack
<1>q. QED
  BY <1>1, <1>2, <1>3, <1>4, GrowthStep DEF MemInv, progVars, passVars, storeVars, counters

\* session_register_hooks on the accumulators as they are, or on cleared ones:
\* an activation that stays in the accumulator of a layer that gets a
\* reduction puts the layer into mixed.
LEMMA RegisterHooksStep ==
  ASSUME TensorInv, NEW targets, NEW store \in {accum, Cleared},
         RegisterHooks(targets, store), due = <<>>,
         hooks' \in [Layers -> Seq(Hooks)],
         UNCHANGED <<progVars, mem, passVars, files, forwards, own, seeds>>
  PROVE  TensorInv'
<1>1. MemInv /\ AliasInv
  BY DEF TensorInv
<1>2. /\ accum' = store
      /\ conf' = [l \in Layers |-> IF l \in targets /\ reg # "none" THEN reg ELSE conf[l]]
      /\ mixed' = {l \in mixed : store[l] # <<>>} \cup Raw(targets, store)
      /\ UNCHANGED <<scope, reg, params, mem, pos, out, due, files, forwards, own, seeds>>
  BY DEF RegisterHooks, progVars, passVars
<1>3. \A l \in Layers : accum'[l] = accum[l] \/ accum'[l] = <<>>
  BY <1>2 DEF Cleared
<1>4. accum' \in [Layers -> Seq(Nat)]
  <2>1. Cleared \in [Layers -> Seq(Nat)]
    <3>1. <<>> \in Seq(Nat)
      OBVIOUS
    <3>q. QED BY <3>1 DEF Cleared
  <2>2. accum \in [Layers -> Seq(Nat)]
    BY <1>1 DEF MemInv, AccumInv
  <2>q. QED BY <1>2, <2>1, <2>2
<1>5. AccumInv' /\ OwnInv'
  BY <1>1, <1>2, <1>3, <1>4 DEF MemInv, AccumInv, OwnInv
<1>6. conf' \in [Layers -> Kinds]
  BY <1>1, <1>2 DEF MemInv
<1>7. MemInv'
  BY <1>1, <1>2, <1>5, <1>6 DEF MemInv
<1>8. AliasInv'
  <2> SUFFICES ASSUME NEW l \in Layers, NEW i \in 1 .. Len(accum'[l]),
                      accum'[l][i] \in DOMAIN own, accum'[l][i] \notin seeds
               PROVE  scope.mode = "REFERENCE" /\ (conf'[l] = "none" \/ l \in mixed')
    BY <1>2 DEF AliasInv
  <2>1. accum'[l] = accum[l] /\ accum[l] # <<>>
    BY <1>3
  <2>2. scope.mode = "REFERENCE" /\ (conf[l] = "none" \/ l \in mixed)
    BY <1>1, <2>1 DEF AliasInv
  <2>3. CASE l \in mixed
    BY <1>2, <2>1, <2>2, <2>3
  <2>4. CASE conf[l] = "none" /\ ~ (l \in targets /\ reg # "none")
    BY <1>2, <2>2, <2>4
  <2>5. CASE conf[l] = "none" /\ l \in targets /\ reg # "none"
    <3>1. accum[l] \in Seq(Nat)
      BY <1>1 DEF MemInv, AccumInv
    <3>2. i \in DOMAIN store[l] /\ store[l][i] \notin seeds
      BY <1>2, <2>1, <3>1
    <3>3. l \in Raw(targets, store)
      BY <2>5, <3>2 DEF Raw
    <3>q. QED BY <1>2, <2>2, <3>3
  <2>q. QED BY <2>2, <2>3, <2>4, <2>5
<1>q. QED BY <1>7, <1>8 DEF TensorInv

LEMMA AttachStep ==
  ASSUME TensorInv, NEW targets, Attach(targets)
  PROVE  TensorInv' /\ MemGrows
<1>1. MemGrows
  BY SameMemory DEF Attach
<1>2. With(targets, <<"scope">>) \in [Layers -> Seq(Hooks)]
  <2>1. <<"scope">> \in Seq(Hooks)
    BY DEF Hooks
  <2>q. QED BY <2>1, HooksAdded DEF TensorInv
<1>3. /\ RegisterHooks(targets, accum) /\ due = <<>> /\ hooks' = With(targets, <<"scope">>)
      /\ UNCHANGED <<progVars, mem, passVars, files, forwards, own, seeds>>
  BY DEF Attach, Call, AtRest
<1>4. TensorInv'
  BY <1>2, <1>3, RegisterHooksStep
<1>q. QED BY <1>1, <1>4

LEMMA EnterTrackStep ==
  ASSUME TensorInv, NEW targets, EnterTrack(targets)
  PROVE  TensorInv' /\ MemGrows
<1>1. MemGrows
  BY SameMemory DEF EnterTrack
<1>2. With(targets, <<"scope", "naive">>) \in [Layers -> Seq(Hooks)]
  <2>1. <<"scope", "naive">> \in Seq(Hooks)
    BY DEF Hooks
  <2>q. QED BY <2>1, HooksAdded DEF TensorInv
<1>3. /\ RegisterHooks(targets, Cleared) /\ due = <<>>
      /\ hooks' = With(targets, <<"scope", "naive">>)
      /\ UNCHANGED <<progVars, mem, passVars, files, forwards, own, seeds>>
  BY DEF EnterTrack, Call, AtRest
<1>4. TensorInv'
  BY <1>2, <1>3, RegisterHooksStep
<1>q. QED BY <1>1, <1>4

-----------------------------------------------------------------------------
(***************************************************************************)
(* The program's own tensors.                                              *)
(***************************************************************************)

LEMMA InitAccumulatorStep ==
  ASSUME TensorInv, NEW l \in Layers, InitAccumulator(l)
  PROVE  TensorInv' /\ MemGrows
<1> DEFINE seed == New(mem, <<Seed>>, "cpu")
<1>1. MemInv /\ AliasInv /\ mem \in Seq(Blocks) /\ Len(mem) \in Nat
  BY DEF TensorInv, MemInv
<1>2. /\ seeds = {} /\ mem' = seed.mem /\ accum' = [accum EXCEPT ![l] = <<seed.at>>]
      /\ own' = OwnAlso(seed.at, <<Seed>>) /\ seeds' = {seed.at} /\ mixed' = mixed \ {l}
      /\ UNCHANGED <<progVars, passVars, hookVars, files, acts, forwards, wrote, got>>
  BY DEF InitAccumulator
<1>3. <<Seed>> \in Seq(Int) /\ "cpu" \in Devices
  BY DEF Seed, Devices
<1>4. /\ Fits(seed) /\ seed.at = Len(mem) + 1 /\ Len(seed.mem) = Len(mem) + 1
      /\ \A b \in 1 .. Len(mem) : seed.mem[b] = mem[b]
  BY <1>1, <1>3, NewTensor
<1> HIDE DEF seed
<1>5. MemGrows
  BY <1>1, <1>2, <1>4 DEF MemGrows, Fits
<1>6. \A m : m \in 1 .. Len(mem) => m \in 1 .. Len(mem')
  BY <1>1, <1>5, GrownTypes DEF MemGrows
<1>7. seed.at \in 1 .. Len(mem') /\ seed.at \in Nat
  BY <1>1, <1>2, <1>4
<1>8. AccumInv'
  <2>1. accum \in [Layers -> Seq(Nat)]
    BY <1>1 DEF MemInv, AccumInv
  <2>2. /\ accum' \in [Layers -> Seq(Nat)] /\ accum'[l] = <<seed.at>>
        /\ \A k \in Layers : k # l => accum'[k] = accum[k]
    BY <1>2, <1>7, <2>1
  <2>3. ASSUME NEW k \in Layers, NEW i \in 1 .. Len(accum'[k])
        PROVE  accum'[k][i] \in 1 .. Len(mem')
    <3>1. CASE k = l
      BY <1>7, <2>2, <3>1
    <3>2. CASE k # l
      BY <1>1, <1>6, <2>2, <3>2 DEF MemInv, AccumInv
    <3>q. QED BY <3>1, <3>2
  <2>q. QED BY <2>2, <2>3 DEF AccumInv
<1>9. OwnInv'
  <2>1. DOMAIN own' = DOMAIN own \cup {seed.at}
    BY <1>2 DEF OwnAlso
  <2>2. \A b \in DOMAIN own' : own'[b] = IF b = seed.at THEN <<Seed>> ELSE own[b]
    BY <1>2 DEF OwnAlso
  <2>3. DOMAIN own \subseteq 1 .. Len(mem) /\ \A b \in DOMAIN own : own[b] \in Seq(Int)
    BY <1>1 DEF MemInv, OwnInv
  <2>q. QED BY <1>3, <1>6, <1>7, <2>1, <2>2, <2>3 DEF OwnInv
<1>10. MemInv'
  BY <1>1, <1>2, <1>5, <1>6, <1>8, <1>9
  DEF MemInv, MemGrows, progVars, passVars, hookVars
<1>11. AliasInv'
  <2> SUFFICES ASSUME NEW k \in Layers, NEW i \in 1 .. Len(accum'[k]),
                      accum'[k][i] \in DOMAIN own', accum'[k][i] \notin seeds'
               PROVE  scope.mode = "REFERENCE" /\ (conf[k] = "none" \/ k \in mixed')
    BY <1>2 DEF AliasInv, progVars, hookVars
  <2>1. accum'[k] = IF k = l THEN <<seed.at>> ELSE accum[k]
    BY <1>1, <1>2 DEF MemInv, AccumInv
  <2>2. k # l
    BY <1>2, <2>1
  <2>3. accum[k][i] \in DOMAIN own /\ accum[k][i] \notin seeds /\ i \in 1 .. Len(accum[k])
    BY <1>2, <2>1, <2>2 DEF OwnAlso
  <2>q. QED BY <1>1, <1>2, <2>2, <2>3 DEF AliasInv
<1>q. QED BY <1>5, <1>10, <1>11 DEF TensorInv

\* A write of the program's changes one block, which is its own.
LEMMA OverwriteStep ==
  ASSUME TensorInv, NEW b \in DOMAIN own, Overwrite(b)
  PROVE  /\ TensorInv'
         /\ \A c \in 1 .. Len(mem) : mem'[c] # mem[c] => c = b
         /\ own'[b] # own[b]
<1>1. MemInv /\ AliasInv /\ mem \in Seq(Blocks) /\ Len(mem) \in Nat
  BY DEF TensorInv, MemInv
<1>2. b \in 1 .. Len(mem) /\ own[b] \in Seq(Int)
  BY <1>1 DEF MemInv, OwnInv
<1>3. /\ due = <<>>
      /\ mem' = [mem EXCEPT ![b].batches = Append(@, Scribble)]
      /\ own' = [own EXCEPT ![b] = Append(@, Scribble)]
      /\ UNCHANGED <<progVars, passVars, hookVars, storeVars, counters,
                     seeds, got, folded, mixed, apart>>
  BY DEF Overwrite
<1> DEFINE block == [mem[b] EXCEPT !.batches = Append(@, Scribble)]
<1>4. mem[b] \in Blocks /\ Scribble \in Int
  BY <1>1, <1>2 DEF Scribble
<1>5. Append(mem[b].batches, Scribble) \in Seq(Int)
  BY <1>4 DEF Blocks
<1>6. block \in Blocks
  BY <1>4, <1>5 DEF Blocks
<1>7. mem' = [mem EXCEPT ![b] = block]
  BY <1>3
<1> HIDE DEF block
<1>8. /\ mem' \in Seq(Blocks) /\ Len(mem') = Len(mem)
      /\ \A c \in 1 .. Len(mem) : mem'[c] # mem[c] => c = b
  BY <1>1, <1>2, <1>6, <1>7
<1>9. /\ DOMAIN own' = DOMAIN own
      /\ \A c \in DOMAIN own : own'[c] = IF c = b THEN Append(own[b], Scribble) ELSE own[c]
  BY <1>3
<1>10. Append(own[b], Scribble) \in Seq(Int) /\ Append(own[b], Scribble) # own[b]
  <2>1. ASSUME NEW q \in Seq(Int), NEW x \in Int
        PROVE  Append(q, x) \in Seq(Int) /\ Append(q, x) # q
    <3>1. Len(Append(q, x)) = Len(q) + 1 /\ Len(q) \in Nat
      OBVIOUS
    <3>q. QED BY <3>1
  <2>q. QED BY <1>2, <1>4, <2>1
<1>11. OwnInv'
  BY <1>1, <1>8, <1>9, <1>10 DEF MemInv, OwnInv
<1>12. AccumInv'
  BY <1>1, <1>3, <1>8 DEF MemInv, AccumInv, storeVars
<1>13. MemInv'
  BY <1>1, <1>3, <1>8, <1>11, <1>12
  DEF MemInv, progVars, passVars, hookVars, storeVars, counters
<1>14. AliasInv'
  BY <1>1, <1>3, <1>9 DEF AliasInv, progVars, hookVars, storeVars
<1>15. own'[b] # own[b]
  BY <1>9, <1>10
<1>q. QED BY <1>8, <1>13, <1>14, <1>15 DEF TensorInv

-----------------------------------------------------------------------------
(***************************************************************************)
(* Writes and files.                                                       *)
(***************************************************************************)

\* Which blocks of the program a step may change.
StepWrites ==
  \A b \in DOMAIN own :
    mem'[b] # mem[b] =>
      \/ own'[b] # own[b]
      \/ /\ conf[Current] = "max" /\ accum[Current] # <<>> /\ Last(accum[Current]) = b
         /\ b \in seeds \/ (Current \in mixed /\ scope.mode = "REFERENCE")

LEMMA TensorStep ==
  ASSUME TensorInv, [Next]_vars
  PROVE  TensorInv' /\ StepWrites
<1>1. ASSUME MemGrows PROVE StepWrites
  BY <1>1 DEF TensorInv, MemInv, OwnInv, MemGrows, StepWrites
<1>2. CASE RunLayer BY <1>1, <1>2, RunLayerStep
<1>3. CASE HookCallback
  <2>1. TensorInv' /\ \A b \in 1 .. Len(mem) : mem'[b] # mem[b] =>
          conf[Current] = "max" /\ accum[Current] # <<>> /\ b = Last(accum[Current])
    BY <1>3, HookCallbackStep
  <2>2. StepWrites
    <3> SUFFICES ASSUME NEW b \in DOMAIN own, mem'[b] # mem[b]
                 PROVE  /\ conf[Current] = "max" /\ accum[Current] # <<>>
                        /\ Last(accum[Current]) = b
                        /\ b \in seeds \/ (Current \in mixed /\ scope.mode = "REFERENCE")
      BY DEF StepWrites
    <3>1. conf[Current] = "max" /\ accum[Current] # <<>> /\ b = Last(accum[Current])
      BY <2>1 DEF TensorInv, MemInv, OwnInv
    <3>2. Current \in Layers
      BY Positions DEF TensorInv, MemInv, Current
    <3> DEFINE s == accum[Current]
    <3>3. s \in Seq(Nat)
      BY <3>2 DEF TensorInv, MemInv, AccumInv
    <3>4. Len(s) \in 1 .. Len(s) /\ b = s[Len(s)]
      BY <3>1, <3>3 DEF Last
    <3>q. QED BY <3>1, <3>2, <3>4 DEF TensorInv, AliasInv
  <2>q. QED BY <2>1, <2>2
<1>4. CASE NaiveHook BY <1>1, <1>4, NaiveHookStep
<1>5. CASE ForwardRaises BY <1>1, <1>5, ForwardRaisesStep
<1>6. ASSUME NEW kind \in Kinds \ {"none"}, RegisterReduction(kind)
      PROVE  TensorInv' /\ StepWrites
  BY <1>1, <1>6, RegisterReductionStep
<1>7. ASSUME NEW targets \in Targets, Attach(targets) \/ EnterTrack(targets)
      PROVE  TensorInv' /\ StepWrites
  BY <1>1, <1>7, AttachStep, EnterTrackStep
<1>8. CASE ExitTrack BY <1>1, <1>8, ExitTrackStep
<1>9. ASSUME NEW l \in Layers, InitAccumulator(l)
      PROVE  TensorInv' /\ StepWrites
  BY <1>1, <1>9, InitAccumulatorStep
<1>10. ASSUME NEW b \in DOMAIN own, Overwrite(b)
       PROVE  TensorInv' /\ StepWrites
  <2>1. DOMAIN own \subseteq 1 .. Len(mem)
    BY DEF TensorInv, MemInv, OwnInv
  <2>q. QED BY <1>10, <2>1, OverwriteStep DEF StepWrites
<1>11. CASE Readback BY <1>1, <1>11, ReadbackStep
<1>12. CASE CaptureParameters BY <1>1, <1>12, CaptureParametersStep
<1>13. CASE UNCHANGED vars
  <2>1. MemGrows
    BY <1>13, SameMemory DEF vars
  <2>2. TensorInv'
    BY <1>13, <2>1, GrowthStep
    DEF vars, progVars, passVars, ghosts, hookVars, storeVars, counters, TensorInv, MemInv
  <2>q. QED BY <1>1, <2>1, <2>2
<1>q. QED
  BY <1>2, <1>3, <1>4, <1>5, <1>6, <1>7, <1>8, <1>9, <1>10, <1>11, <1>12, <1>13
  DEF Next, Finished

\* The library writes to a tensor of the program's only as the running value
\* of an in-place reduction (tracker.py:217): a seed, or a REFERENCE capture
\* that was there when the reduction was attached.
THEOREM OnlyRunningValuesWritten == Spec => ProgramTensorsIntact
<1>1. Init => TensorInv
  BY TensorInit
<1>2. TensorInv /\ [Next]_vars => TensorInv' /\ [StepWrites]_vars
  BY TensorStep
<1>3. [StepWrites]_vars => [\A b \in DOMAIN own :
       mem'[b] # mem[b] =>
         \/ own'[b] # own[b]
         \/ /\ conf[Current] = "max" /\ accum[Current] # <<>> /\ Last(accum[Current]) = b
            /\ b \in seeds \/ (Current \in mixed /\ scope.mode = "REFERENCE")]_vars
  BY DEF StepWrites
<1>q. QED BY <1>1, <1>2, <1>3, PTL DEF Spec, ProgramTensorsIntact

\* A .dat file of a supported dtype is loaded if and only if all of it was
\* written, and as what was written (callback.cpp:115-139, utils.py:144-173).
THEOREM FilesFaithful == Spec => []DiskFaithful
<1>1. Init => TensorInv
  BY TensorInit
<1>2. TensorInv /\ [Next]_vars => TensorInv'
  BY TensorStep
<1>3. TensorInv => DiskFaithful
  <2> SUFFICES ASSUME TensorInv, NEW l \in Layers, NEW f \in Range(files[l])
               PROVE  f.form.dtype \in Supported =>
                        /\ Loads(f.form, f.bytes) <=> f.bytes = FileBytes(f.form)
                        /\ Loaded(f.form) = f.form
    BY DEF DiskFaithful
  <2>1. files[l] \in Seq(Files)
    BY DEF TensorInv, MemInv
  <2>2. PICK i \in 1 .. Len(files[l]) : f = files[l][i]
    BY <2>1 DEF Range
  <2>3. f \in Files
    BY <2>1, <2>2
  <2>4. f.form \in Forms /\ f.bytes \in Int
    BY <2>3 DEF Files
  <2>5. f.form.shape \in Seq(Nat) /\ f.form = [dtype |-> f.form.dtype, shape |-> f.form.shape]
    BY <2>4 DEF Forms
  <2>6. Numel(f.form.shape) \in Nat
    BY <2>5, NumelIsNat
  <2>7. ASSUME f.form.dtype \in Supported
        PROVE  /\ Loads(f.form, f.bytes) <=> f.bytes = FileBytes(f.form)
               /\ Loaded(f.form) = f.form
    BY <2>4, <2>5, <2>6, <2>7, LoadsExactlyWholeFiles
  <2>q. QED BY <2>7
<1>q. QED BY <1>1, <1>2, <1>3, PTL DEF Spec

-----------------------------------------------------------------------------
(***************************************************************************)
(* What one hook of the scope does, and on which devices.                  *)
(***************************************************************************)
InHand(l) == Placed(Detached(Result(l)))

\* The tensor a takes its place in layer l's accumulator.
Takes(l, a) ==
  accum' = [accum EXCEPT ![l] =
              IF conf[l] = "none" \/ @ = <<>> THEN Append(@, a) ELSE ReplaceAt(@, Len(@), a)]

\* The memory grows, and only the running value of an in-place reduction changes.
Touches(l) ==
  /\ mem' \in Seq(Blocks) /\ Len(mem') >= Len(mem)
  /\ \A b \in 1 .. Len(mem) :
       mem'[b] # mem[b] =>
         /\ conf[l] = "max" /\ accum[l] # <<>> /\ b = Last(accum[l])
         /\ mem'[b] = Block(Value(l), mem[b].dev)

OnDevices(m, D) == \A b \in 1 .. Len(m) : m[b].dev \in D

LEMMA NewOn ==
  ASSUME NEW m \in Seq(Blocks), NEW batches \in Seq(Int), NEW D \in SUBSET Devices,
         NEW dev \in D, OnDevices(m, D)
  PROVE  LET s == New(m, batches, dev) IN OnDevices(s.mem, D) /\ s.mem[s.at].dev = dev
<1> DEFINE s == New(m, batches, dev)
<1>1. /\ s.at = Len(m) + 1 /\ Len(s.mem) = Len(m) + 1
      /\ s.mem[s.at] = Block(batches, dev)
      /\ \A b \in 1 .. Len(m) : s.mem[b] = m[b]
  BY NewTensor
<1>2. s.mem[s.at].dev = dev
  BY <1>1 DEF Block
<1> HIDE DEF s
<1>3. Len(m) \in Nat
  OBVIOUS
<1>4. OnDevices(s.mem, D)
  BY <1>1, <1>2, <1>3 DEF OnDevices
<1>q. QED BY <1>2, <1>4 DEF s

LEMMA CopyToOn ==
  ASSUME NEW r, Fits(r), NEW D \in SUBSET Devices, NEW dev \in D, OnDevices(r.mem, D)
  PROVE  OnDevices(CopyTo(r, dev).mem, D) /\ CopyTo(r, dev).mem[CopyTo(r, dev).at].dev = dev
<1>1. r.mem \in Seq(Blocks) /\ r.at \in 1 .. Len(r.mem)
  BY DEF Fits
<1>2. r.mem[r.at] \in Blocks
  BY <1>1
<1>3. r.mem[r.at].batches \in Seq(Int)
  BY <1>2 DEF Blocks
<1>q. QED BY <1>1, <1>3, NewOn, SMTT(20) DEF CopyTo

LEMMA ToDeviceOn ==
  ASSUME NEW r, Fits(r), NEW D \in SUBSET Devices, NEW dev \in D, OnDevices(r.mem, D)
  PROVE  /\ OnDevices(ToDevice(r, dev).mem, D)
         /\ ToDevice(r, dev).mem[ToDevice(r, dev).at].dev = dev
<1>1. CASE r.mem[r.at].dev = dev
  BY <1>1 DEF ToDevice
<1>2. CASE r.mem[r.at].dev # dev
  BY <1>2, CopyToOn DEF ToDevice
<1>q. QED BY <1>1, <1>2

LEMMA CloneOn ==
  ASSUME NEW r, Fits(r), NEW D \in SUBSET Devices, OnDevices(r.mem, D)
  PROVE  OnDevices(Clone(r).mem, D) /\ Clone(r).mem[Clone(r).at].dev = r.mem[r.at].dev
<1>1. r.mem[r.at].dev \in D
  BY DEF Fits, OnDevices
<1>q. QED BY <1>1, CopyToOn DEF Clone

LEMMA DetachedOn ==
  ASSUME NEW r, Fits(r), NEW D \in SUBSET Devices, OnDevices(r.mem, D)
  PROVE  /\ OnDevices(Detached(r).mem, D) /\ Copies(r, Detached(r))
         /\ Detached(r).mem[Detached(r).at].dev = r.mem[r.at].dev
BY CloneOn, CloneCopies, SelfCopies DEF Detached

LEMMA ResultOn ==
  ASSUME MemInv, NEW l \in Layers, NEW D \in SUBSET Devices, OnDevices(mem, D)
  PROVE  OnDevices(Result(l).mem, D)
<1> DEFINE start == [mem |-> mem, at |-> Last(accum[l])]
           acc == ToDevice(start, mem[out].dev)
           new == [mem |-> IF accum[l] = <<>> THEN mem ELSE acc.mem, at |-> out]
<1>1. mem \in Seq(Blocks) /\ Len(mem) \in Nat /\ out \in 1 .. Len(mem) /\ conf[l] \in Kinds
  BY DEF MemInv
<1>2. mem[out] \in Blocks /\ mem[out].dev \in D
  BY <1>1 DEF OnDevices
<1>4. ASSUME accum[l] # <<>>
      PROVE  Fits(start) /\ Copies(start, acc) /\ OnDevices(acc.mem, D)
  <2>1. Last(accum[l]) \in 1 .. Len(mem)
    BY <1>4 DEF MemInv, AccumInv, Last
  <2>2. Fits(start)
    BY <1>1, <2>1 DEF Fits
  <2>3. mem[out].dev \in Devices
    BY <1>2
  <2>q. QED BY <2>2, <2>3, <1>2, ToDeviceCopies, ToDeviceOn
<1>5. ASSUME accum[l] # <<>>
      PROVE  /\ acc.mem \in Seq(Blocks) /\ acc.at \in 1 .. Len(acc.mem)
             /\ Len(acc.mem) \in Nat /\ Len(acc.mem) >= Len(mem)
  BY <1>1, <1>4, <1>5 DEF Copies, Fits
<1> HIDE DEF acc
<1>6. /\ new.mem \in Seq(Blocks) /\ new.at = out /\ Len(new.mem) \in Nat
      /\ Len(new.mem) >= Len(mem) /\ OnDevices(new.mem, D)
  BY <1>1, <1>4, <1>5
<1>7. Fits(new) /\ new.mem[out] \in Blocks
  BY <1>1, <1>6 DEF Fits
<1>8. Result(l) = IF conf[l] = "none" THEN new
                  ELSE IF accum[l] = <<>> THEN FirstResult(new)
                  ELSE IF conf[l] = "max" THEN Maximum(acc.at, new)
                  ELSE Mean(acc.at, new)
  BY DEF Result, acc
<1>9. CASE conf[l] = "none"
  BY <1>6, <1>8, <1>9
<1>10. CASE conf[l] # "none" /\ accum[l] = <<>>
  BY <1>6, <1>7, <1>8, <1>10, CloneOn DEF FirstResult
<1>11. ASSUME accum[l] # <<>> PROVE new.mem[acc.at] \in Blocks
  BY <1>5, <1>6, <1>11
<1>12. CASE conf[l] = "max" /\ accum[l] # <<>>
  <2> DEFINE both == new.mem[acc.at].batches \o new.mem[out].batches
             block == [new.mem[acc.at] EXCEPT !.batches = both]
  <2>1. Result(l).mem = [new.mem EXCEPT ![acc.at] = block]
    BY <1>6, <1>8, <1>12 DEF Maximum
  <2>2. new.mem[acc.at].dev \in D
    BY <1>5, <1>6, <1>12 DEF OnDevices
  <2>3. block.dev = new.mem[acc.at].dev
    <3> DEFINE old == new.mem[acc.at]
    <3>1. old \in Blocks
      BY <1>11, <1>12
    <3> HIDE DEF old, both
    <3>2. [old EXCEPT !.batches = both].dev = old.dev
      BY <3>1 DEF Blocks
    <3>q. QED BY <3>2 DEF old
  <2> HIDE DEF block, new
  <2>q. QED BY <1>6, <2>1, <2>2, <2>3 DEF OnDevices
<1>13. CASE conf[l] = "mean" /\ accum[l] # <<>>
  <2> DEFINE both == new.mem[acc.at].batches \o new.mem[out].batches
  <2>1. Result(l) = New(new.mem, both, new.mem[out].dev)
    BY <1>6, <1>8, <1>13 DEF Mean
  <2>2. both \in Seq(Int)
    BY <1>7, <1>11, <1>13 DEF Blocks
  <2>3. new.mem[out].dev \in D
    BY <1>1, <1>6 DEF OnDevices
  <2> HIDE DEF new, both
  <2>q. QED BY <1>6, <2>1, <2>2, <2>3, NewOn
<1>q. QED BY <1>1, <1>9, <1>10, <1>12, <1>13 DEF Kinds

\* Whatever a hook stores lies where the storage policy puts it.
LEMMA InHandOn ==
  ASSUME MemInv, NEW l \in Layers, OnDevices(mem, {"cpu", Device})
  PROVE  /\ OnDevices(InHand(l).mem, {"cpu", Device})
         /\ MovesToCpu => InHand(l).mem[InHand(l).at].dev = "cpu"
<1> DEFINE D == {"cpu", Device}
           res == Result(l)
           det == Detached(res)
<1>1. D \in SUBSET Devices /\ "cpu" \in D
  BY ScopeTypes DEF MemInv, Devices
<1> HIDE DEF D
<1>2. OnDevices(mem, D)
  BY DEF D
<1>3. OnDevices(res.mem, D) /\ Fits(res)
  BY <1>1, <1>2, ResultOn, ResultReduced DEF Reduced
<1> HIDE DEF res
<1>4. OnDevices(det.mem, D) /\ Fits(det)
  BY <1>1, <1>3, DetachedOn DEF Copies
<1> HIDE DEF det
<1>5. /\ OnDevices(Placed(det).mem, D)
      /\ MovesToCpu => Placed(det).mem[Placed(det).at].dev = "cpu"
  BY <1>1, <1>4, ToDeviceOn DEF Placed
<1>q. QED BY <1>5 DEF InHand, det, res, D

LEMMA HookEffect ==
  ASSUME MemInv, HookCallback
  PROVE  /\ Current \in Layers /\ due # <<>> /\ Head(due) = "scope" /\ due' = Tail(due)
         /\ UNCHANGED <<scope, reg, params, pos, out, hookVars, acts, counters, ghosts>>
         /\ Touches(Current)
         /\ mem' = InHand(Current).mem \/ mem' = ToDevice(InHand(Current), "cpu").mem
         /\ Reduced(Current, InHand(Current))
         /\ scope.storage = "DISK" => accum' = accum
         /\ scope.storage # "DISK" =>
              mem' = InHand(Current).mem /\ Takes(Current, InHand(Current).at)
<1> DEFINE l == Current
           r == InHand(l)
           cpu == ToDevice(r, "cpu")
<1>1. /\ due # <<>> /\ Head(due) = "scope" /\ due' = Tail(due)
      /\ IF scope.storage = "DISK" THEN ToFile(l, r) ELSE ToMemory(l, r)
      /\ UNCHANGED <<scope, reg, params, pos, out, hookVars, acts, counters, ghosts>>
  BY DEF HookCallback, InHand
<1>2. l \in Layers /\ mem \in Seq(Blocks)
  BY Positions DEF MemInv, Current
<1> HIDE DEF l
<1>3. Reduced(l, r)
  BY <1>2, StoredReduced DEF InHand
<1> HIDE DEF r
<1>4. Reduced(l, cpu)
  <2>1. Copies(r, cpu)
    BY <1>3, ToDeviceCopies DEF Reduced, Devices
  <2>q. QED BY <1>2, <1>3, <2>1, CopyOfReduced
<1> HIDE DEF cpu
<1>5. mem' = r.mem \/ mem' = cpu.mem
  BY <1>1 DEF ToFile, ToMemory, cpu
<1>6. Touches(l)
  BY <1>3, <1>4, <1>5 DEF Reduced, Fits, Touches
<1>7. scope.storage = "DISK" => accum' = accum
  BY <1>1 DEF ToFile
<1>8. scope.storage # "DISK" => mem' = r.mem /\ Takes(l, r.at)
  BY <1>1 DEF ToMemory, Takes
<1>q. QED BY <1>1, <1>2, <1>3, <1>5, <1>6, <1>7, <1>8 DEF l, r, cpu


-----------------------------------------------------------------------------
(***************************************************************************)
(* Types.                                                                  *)
(***************************************************************************)
DeviceInv == OnDevices(mem, {"cpu", Device})

ActsInv ==
  /\ acts = [l \in DOMAIN acts |-> acts[l]] /\ DOMAIN acts \subseteq Layers
  /\ \A l \in DOMAIN acts :
       /\ acts[l] \in Seq(Nat)
       /\ \A i \in 1 .. Len(acts[l]) : acts[l][i] \in 1 .. Len(mem) /\ mem[acts[l][i]].dev = "cpu"

PlacedInv ==
  MovesToCpu => \A l \in Layers : \A i \in 1 .. Len(accum[l]) : mem[accum[l][i]].dev = "cpu"

GotInv == \A g \in got : g.at \in 1 .. Len(mem)

CountInv ==
  /\ depth \in Nat /\ calls \in Nat /\ torn \in Nat
  /\ forwards <= MaxForwards /\ calls <= MaxCalls /\ torn <= MaxTorn /\ depth <= MaxDepth

TypedInv ==
  /\ TensorInv /\ DeviceInv /\ ActsInv /\ PlacedInv /\ GotInv /\ CountInv
  /\ seeds \cup wrote \subseteq DOMAIN own

\* Blocks are added, and none of the others moves.
Stays ==
  /\ mem' \in Seq(Blocks) /\ Len(mem') >= Len(mem)
  /\ \A b \in 1 .. Len(mem) : mem'[b].dev = mem[b].dev

LEMMA TypedImplies == TypedInv => TypeOK
<1> SUFFICES ASSUME TypedInv PROVE TypeOK
  OBVIOUS
<1> USE DEF TypedInv
<1>1. MemInv /\ mem \in Seq(Blocks) /\ Tensor = 1 .. Len(mem)
  BY DEF TensorInv, MemInv, Tensor
<1>2. \A b \in Tensor : mem[b].dev \in {"cpu", Device}
  BY <1>1 DEF DeviceInv, OnDevices
<1>3. accum \in [Layers -> Seq(Tensor)]
  <2>1. ASSUME NEW l \in Layers PROVE accum[l] \in Seq(Tensor)
    <3>1. accum[l] \in Seq(Nat) /\ \A i \in 1 .. Len(accum[l]) : accum[l][i] \in Tensor
      BY <1>1 DEF MemInv, AccumInv
    <3>q. QED BY <3>1
  <2>q. QED BY <1>1, <2>1 DEF MemInv, AccumInv
<1>4. DOMAIN acts \subseteq Layers
      /\ \A l \in DOMAIN acts : \A b \in Range(acts[l]) : mem[b].dev = "cpu"
  <2> SUFFICES ASSUME NEW l \in DOMAIN acts, NEW b \in Range(acts[l]) PROVE mem[b].dev = "cpu"
    BY DEF ActsInv
  <2>1. acts[l] \in Seq(Nat)
    BY DEF ActsInv
  <2>2. PICK i \in 1 .. Len(acts[l]) : b = acts[l][i]
    BY <2>1 DEF Range
  <2>q. QED BY <2>2 DEF ActsInv
<1>5. MovesToCpu => \A l \in Layers : \A b \in Range(accum[l]) : mem[b].dev = "cpu"
  <2> SUFFICES ASSUME MovesToCpu, NEW l \in Layers, NEW b \in Range(accum[l])
               PROVE  mem[b].dev = "cpu"
    OBVIOUS
  <2>1. accum[l] \in Seq(Nat)
    BY <1>1 DEF MemInv, AccumInv
  <2>2. PICK i \in 1 .. Len(accum[l]) : b = accum[l][i]
    BY <2>1 DEF Range
  <2>q. QED BY <2>2 DEF PlacedInv
<1>6. pos \in DOMAIN Model
  <2>1. DOMAIN Model = 1 .. Len(Model)
    BY TensorsAssumption
  <2>q. QED BY <1>1, <2>1 DEF MemInv
<1>7. /\ scope \in Scopes /\ reg \in Kinds /\ conf \in [Layers -> Kinds] /\ out \in Tensor
      /\ due \in Seq({"scope", "naive"}) /\ hooks \in [Layers -> Seq({"scope", "naive"})]
  BY <1>1 DEF MemInv, Hooks
<1>8. /\ DOMAIN own \subseteq Tensor /\ seeds \cup wrote \subseteq DOMAIN own
      /\ \A g \in got : g.at \in Tensor
  BY <1>1 DEF MemInv, OwnInv, GotInv
<1>q. QED BY <1>2, <1>3, <1>4, <1>5, <1>6, <1>7, <1>8 DEF TypeOK, CountInv

LEMMA TypedInit ==
  ASSUME Init
  PROVE  TypedInv
<1>1. TensorInv
  BY TensorInit
<1>2. DeviceInv
  <2>1. mem = << Block(<<Baseline>>, Device) >>
    BY DEF Init
  <2> DEFINE b == Block(<<Baseline>>, Device)
  <2>2. b.dev = Device
    BY DEF Block
  <2> HIDE DEF b
  <2>3. <<b>>[1] = b /\ Len(<<b>>) = 1
    OBVIOUS
  <2>4. \A i \in 1 .. 1 : i = 1
    OBVIOUS
  <2>q. QED BY <2>1, <2>2, <2>3, <2>4, Zenon DEF DeviceInv, OnDevices, b
<1>3. ActsInv /\ PlacedInv
  BY DEF Init, ActsInv, PlacedInv
<1>4. GotInv /\ CountInv
  BY TensorsAssumption DEF Init, GotInv, CountInv
<1>5. seeds \cup wrote \subseteq DOMAIN own
  BY DEF Init
<1>q. QED BY <1>1, <1>2, <1>3, <1>4, <1>5 DEF TypedInv

\* What stays in accumulators, lists and hands stays of its type.
LEMMA StayTypes ==
  ASSUME TypedInv, Stays, scope' = scope
  PROVE  /\ acts' = acts => ActsInv'
         /\ accum' = accum => PlacedInv'
         /\ got' = got => GotInv'
         /\ \A n : n \in 1 .. Len(mem) => n \in 1 .. Len(mem')
<1>1. Len(mem) \in Nat /\ Len(mem') \in Nat
  BY DEF TypedInv, TensorInv, MemInv, Stays
<1>2. \A n : n \in 1 .. Len(mem) => n \in 1 .. Len(mem')
  BY <1>1 DEF Stays
<1>3. acts' = acts => ActsInv'
  BY <1>2 DEF TypedInv, ActsInv, Stays
<1>4. accum' = accum => PlacedInv'
  BY <1>2, ZenonT(30) DEF TypedInv, PlacedInv, TensorInv, MemInv, AccumInv, Stays, MovesToCpu
<1>5. got' = got => GotInv'
  BY <1>2 DEF TypedInv, GotInv
<1>q. QED BY <1>2, <1>3, <1>4, <1>5

LEMMA SameStays ==
  ASSUME TypedInv, mem' = mem, scope' = scope
  PROVE  Stays /\ DeviceInv'
BY DEF TypedInv, TensorInv, MemInv, Stays, DeviceInv, OnDevices, Device

LEMMA TypedRunLayer ==
  ASSUME TypedInv, RunLayer
  PROVE  TypedInv'
<1> DEFINE at == IF pos = Len(Model) THEN 1 ELSE pos + 1
           n == IF at = 1 THEN forwards + 1 ELSE forwards
           made == New(mem, <<n>>, Device)
<1>1. /\ mem' = made.mem /\ own' = OwnAlso(made.at, <<n>>) /\ forwards' = n
      /\ pos = Len(Model) => forwards < MaxForwards
      /\ UNCHANGED <<progVars, hookVars, storeVars, calls, wrote, seeds, got, mixed, apart>>
  BY DEF RunLayer
<1>2. TensorInv'
  BY RunLayerStep DEF TypedInv
<1>3. /\ mem \in Seq(Blocks) /\ scope \in Scopes /\ forwards \in Nat /\ pos \in 1 .. Len(Model)
  BY DEF TypedInv, TensorInv, MemInv
<1>4. at = 1 => pos = Len(Model)
  BY <1>3, Positions
<1>5. n \in Nat /\ n <= MaxForwards
  BY <1>1, <1>3, <1>4, TensorsAssumption DEF TypedInv, CountInv
<1> HIDE DEF at, n
<1>6. {"cpu", Device} \in SUBSET Devices /\ <<n>> \in Seq(Int)
  BY <1>3, <1>5, ScopeTypes DEF Devices
<1>7. OnDevices(made.mem, {"cpu", Device})
  BY <1>3, <1>6, NewOn DEF TypedInv, DeviceInv
<1>8. \A b \in 1 .. Len(mem) : made.mem[b] = mem[b]
  BY <1>3, <1>6, NewTensor
<1> HIDE DEF made
<1>9. scope' = scope
  BY <1>1 DEF progVars
<1>10. Stays /\ DeviceInv'
  <2>1. mem' \in Seq(Blocks) /\ Len(mem') >= Len(mem)
    BY RunLayerStep DEF TypedInv, MemGrows
  <2>2. Stays
    BY <1>1, <1>8, <2>1 DEF Stays
  <2>q. QED BY <1>1, <1>7, <1>9, <2>2 DEF DeviceInv, Device
<1>11. ActsInv' /\ PlacedInv' /\ GotInv'
  BY <1>1, <1>9, <1>10, StayTypes DEF storeVars
<1>12. CountInv'
  BY <1>1, <1>5 DEF TypedInv, CountInv, progVars, hookVars
<1>13. seeds' \cup wrote' \subseteq DOMAIN own'
  BY <1>1 DEF TypedInv, OwnAlso
<1>q. QED BY <1>2, <1>10, <1>11, <1>12, <1>13 DEF TypedInv

\* What stands in an accumulator after a hook has stored a.
LEMMA TakenEntries ==
  ASSUME MemInv, NEW l \in Layers, NEW a \in Nat, Takes(l, a)
  PROVE  /\ accum' \in [Layers -> Seq(Nat)]
         /\ \A k \in Layers : k # l => accum'[k] = accum[k]
         /\ Len(accum'[l]) = IF conf[l] = "none" \/ accum[l] = <<>> THEN Len(accum[l]) + 1
                             ELSE Len(accum[l])
         /\ Len(accum'[l]) >= 1 /\ accum'[l][Len(accum'[l])] = a
         /\ \A i \in 1 .. Len(accum'[l]) - 1 : i \in 1 .. Len(accum[l]) /\ accum'[l][i] = accum[l][i]
<1> DEFINE s == accum[l]
           t == IF conf[l] = "none" \/ s = <<>> THEN Append(s, a) ELSE [s EXCEPT ![Len(s)] = a]
<1>1. accum \in [Layers -> Seq(Nat)] /\ s \in Seq(Nat) /\ Len(s) \in Nat
  BY DEF MemInv, AccumInv
<1>2. accum' = [accum EXCEPT ![l] = t]
  BY DEF Takes, ReplaceAt
<1>3. /\ t \in Seq(Nat)
      /\ Len(t) = IF conf[l] = "none" \/ s = <<>> THEN Len(s) + 1 ELSE Len(s)
      /\ Len(t) >= 1 /\ t[Len(t)] = a
      /\ \A i \in 1 .. Len(t) - 1 : i \in 1 .. Len(s) /\ t[i] = s[i]
  <2>1. CASE conf[l] = "none" \/ s = <<>>
    <3>1. t = Append(s, a)
      BY <2>1
    <3> HIDE DEF t, s
    <3>q. QED BY <1>1, <2>1, <3>1
  <2>2. CASE ~ (conf[l] = "none" \/ s = <<>>)
    <3>1. t = [s EXCEPT ![Len(s)] = a]
      BY <2>2
    <3> HIDE DEF t, s
    <3>2. Len(s) \in 1 .. Len(s)
      BY <1>1, <2>2
    <3>3. t \in Seq(Nat) /\ Len(t) = Len(s)
      BY <1>1, <3>1, <3>2
    <3>4. \A i \in 1 .. Len(t) : t[i] = IF i = Len(s) THEN a ELSE s[i]
      BY <1>1, <3>1, <3>2, <3>3
    <3>5. Len(t) >= 1 /\ t[Len(t)] = a
      <4>1. Len(s) \in 1 .. Len(t)
        BY <3>2, <3>3
      <4>2. t[Len(s)] = a
        BY <3>4, <4>1, Zenon
      <4>3. Len(s) >= 1
        BY <3>2
      <4>q. QED BY <3>3, <4>2, <4>3, Zenon
    <3>6. ASSUME NEW i \in 1 .. Len(t) - 1 PROVE i \in 1 .. Len(s) /\ t[i] = s[i]
      <4>1. i \in 1 .. Len(s) /\ i # Len(s)
        BY <1>1, <3>3
      <4>q. QED BY <3>3, <3>4, <4>1
    <3>q. QED BY <2>2, <3>3, <3>5, <3>6, Zenon DEF s
  <2>q. QED BY <2>1, <2>2
<1> HIDE DEF t
<1>4. /\ accum' \in [Layers -> Seq(Nat)] /\ accum'[l] = t
      /\ \A k \in Layers : k # l => accum'[k] = accum[k]
  BY <1>1, <1>2, <1>3
<1>q. QED BY <1>3, <1>4

LEMMA TouchesStays ==
  ASSUME NEW l, Touches(l)
  PROVE  Stays
<1>1. ASSUME NEW b \in 1 .. Len(mem) PROVE mem'[b].dev = mem[b].dev
  <2>1. mem'[b] = mem[b] \/ mem'[b] = Block(Value(l), mem[b].dev)
    BY DEF Touches
  <2>2. \A d : Block(Value(l), d).dev = d
    BY DEF Block
  <2>q. QED BY <2>1, <2>2, Zenon
<1>q. QED BY <1>1 DEF Touches, Stays

LEMMA TypedHook ==
  ASSUME TypedInv, HookCallback
  PROVE  TypedInv'
<1> DEFINE l == Current
           r == InHand(l)
           D == {"cpu", Device}
<1>1. TensorInv /\ MemInv /\ mem \in Seq(Blocks) /\ scope \in Scopes
  BY DEF TypedInv, TensorInv, MemInv
<1>2. /\ l \in Layers /\ Touches(l) /\ Reduced(l, r)
      /\ UNCHANGED <<scope, reg, params, pos, out, hookVars, acts, counters, ghosts>>
      /\ mem' = r.mem \/ mem' = ToDevice(r, "cpu").mem
      /\ scope.storage = "DISK" => accum' = accum
      /\ scope.storage # "DISK" => mem' = r.mem /\ Takes(l, r.at)
  BY <1>1, HookEffect
<1> HIDE DEF l
<1>3. OnDevices(r.mem, D) /\ (MovesToCpu => r.mem[r.at].dev = "cpu")
  BY <1>1, <1>2, InHandOn DEF TypedInv, DeviceInv
<1> HIDE DEF r
<1>4. OnDevices(mem', D)
  <2>1. Fits(r) /\ D \in SUBSET Devices
    BY <1>1, <1>2, ScopeTypes DEF Reduced, Devices
  <2> HIDE DEF D
  <2>2. "cpu" \in D
    BY DEF D
  <2>q. QED BY <1>2, <1>3, <2>1, <2>2, ToDeviceOn
<1>5. DeviceInv' /\ Stays
  BY <1>2, <1>4, TouchesStays DEF DeviceInv, Device
<1>6. /\ ActsInv' /\ GotInv'
      /\ \A n : n \in 1 .. Len(mem) => n \in 1 .. Len(mem')
  BY <1>2, <1>5, StayTypes DEF ghosts
<1>7. PlacedInv'
  <2>1. CASE scope.storage = "DISK"
    BY <1>2, <1>5, <2>1, StayTypes
  <2>2. CASE scope.storage # "DISK"
    <3> SUFFICES ASSUME MovesToCpu, NEW k \in Layers, NEW i \in 1 .. Len(accum'[k])
                 PROVE  mem'[accum'[k][i]].dev = "cpu"
      BY <1>2 DEF PlacedInv, MovesToCpu
    <3>1. r.at \in 1 .. Len(r.mem) /\ r.at \in Nat
      BY <1>2 DEF Reduced, Fits
    <3>2. /\ accum' \in [Layers -> Seq(Nat)]
          /\ \A j \in Layers : j # l => accum'[j] = accum[j]
          /\ accum'[l][Len(accum'[l])] = r.at
          /\ \A j \in 1 .. Len(accum'[l]) - 1 : j \in 1 .. Len(accum[l]) /\ accum'[l][j] = accum[l][j]
      BY <1>1, <1>2, <2>2, <3>1, TakenEntries
    <3>3. ASSUME NEW n \in Nat, NEW j \in Layers, NEW m \in 1 .. Len(accum[j]), n = accum[j][m]
          PROVE  mem'[n].dev = "cpu"
      BY <1>1, <1>5, <3>3 DEF TypedInv, PlacedInv, MemInv, AccumInv, Stays
    <3>4. CASE k = l /\ i = Len(accum'[l])
      BY <1>2, <1>3, <2>2, <3>2, <3>4
    <3>5. CASE k # l \/ i # Len(accum'[l])
      <4>1. accum'[k] \in Seq(Nat)
        BY <3>2
      <4>2. i \in 1 .. Len(accum[k]) /\ accum'[k][i] = accum[k][i] /\ accum'[k][i] \in Nat
        BY <3>2, <3>5, <4>1
      <4>q. QED BY <3>3, <4>2
    <3>q. QED BY <3>4, <3>5
  <2>q. QED BY <2>1, <2>2
<1>8. torn' = torn \/ (torn < MaxTorn /\ torn' = torn + 1)
  BY DEF HookCallback, ToFile, ToMemory
<1>9. CountInv'
  BY <1>2, <1>8, TensorsAssumption DEF TypedInv, CountInv, hookVars, counters
<1>10. TensorInv'
  BY <1>1, HookCallbackStep
<1>q. QED BY <1>2, <1>5, <1>6, <1>7, <1>9, <1>10 DEF TypedInv, ghosts

\* The copy the pure Python tracker keeps: the activation's batches, on the host.
Copied == Detached(ToDevice([mem |-> mem, at |-> out], "cpu"))

LEMMA NaiveEffect ==
  ASSUME TypedInv
  PROVE  /\ Fits(Copied) /\ Len(Copied.mem) >= Len(mem)
         /\ \A b \in 1 .. Len(mem) : Copied.mem[b] = mem[b]
         /\ Copied.mem[Copied.at].batches = mem[out].batches
         /\ Copied.at = out \/ Copied.at > Len(mem)
         /\ OnDevices(Copied.mem, {"cpu", Device})
         /\ Copied.mem[Copied.at].dev = "cpu"
<1> DEFINE start == [mem |-> mem, at |-> out]
           copy == ToDevice(start, "cpu")
           D == {"cpu", Device}
<1>1. Fits(start) /\ OnDevices(start.mem, D) /\ D \in SUBSET Devices
  BY ScopeTypes DEF TypedInv, TensorInv, MemInv, Fits, DeviceInv, Devices
<1> HIDE DEF D
<1>2. "cpu" \in D /\ "cpu" \in Devices
  BY DEF D, Devices
<1> HIDE DEF start
<1>3. Copies(start, copy) /\ OnDevices(copy.mem, D) /\ copy.mem[copy.at].dev = "cpu"
  BY <1>1, <1>2, ToDeviceCopies, ToDeviceOn
<1> HIDE DEF copy
<1>4. Fits(copy)
  BY <1>3 DEF Copies
<1>5. /\ Copies(copy, Detached(copy)) /\ OnDevices(Detached(copy).mem, D)
      /\ Detached(copy).mem[Detached(copy).at].dev = "cpu"
  BY <1>1, <1>3, <1>4, DetachedOn
<1>6. Copied = Detached(copy)
  BY DEF Copied, copy, start
<1>7. Copies(start, Copied)
  BY <1>1, <1>3, <1>5, <1>6, CopiesOnce
<1>8. start.mem = mem /\ start.at = out
  BY DEF start
<1>q. QED BY <1>5, <1>6, <1>7, <1>8 DEF Copies, D

LEMMA TypedNaive ==
  ASSUME TypedInv, NaiveHook
  PROVE  TypedInv'
<1>1. /\ UNCHANGED <<progVars, out, hookVars, accum, files, counters, own, wrote, seeds, got, mixed>>
      /\ \/ /\ Current \in DOMAIN acts /\ mem' = Copied.mem
            /\ acts' = [acts EXCEPT ![Current] = Append(@, Copied.at)]
         \/ acts' = acts /\ mem' = mem
  BY DEF NaiveHook, Copied
<1>2. TensorInv' /\ mem' \in Seq(Blocks) /\ Len(mem') >= Len(mem)
  BY NaiveHookStep DEF TypedInv, MemGrows
<1>3. /\ Fits(Copied) /\ OnDevices(Copied.mem, {"cpu", Device})
      /\ \A b \in 1 .. Len(mem) : Copied.mem[b] = mem[b]
      /\ Copied.mem[Copied.at].dev = "cpu"
  BY NaiveEffect
<1>4. scope' = scope
  BY <1>1 DEF progVars
<1>5. Stays /\ DeviceInv'
  <2>1. CASE mem' = mem
    BY <1>4, <2>1, SameStays
  <2>2. CASE mem' = Copied.mem
    BY <1>2, <1>3, <1>4, <2>2 DEF Stays, DeviceInv, Device
  <2>q. QED BY <1>1, <2>1, <2>2
<1>6. /\ PlacedInv' /\ GotInv' /\ (acts' = acts => ActsInv')
      /\ \A n : n \in 1 .. Len(mem) => n \in 1 .. Len(mem')
  BY <1>1, <1>4, <1>5, StayTypes
<1>7. ActsInv'
  <2>1. SUFFICES ASSUME Current \in DOMAIN acts, mem' = Copied.mem,
                        acts' = [acts EXCEPT ![Current] = Append(@, Copied.at)]
                 PROVE  ActsInv'
    BY <1>1, <1>6
  <2> DEFINE l == Current  a == Copied.at  s == acts[l]  t == Append(s, a)
  <2>2. s \in Seq(Nat) /\ a \in 1 .. Len(mem') /\ a \in Nat
    BY <1>3, <2>1 DEF TypedInv, ActsInv, Fits
  <2>3. mem'[a].dev = "cpu"
    BY <1>3, <2>1
  <2>4. \A i \in 1 .. Len(s) : s[i] \in 1 .. Len(mem') /\ mem'[s[i]].dev = "cpu"
    BY <1>5, <1>6, <2>1 DEF TypedInv, ActsInv, Stays
  <2> HIDE DEF a, s
  <2>5. t \in Seq(Nat) /\ Len(t) = Len(s) + 1 /\ t[Len(s) + 1] = a
        /\ \A i \in 1 .. Len(s) : t[i] = s[i]
    BY <2>2
  <2>6. \A i \in 1 .. Len(t) : i = Len(s) + 1 \/ i \in 1 .. Len(s)
    BY <2>2, <2>5
  <2> HIDE DEF t
  <2>7. \A i \in 1 .. Len(t) : t[i] \in 1 .. Len(mem') /\ mem'[t[i]].dev = "cpu"
    BY <2>2, <2>3, <2>4, <2>5, <2>6, Zenon
  <2>8. acts' = [acts EXCEPT ![l] = t]
    BY <2>1 DEF t, s, a
  <2>9. acts = [k \in DOMAIN acts |-> acts[k]] /\ DOMAIN acts \subseteq Layers
    BY DEF TypedInv, ActsInv
  <2>10. /\ DOMAIN acts' = DOMAIN acts /\ acts' = [k \in DOMAIN acts' |-> acts'[k]]
         /\ acts'[l] = t /\ \A k \in DOMAIN acts : k # l => acts'[k] = acts[k]
    BY <2>1, <2>8, <2>9
  <2>11. ASSUME NEW k \in DOMAIN acts, k # l
         PROVE  /\ acts'[k] \in Seq(Nat)
                /\ \A i \in 1 .. Len(acts'[k]) :
                     acts'[k][i] \in 1 .. Len(mem') /\ mem'[acts'[k][i]].dev = "cpu"
    <3>1. acts'[k] = acts[k]
      BY <2>10, <2>11
    <3>q. QED BY <1>5, <1>6, <3>1 DEF TypedInv, ActsInv, Stays
  <2> HIDE DEF l
  <2>q. QED BY <2>5, <2>7, <2>9, <2>10, <2>11 DEF ActsInv
<1>8. CountInv'
  BY <1>1 DEF TypedInv, CountInv, progVars, hookVars, counters
<1>9. seeds' \cup wrote' \subseteq DOMAIN own'
  BY <1>1 DEF TypedInv
<1>q. QED BY <1>2, <1>5, <1>6, <1>7, <1>8, <1>9 DEF TypedInv

LEMMA GrowsStays ==
  ASSUME MemGrows
  PROVE  Stays
BY DEF MemGrows, Stays

\* A step of the program's that touches no tensor.
LEMMA TypedSame ==
  ASSUME TypedInv, TensorInv', CountInv',
         UNCHANGED <<scope, mem, accum, acts, got, own, seeds, wrote>>
  PROVE  TypedInv'
<1>1. Stays /\ DeviceInv'
  BY SameStays
<1>2. ActsInv' /\ PlacedInv' /\ GotInv'
  BY <1>1, StayTypes
<1>3. seeds' \cup wrote' \subseteq DOMAIN own'
  BY DEF TypedInv
<1>q. QED BY <1>1, <1>2, <1>3 DEF TypedInv

LEMMA TypedForwardRaises ==
  ASSUME TypedInv, ForwardRaises
  PROVE  TypedInv'
<1>1. TensorInv'
  BY ForwardRaisesStep DEF TypedInv
<1>2. /\ UNCHANGED <<scope, mem, accum, acts, got, own, seeds, wrote>>
      /\ UNCHANGED <<depth, calls, torn, forwards>>
  BY DEF ForwardRaises, progVars, hookVars, storeVars, counters, ghosts
<1>3. CountInv'
  BY <1>2 DEF TypedInv, CountInv
<1>q. QED BY <1>1, <1>2, <1>3, TypedSame

LEMMA TypedRegister ==
  ASSUME TypedInv, NEW kind \in Kinds, RegisterReduction(kind)
  PROVE  TypedInv'
<1>1. TensorInv'
  BY RegisterReductionStep DEF TypedInv
<1>2. /\ UNCHANGED <<scope, mem, accum, acts, got, own, seeds, wrote>>
      /\ UNCHANGED <<depth, torn, forwards>> /\ calls < MaxCalls /\ calls' = calls + 1
  BY DEF RegisterReduction, Call, hookVars, storeVars, ghosts
<1>3. CountInv'
  BY <1>2, TensorsAssumption DEF TypedInv, CountInv
<1>q. QED BY <1>1, <1>2, <1>3, TypedSame

LEMMA TypedAttach ==
  ASSUME TypedInv, NEW targets, Attach(targets)
  PROVE  TypedInv'
<1>1. TensorInv'
  BY AttachStep DEF TypedInv
<1>2. /\ UNCHANGED <<scope, mem, accum, acts, got, own, seeds, wrote>>
      /\ UNCHANGED <<depth, torn, forwards>> /\ calls < MaxCalls /\ calls' = calls + 1
  BY DEF Attach, Call, RegisterHooks, progVars
<1>3. CountInv'
  BY <1>2, TensorsAssumption DEF TypedInv, CountInv
<1>q. QED BY <1>1, <1>2, <1>3, TypedSame

LEMMA TypedEnterTrack ==
  ASSUME TypedInv, NEW targets \in Targets, EnterTrack(targets)
  PROVE  TypedInv'
<1>1. TensorInv'
  BY EnterTrackStep DEF TypedInv
<1>2. /\ accum' = Cleared /\ acts' = FreshLists(targets)
      /\ UNCHANGED <<scope, mem, got, own, seeds, wrote, torn, forwards>>
      /\ calls < MaxCalls /\ calls' = calls + 1 /\ depth < MaxDepth /\ depth' = depth + 1
  BY DEF EnterTrack, Call, RegisterHooks, progVars
<1>3. CountInv'
  BY <1>2, TensorsAssumption DEF TypedInv, CountInv
<1>4. Stays /\ DeviceInv'
  BY <1>2, SameStays
<1>5. GotInv'
  BY <1>2, <1>4, StayTypes
<1>6. ActsInv'
  <2>1. targets \subseteq Layers
    BY TensorsAssumption
  <2>2. /\ DOMAIN acts' = targets /\ acts' = [l \in DOMAIN acts' |-> acts'[l]]
        /\ \A l \in targets : acts'[l] = <<>>
    BY <1>2 DEF FreshLists
  <2>3. <<>> \in Seq(Nat) /\ \A i \in 1 .. Len(<<>>) : FALSE
    OBVIOUS
  <2>4. \A l \in DOMAIN acts' :
          /\ acts'[l] \in Seq(Nat)
          /\ \A i \in 1 .. Len(acts'[l]) :
               acts'[l][i] \in 1 .. Len(mem') /\ mem'[acts'[l][i]].dev = "cpu"
    BY <2>2, <2>3, Zenon
  <2>5. DOMAIN acts' \subseteq Layers
    BY <2>1, <2>2
  <2>q. QED BY <2>2, <2>4, <2>5, Zenon DEF ActsInv
<1>7. PlacedInv'
  <2>1. \A l \in Layers : accum'[l] = <<>>
    BY <1>2 DEF Cleared
  <2>q. QED BY <2>1 DEF PlacedInv
<1>8. seeds' \cup wrote' \subseteq DOMAIN own'
  BY <1>2 DEF TypedInv
<1>q. QED BY <1>1, <1>3, <1>4, <1>5, <1>6, <1>7, <1>8 DEF TypedInv

LEMMA TypedExitTrack ==
  ASSUME TypedInv, ExitTrack
  PROVE  TypedInv'
<1>1. TensorInv'
  BY ExitTrackStep DEF TypedInv
<1>2. /\ UNCHANGED <<scope, mem, accum, acts, got, own, seeds, wrote>>
      /\ UNCHANGED <<calls, torn, forwards>> /\ depth > 0 /\ depth' = depth - 1
  BY DEF ExitTrack, progVars, storeVars, counters
<1>3. CountInv'
  BY <1>2, TensorsAssumption DEF TypedInv, CountInv
<1>q. QED BY <1>1, <1>2, <1>3, TypedSame

LEMMA TypedInitAccumulator ==
  ASSUME TypedInv, NEW l \in Layers, InitAccumulator(l)
  PROVE  TypedInv'
<1> DEFINE seed == New(mem, <<Seed>>, "cpu")
           D == {"cpu", Device}
<1>1. TensorInv' /\ MemGrows
  BY InitAccumulatorStep DEF TypedInv
<1>2. /\ mem' = seed.mem /\ accum' = [accum EXCEPT ![l] = <<seed.at>>]
      /\ own' = OwnAlso(seed.at, <<Seed>>) /\ seeds' = {seed.at}
      /\ UNCHANGED <<scope, acts, got, wrote, depth, torn, forwards>>
      /\ calls < MaxCalls /\ calls' = calls + 1
  BY DEF InitAccumulator, Call, progVars, hookVars
<1>3. MemInv /\ mem \in Seq(Blocks) /\ scope \in Scopes /\ accum \in [Layers -> Seq(Nat)]
  BY DEF TypedInv, TensorInv, MemInv, AccumInv
<1>4. <<Seed>> \in Seq(Int) /\ "cpu" \in Devices
  BY DEF Seed, Devices
<1>5. D \in SUBSET Devices /\ "cpu" \in D
  BY <1>3, ScopeTypes DEF Devices
<1> HIDE DEF D
<1>6. OnDevices(mem, D)
  BY DEF TypedInv, DeviceInv, D
<1>7. OnDevices(seed.mem, D) /\ seed.mem[seed.at].dev = "cpu"
  BY <1>3, <1>4, <1>5, <1>6, NewOn
<1>8. seed.at = Len(mem) + 1 /\ seed.at \in 1 .. Len(seed.mem)
  BY <1>3, <1>4, NewTensor DEF Fits
<1> HIDE DEF seed
<1>9. Stays
  BY <1>1, GrowsStays
<1>10. DeviceInv'
  BY <1>2, <1>7 DEF DeviceInv, Device, D
<1>11. /\ ActsInv' /\ GotInv'
       /\ \A n : n \in 1 .. Len(mem) => n \in 1 .. Len(mem')
  BY <1>2, <1>9, StayTypes
<1>12. PlacedInv'
  <2> SUFFICES ASSUME MovesToCpu, NEW k \in Layers, NEW i \in 1 .. Len(accum'[k])
               PROVE  mem'[accum'[k][i]].dev = "cpu"
    BY <1>2 DEF PlacedInv, MovesToCpu
  <2>1. accum'[l] = <<seed.at>> /\ \A j \in Layers : j # l => accum'[j] = accum[j]
    BY <1>2, <1>3
  <2>2. CASE k = l
    <3>1. i = 1
      <4>1. \A x : Len(<<x>>) = 1
        OBVIOUS
      <4>2. Len(accum'[k]) = 1
        BY <2>1, <2>2, <4>1, Zenon
      <4>q. QED BY <4>2
    <3>2. <<seed.at>>[1] = seed.at
      OBVIOUS
    <3>3. accum'[k][i] = seed.at
      BY <2>1, <2>2, <3>1, <3>2, Zenon
    <3>q. QED BY <1>2, <1>7, <3>3
  <2>3. CASE k # l
    <3>1. accum'[k] = accum[k]
      BY <2>1, <2>3
    <3>2. accum[k][i] \in 1 .. Len(mem) /\ mem[accum[k][i]].dev = "cpu"
      BY <1>3, <3>1 DEF TypedInv, PlacedInv, MemInv, AccumInv
    <3>q. QED BY <1>9, <3>1, <3>2 DEF Stays
  <2>q. QED BY <2>2, <2>3
<1>13. CountInv'
  BY <1>2, TensorsAssumption DEF TypedInv, CountInv
<1>14. seeds' \cup wrote' \subseteq DOMAIN own'
  <2>1. DOMAIN own' = DOMAIN own \cup {seed.at}
    BY <1>2 DEF OwnAlso
  <2>q. QED BY <1>2, <2>1 DEF TypedInv
<1>q. QED BY <1>1, <1>10, <1>11, <1>12, <1>13, <1>14 DEF TypedInv

LEMMA TypedOverwrite ==
  ASSUME TypedInv, NEW b \in DOMAIN own, Overwrite(b)
  PROVE  TypedInv'
<1>1. TensorInv' /\ MemInv /\ mem \in Seq(Blocks) /\ Len(mem) \in Nat
  BY OverwriteStep DEF TypedInv, TensorInv, MemInv
<1>2. b \in 1 .. Len(mem)
  BY <1>1 DEF MemInv, OwnInv
<1>3. /\ mem' = [mem EXCEPT ![b].batches = Append(@, Scribble)]
      /\ own' = [own EXCEPT ![b] = Append(@, Scribble)] /\ wrote' = wrote \cup {b}
      /\ UNCHANGED <<scope, accum, acts, got, seeds, depth, calls, torn, forwards>>
  BY DEF Overwrite, progVars, hookVars, storeVars, counters
<1> DEFINE old == mem[b]
           block == [old EXCEPT !.batches = Append(old.batches, Scribble)]
<1>4. mem' = [mem EXCEPT ![b] = block]
  BY <1>3
<1>5. old \in Blocks
  BY <1>1, <1>2
<1> HIDE DEF old
<1>6. block.dev = old.dev
  BY <1>5 DEF Blocks
<1> HIDE DEF block
<1>7. Len(mem') = Len(mem) /\ \A c \in 1 .. Len(mem) : mem'[c] = IF c = b THEN block ELSE mem[c]
  BY <1>1, <1>2, <1>4
<1>8. \A c \in 1 .. Len(mem) : mem'[c].dev = mem[c].dev
  BY <1>6, <1>7 DEF old
<1>9. mem' \in Seq(Blocks)
  BY <1>1 DEF TensorInv, MemInv
<1>10. Stays
  BY <1>1, <1>7, <1>8, <1>9 DEF Stays
<1>11. DeviceInv'
  BY <1>3, <1>7, <1>8 DEF TypedInv, DeviceInv, OnDevices, Device
<1>12. ActsInv' /\ PlacedInv' /\ GotInv'
  BY <1>3, <1>10, StayTypes
<1>13. CountInv'
  BY <1>3 DEF TypedInv, CountInv
<1>14. seeds' \cup wrote' \subseteq DOMAIN own'
  BY <1>3 DEF TypedInv
<1>q. QED BY <1>1, <1>11, <1>12, <1>13, <1>14 DEF TypedInv

LEMMA TypedReadback ==
  ASSUME TypedInv, Readback
  PROVE  TypedInv'
<1>1. TensorInv'
  BY ReadbackStep DEF TypedInv
<1>2. /\ got' = got \cup UNION {{Handed(l, b) : b \in Range(accum[l])} : l \in Layers}
      /\ UNCHANGED <<scope, mem, accum, acts, own, seeds, wrote, depth, torn, forwards>>
      /\ calls < MaxCalls /\ calls' = calls + 1
  BY DEF Readback, Call, progVars, hookVars, storeVars
<1>3. Stays /\ DeviceInv'
  BY <1>2, SameStays
<1>4. ActsInv' /\ PlacedInv'
  BY <1>2, <1>3, StayTypes
<1>5. GotInv'
  <2> SUFFICES ASSUME NEW g \in got' PROVE g.at \in 1 .. Len(mem)
    BY <1>2 DEF GotInv
  <2>1. CASE g \in got
    BY <2>1 DEF TypedInv, GotInv
  <2>2. CASE g \notin got
    <3>1. PICK l \in Layers : g \in {Handed(l, b) : b \in Range(accum[l])}
      BY <1>2, <2>2
    <3>2. PICK b \in Range(accum[l]) : g = Handed(l, b)
      BY <3>1
    <3>3. g.at = b
      BY <3>2 DEF Handed
    <3>4. accum[l] \in Seq(Nat)
      BY DEF TypedInv, TensorInv, MemInv, AccumInv
    <3>5. PICK i \in 1 .. Len(accum[l]) : b = accum[l][i]
      BY <3>4 DEF Range
    <3>q. QED BY <3>3, <3>5 DEF TypedInv, TensorInv, MemInv, AccumInv
  <2>q. QED BY <2>1, <2>2
<1>6. CountInv'
  BY <1>2, TensorsAssumption DEF TypedInv, CountInv
<1>7. seeds' \cup wrote' \subseteq DOMAIN own'
  BY <1>2 DEF TypedInv
<1>q. QED BY <1>1, <1>3, <1>4, <1>5, <1>6, <1>7 DEF TypedInv

\* The copy of the parameter: new, on the host, with its batches.
ParamCopy == Clone(ToDevice([mem |-> mem, at |-> params], "cpu"))

LEMMA CaptureEffect ==
  ASSUME TypedInv
  PROVE  /\ Fits(ParamCopy) /\ ParamCopy.at > Len(mem)
         /\ ParamCopy.mem[ParamCopy.at].batches = mem[params].batches
         /\ OnDevices(ParamCopy.mem, {"cpu", Device})
<1> DEFINE start == [mem |-> mem, at |-> params]
           host == ToDevice(start, "cpu")
           D == {"cpu", Device}
<1>1. Fits(start) /\ OnDevices(start.mem, D) /\ D \in SUBSET Devices
  BY ScopeTypes DEF TypedInv, TensorInv, MemInv, Fits, DeviceInv, Devices
<1> HIDE DEF D
<1>2. "cpu" \in D /\ "cpu" \in Devices
  BY DEF D, Devices
<1> HIDE DEF start
<1>3. Copies(start, host) /\ OnDevices(host.mem, D)
  BY <1>1, <1>2, ToDeviceCopies, ToDeviceOn
<1> HIDE DEF host
<1>4. Fits(host)
  BY <1>3 DEF Copies
<1>5. /\ Copies(host, Clone(host)) /\ Clone(host).at > Len(host.mem)
      /\ OnDevices(Clone(host).mem, D)
  BY <1>1, <1>3, <1>4, CloneCopies, CloneOn
<1>6. ParamCopy = Clone(host)
  BY DEF ParamCopy, host, start
<1>7. start.mem = mem /\ start.at = params
  BY DEF start
<1>8. Len(host.mem) >= Len(mem) /\ Len(host.mem) \in Nat /\ Len(mem) \in Nat
  BY <1>1, <1>3, <1>7 DEF Copies, Fits
<1>9. ParamCopy.at > Len(mem)
  <2>1. ParamCopy.at \in Nat
    BY <1>5, <1>6 DEF Copies, Fits
  <2>q. QED BY <1>5, <1>6, <1>8, <2>1
<1>10. Copies(start, ParamCopy)
  BY <1>1, <1>3, <1>5, <1>6, CopiesOnce
<1>q. QED BY <1>5, <1>6, <1>7, <1>9, <1>10 DEF Copies, D

LEMMA TypedCapture ==
  ASSUME TypedInv, CaptureParameters
  PROVE  TypedInv'
<1>1. TensorInv' /\ MemGrows
  BY CaptureParametersStep DEF TypedInv
<1>2. /\ mem' = ParamCopy.mem
      /\ got' = got \cup {[Handed(NoLayer, params) EXCEPT !.at = ParamCopy.at]}
      /\ UNCHANGED <<scope, accum, acts, own, seeds, wrote, depth, torn, forwards>>
      /\ calls < MaxCalls /\ calls' = calls + 1
  BY DEF CaptureParameters, ParamCopy, Call, progVars, hookVars, storeVars
<1>3. Fits(ParamCopy) /\ OnDevices(ParamCopy.mem, {"cpu", Device})
  BY CaptureEffect
<1>4. Stays /\ DeviceInv'
  BY <1>1, <1>2, <1>3, GrowsStays DEF DeviceInv, Device
<1>5. /\ ActsInv' /\ PlacedInv'
      /\ \A n : n \in 1 .. Len(mem) => n \in 1 .. Len(mem')
  BY <1>2, <1>4, StayTypes
<1>6. GotInv'
  <2>1. [Handed(NoLayer, params) EXCEPT !.at = ParamCopy.at].at = ParamCopy.at
    BY DEF Handed
  <2>2. ParamCopy.at \in 1 .. Len(mem')
    BY <1>2, <1>3 DEF Fits
  <2>q. QED BY <1>2, <1>5, <2>1, <2>2 DEF TypedInv, GotInv
<1>7. CountInv'
  BY <1>2, TensorsAssumption DEF TypedInv, CountInv
<1>8. seeds' \cup wrote' \subseteq DOMAIN own'
  BY <1>2 DEF TypedInv
<1>q. QED BY <1>1, <1>4, <1>5, <1>6, <1>7, <1>8 DEF TypedInv

LEMMA TypedStep ==
  ASSUME TypedInv, [Next]_vars
  PROVE  TypedInv'
<1>1. CASE UNCHANGED vars
  <2>1. TensorInv'
    BY <1>1, TensorStep DEF TypedInv
  <2>2. /\ UNCHANGED <<scope, mem, accum, acts, got, own, seeds, wrote>>
        /\ UNCHANGED <<depth, calls, torn, forwards>>
    BY <1>1 DEF vars, progVars, ghosts, hookVars, storeVars, counters
  <2>3. CountInv'
    BY <2>2 DEF TypedInv, CountInv
  <2>q. QED BY <2>1, <2>2, <2>3, TypedSame
<1>2. CASE RunLayer \/ HookCallback \/ NaiveHook \/ ForwardRaises
  BY <1>2, TypedRunLayer, TypedHook, TypedNaive, TypedForwardRaises
<1>3. ASSUME NEW kind \in Kinds \ {"none"}, RegisterReduction(kind) PROVE TypedInv'
  BY <1>3, TypedRegister
<1>4. ASSUME NEW targets \in Targets, Attach(targets) \/ EnterTrack(targets) PROVE TypedInv'
  BY <1>4, TypedAttach, TypedEnterTrack
<1>5. ASSUME NEW l \in Layers, InitAccumulator(l) PROVE TypedInv'
  BY <1>5, TypedInitAccumulator
<1>6. ASSUME NEW b \in DOMAIN own, Overwrite(b) PROVE TypedInv'
  BY <1>6, TypedOverwrite
<1>7. CASE ExitTrack \/ Readback \/ CaptureParameters
  BY <1>7, TypedExitTrack, TypedReadback, TypedCapture
<1>q. QED BY <1>1, <1>2, <1>3, <1>4, <1>5, <1>6, <1>7 DEF Next, Finished

\* Accumulators, lists and readbacks hold tensors that exist, each where the
\* storage policy puts it (storage_policy.h, callback.cpp:106).
THEOREM TensorTypes == Spec => []TypeOK
<1>1. Init => TypedInv
  BY TypedInit
<1>2. TypedInv /\ [Next]_vars => TypedInv'
  BY TypedStep
<1>q. QED BY <1>1, <1>2, TypedImplies, PTL DEF Spec

-----------------------------------------------------------------------------
(***************************************************************************)
(* What was handed out.                                                    *)
(***************************************************************************)

\* Tensor b stands in layer l's accumulator.
Holds(store, l, b) == \E i \in 1 .. Len(store[l]) : store[l][i] = b

\* There is one registered reduction, and a layer with a reduction has that one.
KindInv == \A l \in Layers : conf[l] # "none" => conf[l] = reg

\* The activation of the layer whose hooks are being called is as the layer
\* made it; only that layer holds it, raw, and nobody was handed it.
OutInv ==
  due # <<>> =>
    /\ out \in DOMAIN own /\ own[out] = <<forwards>> /\ mem[out] = Block(<<forwards>>, Device)
    /\ \A l \in Layers : Holds(accum, l, out) => l = Current /\ conf[l] = "none"
    /\ \A g \in got : g.at # out

\* No tensor is in the accumulators of two layers.
Disjoint ==
  \A k, l \in Layers : \A b \in 1 .. Len(mem) : Holds(accum, k, b) /\ Holds(accum, l, b) => k = l

\* What was handed out for a layer is in no other layer's accumulator, and is
\* the program's only if it is shared.
GivenInv ==
  \A g \in got :
    /\ g.layer \in Layers \cup {NoLayer} /\ g.batches \in Seq(Int)
    /\ \A l \in Layers : Holds(accum, l, g.at) => l = g.layer
    /\ g.at \in DOMAIN own => g.layer # NoLayer /\ (scope.mode = "REFERENCE" \/ g.at \in seeds)

\* Tensor b may be the running value of an in-place reduction, and is nothing else.
Spoiled(b) ==
  /\ \A l \in Layers : Holds(accum, l, b) => conf[l] = "max"
  /\ \A g \in got : g.at = b => g.layer \in Layers /\ conf[g.layer] = "max"
  /\ due # <<>> => b # out

\* A tensor of the program's holds what the program last wrote to it, unless
\* it is a running value.
SpoilInv == \A b \in DOMAIN own : mem[b].batches = own[b] \/ Spoiled(b)

Starts(s, t) == Len(s) <= Len(t) /\ \A i \in 1 .. Len(s) : t[i] = s[i]

\* HandedStable, with the prefix in every case.
ValueInv ==
  \A g \in got :
    /\ Starts(g.batches, mem[g.at].batches)
    /\ \/ mem[g.at].batches = g.batches
       \/ g.at \in DOMAIN own /\ mem[g.at].batches = own[g.at]
       \/ g.layer \in Layers /\ conf[g.layer] = "max"

HandInv == KindInv /\ OutInv /\ Disjoint /\ GivenInv /\ SpoilInv /\ ValueInv

LEMMA StartsPrefix ==
  ASSUME NEW s \in Seq(Int), NEW t \in Seq(Int), Starts(s, t)
  PROVE  IsPrefix(s, t)
<1>1. Len(s) \in Nat /\ Len(t) \in Nat /\ Len(s) <= Len(t)
  BY DEF Starts
<1>2. SubSeq(s, 1, Len(s)) = s
  OBVIOUS
<1>3. SubSeq(t, 1, Len(s)) = s
  BY <1>1 DEF Starts
<1>q. QED BY <1>1, <1>2, <1>3 DEF IsPrefix

LEMMA HandImplies == TypedInv /\ HandInv => HandedStable
<1> SUFFICES ASSUME TypedInv, HandInv, NEW g \in got
             PROVE  LET now == mem[g.at].batches IN
                    \/ now = g.batches
                    \/ /\ g.layer # NoLayer
                       /\ \/ /\ scope.mode = "REFERENCE" \/ g.at \in seeds
                             /\ g.at \in DOMAIN own /\ now = own[g.at]
                          \/ conf[g.layer] = "max" /\ IsPrefix(g.batches, now)
  BY DEF HandedStable
<1>1. g.at \in 1 .. Len(mem) /\ mem \in Seq(Blocks)
  BY DEF TypedInv, GotInv, TensorInv, MemInv
<1>2. mem[g.at] \in Blocks
  BY <1>1
<1>3. mem[g.at].batches \in Seq(Int)
  BY <1>2 DEF Blocks
<1>4. Starts(g.batches, mem[g.at].batches) /\ g.batches \in Seq(Int)
  BY DEF HandInv, ValueInv, GivenInv
<1>5. IsPrefix(g.batches, mem[g.at].batches)
  BY <1>3, <1>4, StartsPrefix
<1>6. CASE mem[g.at].batches = g.batches
  BY <1>6
<1>7. CASE g.at \in DOMAIN own /\ mem[g.at].batches = own[g.at]
  <2>1. g.layer # NoLayer /\ (scope.mode = "REFERENCE" \/ g.at \in seeds)
    BY <1>7 DEF HandInv, GivenInv
  <2>q. QED BY <1>7, <2>1
<1>8. CASE g.layer \in Layers /\ conf[g.layer] = "max"
  BY <1>5, <1>8, TensorsAssumption
<1>q. QED BY <1>6, <1>7, <1>8 DEF HandInv, ValueInv

LEMMA HandInit ==
  ASSUME Init
  PROVE  HandInv
<1>1. got = {} /\ due = <<>> /\ own = [b \in {params} |-> <<Baseline>>] /\ params = 1
      /\ mem = << Block(<<Baseline>>, Device) >>
      /\ \A l \in Layers : conf[l] = "none" /\ accum[l] = <<>>
  BY DEF Init
<1>2. ASSUME NEW l \in Layers, NEW b PROVE ~ Holds(accum, l, b)
  <2>1. accum[l] = <<>> /\ Len(<<>>) = 0
    BY <1>1
  <2>q. QED BY <2>1 DEF Holds
<1>3. mem[1].batches = <<Baseline>>
  <2>1. mem[1] = Block(<<Baseline>>, Device)
    BY <1>1
  <2>q. QED BY <2>1 DEF Block
<1>4. SpoilInv
  BY <1>1, <1>3 DEF SpoilInv
<1>q. QED
  BY <1>1, <1>2, <1>4 DEF HandInv, KindInv, OutInv, Disjoint, GivenInv, ValueInv

\* An accumulator holds tensors that exist.
LEMMA HoldsOld ==
  ASSUME MemInv, NEW l \in Layers, NEW b, Holds(accum, l, b)
  PROVE  b \in 1 .. Len(mem)
BY DEF MemInv, AccumInv, Holds

\* A step that only adds blocks: some of them the program's, some of them to
\* the accumulator of one layer.
LEMMA HandGrows ==
  ASSUME TypedInv, HandInv, MemGrows, NEW here \in Layers,
         scope' = scope, got' = got, seeds \subseteq seeds', KindInv', OutInv',
         \A l \in Layers : conf[l] = "max" => conf'[l] = "max",
         \A l \in Layers : \A b : Holds(accum', l, b) =>
           Holds(accum, l, b) \/ (l = here /\ b \notin 1 .. Len(mem)),
         DOMAIN own \subseteq DOMAIN own',
         \A b \in DOMAIN own : own'[b] = own[b],
         \A b \in DOMAIN own' \ DOMAIN own : b \notin 1 .. Len(mem) /\ mem'[b].batches = own'[b],
         due' # <<>> => out' \notin 1 .. Len(mem) \/ (due # <<>> /\ out' = out)
  PROVE  HandInv'
<1>1. /\ MemInv /\ DOMAIN own \subseteq 1 .. Len(mem)
      /\ \A g \in got : g.at \in 1 .. Len(mem)
      /\ \A b \in 1 .. Len(mem) : mem'[b] = mem[b]
  BY DEF TypedInv, TensorInv, MemInv, OwnInv, GotInv, MemGrows
<1>2. Disjoint'
  <2> SUFFICES ASSUME NEW k \in Layers, NEW l \in Layers, NEW b,
                      Holds(accum', k, b), Holds(accum', l, b)
               PROVE  k = l
    BY DEF Disjoint
  <2>1. CASE b \in 1 .. Len(mem)
    BY <2>1 DEF HandInv, Disjoint
  <2>2. CASE b \notin 1 .. Len(mem)
    BY <1>1, <2>2, HoldsOld
  <2>q. QED BY <2>1, <2>2
<1>3. GivenInv'
  <2> SUFFICES ASSUME NEW g \in got
               PROVE  /\ g.layer \in Layers \cup {NoLayer} /\ g.batches \in Seq(Int)
                      /\ \A l \in Layers : Holds(accum', l, g.at) => l = g.layer
                      /\ g.at \in DOMAIN own' =>
                           g.layer # NoLayer /\ (scope.mode = "REFERENCE" \/ g.at \in seeds')
    BY Zenon DEF GivenInv
  <2>1. g.at \in DOMAIN own' => g.at \in DOMAIN own
    BY <1>1
  <2>2. \A l \in Layers : Holds(accum', l, g.at) => Holds(accum, l, g.at)
    BY <1>1
  <2>q. QED BY <2>1, <2>2 DEF HandInv, GivenInv
<1>4. SpoilInv'
  <2> SUFFICES ASSUME NEW b \in DOMAIN own', mem'[b].batches # own'[b] PROVE Spoiled(b)'
    BY DEF SpoilInv
  <2>1. b \in DOMAIN own /\ b \in 1 .. Len(mem)
    BY <1>1
  <2>2. mem[b].batches # own[b]
    BY <1>1, <2>1
  <2>3. Spoiled(b)
    BY <2>1, <2>2 DEF HandInv, SpoilInv
  <2>q. QED BY <2>1, <2>3 DEF Spoiled
<1>5. ValueInv'
  BY <1>1 DEF HandInv, ValueInv
<1>q. QED BY <1>2, <1>3, <1>4, <1>5 DEF HandInv

LEMMA HandRunLayer ==
  ASSUME TypedInv, HandInv, RunLayer
  PROVE  HandInv'
<1> DEFINE at == IF pos = Len(Model) THEN 1 ELSE pos + 1
           n == IF at = 1 THEN forwards + 1 ELSE forwards
           made == New(mem, <<n>>, Device)
<1>1. /\ mem' = made.mem /\ own' = OwnAlso(made.at, <<n>>) /\ forwards' = n /\ out' = made.at
      /\ UNCHANGED <<progVars, hookVars, storeVars, calls, wrote, seeds, got, mixed, apart>>
  BY DEF RunLayer
<1>2. MemGrows
  BY RunLayerStep DEF TypedInv
<1>3. MemInv /\ mem \in Seq(Blocks) /\ scope \in Scopes /\ forwards \in Nat
  BY DEF TypedInv, TensorInv, MemInv
<1>4. n \in Nat
  BY <1>3
<1> HIDE DEF at, n
<1>5. <<n>> \in Seq(Int) /\ Device \in Devices
  BY <1>3, <1>4, ScopeTypes
<1>6. made.at = Len(mem) + 1 /\ made.mem[made.at] = Block(<<n>>, Device)
  BY <1>3, <1>5, NewTensor
<1> HIDE DEF made
<1>7. made.at \notin 1 .. Len(mem)
  BY <1>3, <1>6
<1>8. UNCHANGED <<scope, reg, conf, accum, got, seeds>>
  BY <1>1 DEF progVars, hookVars, storeVars
<1>9. /\ DOMAIN own' = DOMAIN own \cup {made.at}
      /\ own'[made.at] = <<n>> /\ \A b \in DOMAIN own : b # made.at => own'[b] = own[b]
  BY <1>1 DEF OwnAlso
<1>10. DOMAIN own \subseteq 1 .. Len(mem) /\ \A g \in got : g.at \in 1 .. Len(mem)
  BY <1>3 DEF TypedInv, GotInv, MemInv, OwnInv
<1>11. KindInv'
  BY <1>8 DEF HandInv, KindInv
<1>12. \A l : \A b : Holds(accum', l, b) = Holds(accum, l, b)
  BY <1>8
<1>13. mem'[made.at].batches = <<n>>
  BY <1>1, <1>6 DEF Block
<1>14. OutInv'
  <2>1. mem'[out'] = Block(<<forwards'>>, Device')
    BY <1>1, <1>6, <1>8 DEF Device
  <2>2. out' \in DOMAIN own' /\ own'[out'] = <<forwards'>>
    BY <1>1, <1>9
  <2>3. \A l \in Layers : ~ Holds(accum', l, out')
    BY <1>1, <1>3, <1>7, <1>12, HoldsOld
  <2>4. \A g \in got' : g.at # out'
    BY <1>1, <1>7, <1>8, <1>10
  <2>q. QED BY <2>1, <2>2, <2>3, <2>4 DEF OutInv
<1>15. \E here : here \in Layers
  BY Positions
<1>q. QED
  BY <1>1, <1>2, <1>7, <1>8, <1>9, <1>10, <1>11, <1>12, <1>13, <1>14, <1>15, HandGrows

\* Reading the last entry: it is there.
LEMMA LastHeld ==
  ASSUME MemInv, NEW l \in Layers, accum[l] # <<>>
  PROVE  Holds(accum, l, Last(accum[l]))
<1>1. accum[l] \in Seq(Nat)
  BY DEF MemInv, AccumInv
<1>2. Len(accum[l]) \in 1 .. Len(accum[l])
  BY <1>1
<1>q. QED BY <1>2 DEF Holds, Last

\* What a hook puts into an accumulator: a new tensor, or, with no reduction,
\* the activation itself.
LEMMA HookHolds ==
  ASSUME MemInv, HookCallback
  PROVE  \A k \in Layers : \A b : Holds(accum', k, b) =>
           \/ Holds(accum, k, b)
           \/ k = Current /\ (b \notin 1 .. Len(mem) \/ (conf[k] = "none" /\ b = out))
<1> DEFINE l == Current
           a == InHand(l).at
<1>1. /\ l \in Layers /\ Reduced(l, InHand(l))
      /\ scope.storage = "DISK" => accum' = accum
      /\ scope.storage # "DISK" => Takes(l, a)
  BY HookEffect
<1> HIDE DEF l
<1>2. a \in Nat /\ (a \in 1 .. Len(mem) =>
        \/ conf[l] = "none" /\ a = out
        \/ accum[l] # <<>> /\ a = Last(accum[l]))
  BY <1>1 DEF Reduced, Fits
<1> HIDE DEF a
<1>3. CASE scope.storage = "DISK"
  BY <1>1, <1>3
<1>4. CASE scope.storage # "DISK"
  <2> SUFFICES ASSUME NEW k \in Layers, NEW b, Holds(accum', k, b)
               PROVE  \/ Holds(accum, k, b)
                      \/ k = l /\ (b \notin 1 .. Len(mem) \/ (conf[k] = "none" /\ b = out))
    BY DEF l
  <2>1. /\ \A j \in Layers : j # l => accum'[j] = accum[j]
        /\ accum' \in [Layers -> Seq(Nat)] /\ accum'[l][Len(accum'[l])] = a
        /\ \A i \in 1 .. Len(accum'[l]) - 1 :
             i \in 1 .. Len(accum[l]) /\ accum'[l][i] = accum[l][i]
    BY <1>1, <1>2, <1>4, TakenEntries
  <2>2. CASE k # l
    BY <2>1, <2>2 DEF Holds
  <2>3. CASE k = l
    <3>1. PICK i \in 1 .. Len(accum'[l]) : accum'[l][i] = b
      BY <2>3 DEF Holds
    <3>2. accum'[l] \in Seq(Nat)
      BY <1>1, <2>1
    <3>3. CASE i = Len(accum'[l])
      <4>1. b = a
        BY <2>1, <3>1, <3>3
      <4>2. accum[l] # <<>> => Holds(accum, l, Last(accum[l]))
        BY <1>1, LastHeld
      <4>q. QED BY <1>2, <2>3, <4>1, <4>2
    <3>4. CASE i # Len(accum'[l])
      <4>1. i \in 1 .. Len(accum'[l]) - 1
        BY <3>1, <3>2, <3>4
      <4>q. QED BY <2>1, <2>3, <3>1, <4>1 DEF Holds
    <3>q. QED BY <3>3, <3>4
  <2>q. QED BY <2>2, <2>3
<1>q. QED BY <1>3, <1>4

LEMMA StartsMore ==
  ASSUME NEW s \in Seq(Int), NEW t \in Seq(Int), NEW u \in Seq(Int), Starts(s, t)
  PROVE  Starts(s, t \o u)
<1>1. Len(t \o u) = Len(t) + Len(u) /\ Len(u) \in Nat /\ Len(t) \in Nat /\ Len(s) \in Nat
  OBVIOUS
<1>2. \A i \in 1 .. Len(t) : (t \o u)[i] = t[i]
  OBVIOUS
<1>q. QED BY <1>1, <1>2 DEF Starts

LEMMA StartsAppend ==
  ASSUME NEW s \in Seq(Int), NEW t \in Seq(Int), NEW x \in Int, Starts(s, t)
  PROVE  Starts(s, Append(t, x))
<1>1. Len(Append(t, x)) = Len(t) + 1 /\ Len(t) \in Nat /\ Len(s) \in Nat
  OBVIOUS
<1>2. \A i \in 1 .. Len(t) : Append(t, x)[i] = t[i]
  OBVIOUS
<1>q. QED BY <1>1, <1>2 DEF Starts

\* The one tensor a hook writes to is the running value of its layer.
LEMMA HookTouched ==
  ASSUME TypedInv, HandInv, HookCallback, NEW b \in 1 .. Len(mem), mem'[b] # mem[b]
  PROVE  /\ Holds(accum, Current, b) /\ conf[Current] = "max" /\ b # out
         /\ mem'[b] = Block(mem[b].batches \o mem[out].batches, mem[b].dev)
         /\ \A k \in Layers : Holds(accum, k, b) => k = Current
<1> DEFINE l == Current
<1>1. l \in Layers /\ Touches(l) /\ due # <<>> /\ MemInv
  BY HookEffect DEF TypedInv, TensorInv
<1>2. \A k \in Layers : Holds(accum, k, out) => k = l /\ conf[k] = "none"
  BY <1>1 DEF HandInv, OutInv
<1> HIDE DEF l
<1>3. /\ conf[l] = "max" /\ accum[l] # <<>> /\ b = Last(accum[l])
      /\ mem'[b] = Block(Value(l), mem[b].dev)
  BY <1>1 DEF Touches
<1>4. Value(l) = mem[b].batches \o mem[out].batches
  BY <1>3 DEF Value
<1>5. Holds(accum, l, b)
  BY <1>1, <1>3, LastHeld
<1>6. b # out
  BY <1>1, <1>2, <1>3, <1>5
<1>7. \A k \in Layers : Holds(accum, k, b) => k = l
  BY <1>1, <1>5 DEF HandInv, Disjoint
<1>q. QED BY <1>3, <1>4, <1>5, <1>6, <1>7 DEF l

LEMMA HandHook ==
  ASSUME TypedInv, HandInv, HookCallback
  PROVE  HandInv'
<1> DEFINE l == Current
<1>1. /\ l \in Layers /\ due # <<>>
      /\ UNCHANGED <<scope, reg, params, pos, out, hookVars, acts, counters, ghosts>>
  BY HookEffect DEF TypedInv, TensorInv
<1>2. \A k \in Layers : \A b : Holds(accum', k, b) =>
        \/ Holds(accum, k, b)
        \/ k = l /\ (b \notin 1 .. Len(mem) \/ (conf[k] = "none" /\ b = out))
  BY HookHolds DEF TypedInv, TensorInv
<1>3. /\ MemInv /\ DOMAIN own \subseteq 1 .. Len(mem) /\ out \in 1 .. Len(mem)
      /\ mem \in Seq(Blocks) /\ \A g \in got : g.at \in 1 .. Len(mem)
  BY DEF TypedInv, TensorInv, MemInv, OwnInv, GotInv
<1>4. /\ UNCHANGED <<scope, reg, pos, out, conf, own, seeds, got, forwards>>
      /\ Current' = Current /\ Device' = Device
  BY <1>1 DEF hookVars, counters, ghosts, Current, Device
<1>5. /\ out \in DOMAIN own /\ own[out] = <<forwards>> /\ mem[out] = Block(<<forwards>>, Device)
      /\ \A k \in Layers : Holds(accum, k, out) => k = l /\ conf[k] = "none"
      /\ \A g \in got : g.at # out
  BY <1>1 DEF HandInv, OutInv
<1> HIDE DEF l
<1>6. ASSUME NEW b \in 1 .. Len(mem), mem'[b] # mem[b]
      PROVE  /\ Holds(accum, l, b) /\ conf[l] = "max" /\ b # out
             /\ mem'[b] = Block(mem[b].batches \o mem[out].batches, mem[b].dev)
             /\ \A k \in Layers : Holds(accum, k, b) => k = l
  BY <1>6, HookTouched DEF l
<1>7. mem'[out] = mem[out]
  BY <1>3, <1>6
<1>8. KindInv'
  BY <1>4 DEF HandInv, KindInv
<1>9. OutInv'
  <2>1. \A k \in Layers : Holds(accum', k, out') => k = Current' /\ conf'[k] = "none"
    BY <1>2, <1>3, <1>4, <1>5 DEF l
  <2>2. /\ out' \in DOMAIN own' /\ own'[out'] = <<forwards'>>
        /\ mem'[out'] = Block(<<forwards'>>, Device') /\ \A g \in got' : g.at # out'
    BY <1>4, <1>5, <1>7
  <2>q. QED BY <2>1, <2>2 DEF OutInv
<1>10. Disjoint'
  <2> SUFFICES ASSUME NEW k \in Layers, NEW j \in Layers, NEW b,
                      Holds(accum', k, b), Holds(accum', j, b)
               PROVE  k = j
    BY DEF Disjoint
  <2>1. CASE b \in 1 .. Len(mem)
    <3>1. CASE b = out
      BY <1>2, <1>5, <3>1, <2>1
    <3>2. CASE b # out
      BY <1>2, <2>1, <3>2 DEF HandInv, Disjoint
    <3>q. QED BY <3>1, <3>2
  <2>2. CASE b \notin 1 .. Len(mem)
    BY <1>2, <1>3, <2>2, HoldsOld
  <2>q. QED BY <2>1, <2>2
<1>11. ASSUME NEW g \in got, NEW k \in Layers, Holds(accum', k, g.at) PROVE Holds(accum, k, g.at)
  BY <1>2, <1>3, <1>5, <1>11
<1>12. GivenInv'
  <2> SUFFICES ASSUME NEW g \in got
               PROVE  /\ g.layer \in Layers \cup {NoLayer} /\ g.batches \in Seq(Int)
                      /\ \A k \in Layers : Holds(accum', k, g.at) => k = g.layer
                      /\ g.at \in DOMAIN own =>
                           g.layer # NoLayer /\ (scope.mode = "REFERENCE" \/ g.at \in seeds)
    BY <1>4, Zenon DEF GivenInv
  <2>q. QED BY <1>11 DEF HandInv, GivenInv
<1>13. SpoilInv'
  <2> SUFFICES ASSUME NEW b \in DOMAIN own, mem'[b].batches # own[b] PROVE Spoiled(b)'
    BY <1>4 DEF SpoilInv
  <2>1. b \in 1 .. Len(mem)
    BY <1>3
  <2>2. CASE mem'[b] = mem[b]
    <3>1. mem[b].batches # own[b]
      BY <2>2
    <3>2. Spoiled(b)
      BY <3>1 DEF HandInv, SpoilInv
    <3>3. b # out
      BY <1>1, <3>2 DEF Spoiled
    <3>4. \A k \in Layers : Holds(accum', k, b) => Holds(accum, k, b)
      BY <1>2, <2>1, <3>3
    <3>q. QED BY <1>4, <3>2, <3>3, <3>4 DEF Spoiled
  <2>3. CASE mem'[b] # mem[b]
    <3>1. /\ Holds(accum, l, b) /\ conf[l] = "max" /\ b # out
          /\ \A k \in Layers : Holds(accum, k, b) => k = l
      BY <1>6, <2>1, <2>3
    <3>2. \A k \in Layers : Holds(accum', k, b) => conf[k] = "max"
      BY <1>2, <2>1, <3>1
    <3>3. \A g \in got : g.at = b => g.layer = l
      BY <1>1, <3>1 DEF HandInv, GivenInv
    <3>q. QED BY <1>1, <1>4, <3>1, <3>2, <3>3 DEF Spoiled
  <2>q. QED BY <2>2, <2>3
<1>14. ValueInv'
  <2> SUFFICES ASSUME NEW g \in got
               PROVE  /\ Starts(g.batches, mem'[g.at].batches)
                      /\ \/ mem'[g.at].batches = g.batches
                         \/ g.at \in DOMAIN own /\ mem'[g.at].batches = own[g.at]
                         \/ g.layer \in Layers /\ conf[g.layer] = "max"
    BY <1>4 DEF ValueInv
  <2>1. Starts(g.batches, mem[g.at].batches) /\ g.batches \in Seq(Int) /\ g.at \in 1 .. Len(mem)
    BY <1>3 DEF HandInv, ValueInv, GivenInv
  <2>2. CASE mem'[g.at] = mem[g.at]
    BY <2>2 DEF HandInv, ValueInv
  <2>3. CASE mem'[g.at] # mem[g.at]
    <3>1. /\ Holds(accum, l, g.at) /\ conf[l] = "max"
          /\ mem'[g.at] = Block(mem[g.at].batches \o mem[out].batches, mem[g.at].dev)
      BY <1>6, <2>1, <2>3
    <3>2. g.layer = l
      BY <1>1, <3>1 DEF HandInv, GivenInv
    <3>3. mem'[g.at].batches = mem[g.at].batches \o mem[out].batches
      <4>1. \A x, d : Block(x, d).batches = x
        BY DEF Block
      <4>q. QED BY <3>1, <4>1, Zenon
    <3>4. mem[g.at] \in Blocks /\ mem[out] \in Blocks
      BY <1>3, <2>1
    <3>5. mem[g.at].batches \in Seq(Int) /\ mem[out].batches \in Seq(Int)
      BY <3>4 DEF Blocks
    <3>6. Starts(g.batches, mem'[g.at].batches)
      BY <2>1, <3>3, <3>5, StartsMore
    <3>q. QED BY <1>1, <3>1, <3>2, <3>6
  <2>q. QED BY <2>2, <2>3
<1>q. QED BY <1>8, <1>9, <1>10, <1>12, <1>13, <1>14 DEF HandInv

\* A step that, for what was handed out, is a growth of the memory at most.
LEMMA HandQuiet ==
  ASSUME TypedInv, HandInv, MemGrows, KindInv',
         UNCHANGED <<scope, own, seeds, got, out>>,
         \A l \in Layers : conf[l] = "max" => conf'[l] = "max",
         \A l \in Layers : accum'[l] = accum[l] \/ accum'[l] = <<>>,
         due' # <<>> => due # <<>> /\ UNCHANGED <<forwards, conf, pos>>
  PROVE  HandInv'
<1>1. MemInv /\ out \in 1 .. Len(mem) /\ mem'[out] = mem[out]
  BY DEF TypedInv, TensorInv, MemInv, MemGrows
<1>2. \A l \in Layers : \A b : Holds(accum', l, b) => Holds(accum, l, b)
  <2> SUFFICES ASSUME NEW l \in Layers, NEW b, Holds(accum', l, b) PROVE Holds(accum, l, b)
    OBVIOUS
  <2>1. accum'[l] # <<>>
    BY DEF Holds
  <2>q. QED BY <2>1 DEF Holds
<1>3. OutInv'
  <2> SUFFICES ASSUME due' # <<>>
               PROVE  /\ out' \in DOMAIN own' /\ own'[out'] = <<forwards'>>
                      /\ mem'[out'] = Block(<<forwards'>>, Device')
                      /\ \A l \in Layers :
                           Holds(accum', l, out') => l = Current' /\ conf'[l] = "none"
                      /\ \A g \in got' : g.at # out'
    BY DEF OutInv
  <2>1. due # <<>> /\ UNCHANGED <<forwards, conf, pos, out, own, got>>
        /\ Device' = Device /\ Current' = Current
    BY DEF Device, Current
  <2>2. /\ out \in DOMAIN own /\ own[out] = <<forwards>>
        /\ mem[out] = Block(<<forwards>>, Device)
        /\ \A l \in Layers : Holds(accum, l, out) => l = Current /\ conf[l] = "none"
        /\ \A g \in got : g.at # out
    BY <2>1 DEF HandInv, OutInv
  <2>3. mem'[out'] = Block(<<forwards'>>, Device')
    BY <1>1, <2>1, <2>2
  <2>4. \A l \in Layers : Holds(accum', l, out') => l = Current' /\ conf'[l] = "none"
    BY <1>2, <2>1, <2>2
  <2>q. QED BY <2>1, <2>2, <2>3, <2>4
<1>4. \E here : here \in Layers
  BY Positions
<1>q. QED BY <1>2, <1>3, <1>4, HandGrows

LEMMA HandNaive ==
  ASSUME TypedInv, HandInv, NaiveHook
  PROVE  HandInv'
<1>1. MemGrows
  BY NaiveHookStep DEF TypedInv
<1>2. /\ UNCHANGED <<scope, reg, own, seeds, got, out, conf, accum, forwards>>
      /\ due # <<>> /\ (due' = <<>> \/ pos' = pos)
  BY DEF NaiveHook, progVars, hookVars, counters
<1>3. KindInv'
  BY <1>2 DEF HandInv, KindInv
<1>q. QED BY <1>1, <1>2, <1>3, HandQuiet

LEMMA HandRest ==
  ASSUME TypedInv, HandInv,
         ForwardRaises \/ ExitTrack \/ UNCHANGED vars
         \/ \E kind \in Kinds \ {"none"} : RegisterReduction(kind)
  PROVE  HandInv'
<1>1. mem' = mem /\ MemGrows
  <2>1. mem' = mem
    BY DEF ForwardRaises, ExitTrack, RegisterReduction, vars
  <2>q. QED BY <2>1, SameMemory DEF TypedInv
<1>2. /\ UNCHANGED <<scope, own, seeds, got, out, conf, accum, forwards>>
      /\ reg' = reg \/ reg = "none"
      /\ due' = <<>> \/ (due' = due /\ pos' = pos)
  BY DEF ForwardRaises, ExitTrack, RegisterReduction, Call, AtRest,
         vars, progVars, passVars, hookVars, storeVars, counters, ghosts
<1>3. KindInv'
  BY <1>2 DEF HandInv, KindInv
<1>q. QED BY <1>1, <1>2, <1>3, HandQuiet

LEMMA HandAttach ==
  ASSUME TypedInv, HandInv, NEW targets, Attach(targets) \/ EnterTrack(targets)
  PROVE  HandInv'
<1>1. mem' = mem /\ MemGrows
  <2>1. mem' = mem
    BY DEF Attach, EnterTrack
  <2>q. QED BY <2>1, SameMemory DEF TypedInv
<1>2. /\ UNCHANGED <<scope, reg, own, seeds, got, out>> /\ due' = <<>>
      /\ conf' = [l \in Layers |-> IF l \in targets /\ reg # "none" THEN reg ELSE conf[l]]
      /\ accum' = accum \/ accum' = Cleared
  BY DEF Attach, EnterTrack, RegisterHooks, Call, AtRest, progVars, passVars
<1>3. KindInv' /\ \A l \in Layers : conf[l] = "max" => conf'[l] = "max"
  BY <1>2 DEF HandInv, KindInv
<1>4. \A l \in Layers : accum'[l] = accum[l] \/ accum'[l] = <<>>
  BY <1>2 DEF Cleared
<1>q. QED BY <1>1, <1>2, <1>3, <1>4, HandQuiet

LEMMA HandInitAccumulator ==
  ASSUME TypedInv, HandInv, NEW l \in Layers, InitAccumulator(l)
  PROVE  HandInv'
<1> DEFINE seed == New(mem, <<Seed>>, "cpu")
<1>1. MemGrows
  BY InitAccumulatorStep DEF TypedInv
<1>2. /\ mem' = seed.mem /\ accum' = [accum EXCEPT ![l] = <<seed.at>>]
      /\ own' = OwnAlso(seed.at, <<Seed>>) /\ seeds = {}
      /\ UNCHANGED <<scope, reg, got, conf>> /\ due' = <<>>
  BY DEF InitAccumulator, Call, AtRest, progVars, hookVars, passVars
<1>3. MemInv /\ mem \in Seq(Blocks) /\ accum \in [Layers -> Seq(Nat)]
      /\ DOMAIN own \subseteq 1 .. Len(mem)
  BY DEF TypedInv, TensorInv, MemInv, AccumInv, OwnInv
<1>4. <<Seed>> \in Seq(Int) /\ "cpu" \in Devices
  BY DEF Seed, Devices
<1>5. seed.at = Len(mem) + 1 /\ seed.mem[seed.at] = Block(<<Seed>>, "cpu")
  BY <1>3, <1>4, NewTensor
<1> HIDE DEF seed
<1>6. seed.at \notin 1 .. Len(mem)
  BY <1>3, <1>5
<1>7. mem'[seed.at].batches = <<Seed>>
  <2>1. \A x, d : Block(x, d).batches = x
    BY DEF Block
  <2>q. QED BY <1>2, <1>5, <2>1, Zenon
<1>8. /\ DOMAIN own' = DOMAIN own \cup {seed.at}
      /\ own'[seed.at] = <<Seed>> /\ \A b \in DOMAIN own : b # seed.at => own'[b] = own[b]
  BY <1>2 DEF OwnAlso
<1>9. \A k \in Layers : \A b : Holds(accum', k, b) =>
        Holds(accum, k, b) \/ (k = l /\ b \notin 1 .. Len(mem))
  <2>1. accum'[l] = <<seed.at>> /\ \A k \in Layers : k # l => accum'[k] = accum[k]
    BY <1>2, <1>3
  <2>2. ASSUME NEW b, Holds(accum', l, b) PROVE b = seed.at
    <3>1. PICK i \in 1 .. Len(<<seed.at>>) : <<seed.at>>[i] = b
      BY <2>1, <2>2, Zenon DEF Holds
    <3>q. QED BY <3>1
  <2>q. QED BY <1>6, <2>1, <2>2 DEF Holds
<1>10. KindInv'
  BY <1>2 DEF HandInv, KindInv
<1>11. OutInv'
  BY <1>2 DEF OutInv
<1>q. QED BY <1>1, <1>2, <1>3, <1>6, <1>7, <1>8, <1>9, <1>10, <1>11, HandGrows

LEMMA HandOverwrite ==
  ASSUME TypedInv, HandInv, NEW b \in DOMAIN own, Overwrite(b)
  PROVE  HandInv'
<1>1. /\ MemInv /\ mem \in Seq(Blocks) /\ Len(mem) \in Nat /\ b \in 1 .. Len(mem)
      /\ DOMAIN own \subseteq 1 .. Len(mem) /\ \A g \in got : g.at \in 1 .. Len(mem)
  BY DEF TypedInv, TensorInv, MemInv, OwnInv, GotInv
<1>2. /\ due = <<>> /\ due' = <<>>
      /\ mem' = [mem EXCEPT ![b].batches = Append(@, Scribble)]
      /\ own' = [own EXCEPT ![b] = Append(@, Scribble)]
      /\ UNCHANGED <<scope, reg, conf, accum, got, seeds>>
  BY DEF Overwrite, progVars, passVars, hookVars, storeVars
<1> DEFINE old == mem[b]
           block == [old EXCEPT !.batches = Append(old.batches, Scribble)]
<1>3. mem' = [mem EXCEPT ![b] = block]
  BY <1>2
<1>4. old \in Blocks
  BY <1>1
<1> HIDE DEF old
<1>5. block.batches = Append(old.batches, Scribble)
  BY <1>4 DEF Blocks
<1> HIDE DEF block
<1>6. Len(mem') = Len(mem) /\ \A c \in 1 .. Len(mem) : mem'[c] = IF c = b THEN block ELSE mem[c]
  BY <1>1, <1>3
<1>7. /\ mem'[b].batches = Append(mem[b].batches, Scribble)
      /\ \A c \in 1 .. Len(mem) : c # b => mem'[c] = mem[c]
  BY <1>1, <1>5, <1>6 DEF old
<1>8. /\ DOMAIN own' = DOMAIN own /\ own'[b] = Append(own[b], Scribble)
      /\ \A c \in DOMAIN own : c # b => own'[c] = own[c]
  BY <1>2
<1>9. KindInv' /\ OutInv'
  BY <1>2 DEF HandInv, KindInv, OutInv
<1>10. Disjoint'
  BY <1>2, <1>6 DEF HandInv, Disjoint
<1>11. GivenInv'
  BY <1>2, <1>8 DEF HandInv, GivenInv
<1>12. \A c : Spoiled(c) => Spoiled(c)'
  BY <1>2 DEF Spoiled
<1>13. SpoilInv'
  <2> SUFFICES ASSUME NEW c \in DOMAIN own, mem'[c].batches # own'[c] PROVE Spoiled(c)'
    BY <1>8 DEF SpoilInv
  <2>1. mem[c].batches # own[c]
    BY <1>1, <1>7, <1>8
  <2>q. QED BY <1>12, <2>1 DEF HandInv, SpoilInv
<1>14. ValueInv'
  <2> SUFFICES ASSUME NEW g \in got
               PROVE  /\ Starts(g.batches, mem'[g.at].batches)
                      /\ \/ mem'[g.at].batches = g.batches
                         \/ g.at \in DOMAIN own' /\ mem'[g.at].batches = own'[g.at]
                         \/ g.layer \in Layers /\ conf[g.layer] = "max"
    BY <1>2 DEF ValueInv
  <2>1. /\ Starts(g.batches, mem[g.at].batches)
        /\ \/ mem[g.at].batches = g.batches
           \/ g.at \in DOMAIN own /\ mem[g.at].batches = own[g.at]
           \/ g.layer \in Layers /\ conf[g.layer] = "max"
    BY DEF HandInv, ValueInv
  <2>2. CASE g.at # b
    BY <1>1, <1>7, <1>8, <2>1, <2>2
  <2>3. CASE g.at = b
    <3>1. g.batches \in Seq(Int) /\ mem[b].batches \in Seq(Int) /\ Scribble \in Int
      BY <1>4 DEF HandInv, GivenInv, old, Blocks, Scribble
    <3>3. Starts(g.batches, mem'[g.at].batches)
      BY <1>7, <2>1, <2>3, <3>1, StartsAppend
    <3>4. CASE mem[b].batches = own[b]
      BY <1>7, <1>8, <2>3, <3>3, <3>4
    <3>5. CASE mem[b].batches # own[b]
      <4>1. Spoiled(b)
        BY <3>5 DEF HandInv, SpoilInv
      <4>q. QED BY <2>3, <3>3, <4>1 DEF Spoiled
    <3>q. QED BY <3>4, <3>5
  <2>q. QED BY <2>2, <2>3
<1>q. QED BY <1>9, <1>10, <1>11, <1>13, <1>14 DEF HandInv

LEMMA StartsSelf ==
  ASSUME NEW s \in Seq(Int)
  PROVE  Starts(s, s)
BY DEF Starts

LEMMA HandReadback ==
  ASSUME TypedInv, HandInv, Readback
  PROVE  HandInv'
<1>1. /\ MemInv /\ mem \in Seq(Blocks) /\ accum \in [Layers -> Seq(Nat)]
  BY DEF TypedInv, TensorInv, MemInv, AccumInv
<1>2. /\ got' = got \cup UNION {{Handed(l, b) : b \in Range(accum[l])} : l \in Layers}
      /\ UNCHANGED <<scope, mem, reg, conf, accum, own, seeds>> /\ due = <<>> /\ due' = <<>>
  BY DEF Readback, Call, AtRest, progVars, passVars, hookVars, storeVars
<1>3. ASSUME NEW g \in got', g \notin got
      PROVE  /\ g.layer \in Layers /\ g.batches = mem[g.at].batches
             /\ g.batches \in Seq(Int) /\ Holds(accum, g.layer, g.at) /\ g.at \in 1 .. Len(mem)
  <2>1. PICK l \in Layers : g \in {Handed(l, b) : b \in Range(accum[l])}
    BY <1>2, <1>3
  <2>2. PICK b \in Range(accum[l]) : g = Handed(l, b)
    BY <2>1
  <2>3. g.layer = l /\ g.at = b /\ g.batches = mem[b].batches
    BY <2>2 DEF Handed
  <2>4. accum[l] \in Seq(Nat)
    BY <1>1
  <2>5. PICK i \in 1 .. Len(accum[l]) : b = accum[l][i]
    BY <2>4 DEF Range
  <2>6. Holds(accum, l, b)
    BY <2>5 DEF Holds
  <2>7. b \in 1 .. Len(mem)
    BY <1>1, <2>6, HoldsOld
  <2>8. mem[b] \in Blocks
    BY <1>1, <2>7
  <2>9. mem[b].batches \in Seq(Int)
    BY <2>8 DEF Blocks
  <2>q. QED BY <2>3, <2>6, <2>7, <2>9
<1>4. KindInv' /\ OutInv' /\ Disjoint'
  BY <1>2 DEF HandInv, KindInv, OutInv, Disjoint
<1>5. GivenInv'
  <2> SUFFICES ASSUME NEW g \in got'
               PROVE  /\ g.layer \in Layers \cup {NoLayer} /\ g.batches \in Seq(Int)
                      /\ \A l \in Layers : Holds(accum, l, g.at) => l = g.layer
                      /\ g.at \in DOMAIN own =>
                           g.layer # NoLayer /\ (scope.mode = "REFERENCE" \/ g.at \in seeds)
    BY <1>2 DEF GivenInv
  <2>1. CASE g \in got
    BY <2>1 DEF HandInv, GivenInv
  <2>2. CASE g \notin got
    <3>1. /\ g.layer \in Layers /\ g.batches \in Seq(Int) /\ g.at \in 1 .. Len(mem)
          /\ Holds(accum, g.layer, g.at) /\ g.layer # NoLayer
      BY <1>3, <2>2, TensorsAssumption
    <3>2. \A l \in Layers : Holds(accum, l, g.at) => l = g.layer
      BY <3>1 DEF HandInv, Disjoint
    <3>3. g.at \in DOMAIN own => scope.mode = "REFERENCE" \/ g.at \in seeds
      BY <3>1 DEF TypedInv, TensorInv, AliasInv, Holds
    <3>q. QED BY <3>1, <3>2, <3>3
  <2>q. QED BY <2>1, <2>2
<1>6. SpoilInv'
  <2> SUFFICES ASSUME NEW b \in DOMAIN own, mem[b].batches # own[b] PROVE Spoiled(b)'
    BY <1>2 DEF SpoilInv
  <2>1. Spoiled(b)
    BY DEF HandInv, SpoilInv
  <2>2. ASSUME NEW g \in got', g.at = b PROVE g.layer \in Layers /\ conf[g.layer] = "max"
    BY <1>3, <2>1, <2>2 DEF Spoiled
  <2>q. QED BY <1>2, <2>1, <2>2 DEF Spoiled
<1>7. ValueInv'
  <2> SUFFICES ASSUME NEW g \in got'
               PROVE  /\ Starts(g.batches, mem[g.at].batches)
                      /\ \/ mem[g.at].batches = g.batches
                         \/ g.at \in DOMAIN own /\ mem[g.at].batches = own[g.at]
                         \/ g.layer \in Layers /\ conf[g.layer] = "max"
    BY <1>2 DEF ValueInv
  <2>1. CASE g \in got
    BY <2>1 DEF HandInv, ValueInv
  <2>2. CASE g \notin got
    BY <1>3, <2>2, StartsSelf
  <2>q. QED BY <2>1, <2>2
<1>q. QED BY <1>4, <1>5, <1>6, <1>7 DEF HandInv

LEMMA HandCapture ==
  ASSUME TypedInv, HandInv, CaptureParameters
  PROVE  HandInv'
<1> DEFINE new == [Handed(NoLayer, params) EXCEPT !.at = ParamCopy.at]
<1>1. /\ MemInv /\ mem \in Seq(Blocks) /\ params \in 1 .. Len(mem)
      /\ DOMAIN own \subseteq 1 .. Len(mem) /\ \A g \in got : g.at \in 1 .. Len(mem)
  BY DEF TypedInv, TensorInv, MemInv, OwnInv, GotInv
<1>2. /\ mem' = ParamCopy.mem /\ got' = got \cup {new}
      /\ UNCHANGED <<scope, reg, conf, accum, own, seeds>> /\ due = <<>> /\ due' = <<>>
  BY DEF CaptureParameters, ParamCopy, Call, AtRest, progVars, passVars, hookVars, storeVars
<1>3. MemGrows
  BY CaptureParametersStep DEF TypedInv
<1>4. ParamCopy.at \notin 1 .. Len(mem) /\ mem'[ParamCopy.at].batches = mem[params].batches
  BY <1>1, <1>2, CaptureEffect DEF Fits
<1>5. new.layer = NoLayer /\ new.at = ParamCopy.at /\ new.batches = mem[params].batches
  BY DEF Handed
<1> HIDE DEF new
<1>6. mem[params] \in Blocks
  BY <1>1
<1>7. new.batches \in Seq(Int)
  BY <1>5, <1>6 DEF Blocks
<1>8. /\ new.at \notin DOMAIN own
      /\ \A l \in Layers : ~ Holds(accum, l, new.at)
  BY <1>1, <1>4, <1>5, HoldsOld
<1>9. KindInv' /\ OutInv'
  BY <1>2 DEF HandInv, KindInv, OutInv
<1>10. Disjoint'
  <2> SUFFICES ASSUME NEW k \in Layers, NEW l \in Layers, NEW b,
                      Holds(accum, k, b), Holds(accum, l, b)
               PROVE  k = l
    BY <1>2 DEF Disjoint
  <2>1. b \in 1 .. Len(mem)
    BY <1>1, HoldsOld
  <2>q. QED BY <2>1 DEF HandInv, Disjoint
<1>11. GivenInv'
  <2> SUFFICES ASSUME NEW g \in got'
               PROVE  /\ g.layer \in Layers \cup {NoLayer} /\ g.batches \in Seq(Int)
                      /\ \A l \in Layers : Holds(accum, l, g.at) => l = g.layer
                      /\ g.at \in DOMAIN own =>
                           g.layer # NoLayer /\ (scope.mode = "REFERENCE" \/ g.at \in seeds)
    BY <1>2 DEF GivenInv
  <2>1. CASE g \in got
    BY <2>1 DEF HandInv, GivenInv
  <2>2. CASE g = new
    BY <1>5, <1>7, <1>8, <2>2
  <2>q. QED BY <1>2, <2>1, <2>2
<1>12. SpoilInv'
  <2> SUFFICES ASSUME NEW b \in DOMAIN own, mem'[b].batches # own[b] PROVE Spoiled(b)'
    BY <1>2 DEF SpoilInv
  <2>1. mem'[b] = mem[b]
    BY <1>1, <1>3 DEF MemGrows
  <2>2. Spoiled(b)
    BY <2>1 DEF HandInv, SpoilInv
  <2>q. QED BY <1>2, <1>8, <2>2 DEF Spoiled
<1>13. ValueInv'
  <2> SUFFICES ASSUME NEW g \in got'
               PROVE  /\ Starts(g.batches, mem'[g.at].batches)
                      /\ \/ mem'[g.at].batches = g.batches
                         \/ g.at \in DOMAIN own /\ mem'[g.at].batches = own[g.at]
                         \/ g.layer \in Layers /\ conf[g.layer] = "max"
    BY <1>2 DEF ValueInv
  <2>1. CASE g \in got
    <3>1. mem'[g.at] = mem[g.at]
      BY <1>1, <1>3, <2>1 DEF MemGrows
    <3>q. QED BY <2>1, <3>1 DEF HandInv, ValueInv
  <2>2. CASE g = new
    <3>1. mem'[g.at].batches = g.batches
      BY <1>4, <1>5, <2>2
    <3>q. QED BY <1>7, <2>2, <3>1, StartsSelf
  <2>q. QED BY <1>2, <2>1, <2>2
<1>q. QED BY <1>9, <1>10, <1>11, <1>12, <1>13 DEF HandInv

LEMMA HandStep ==
  ASSUME TypedInv, HandInv, [Next]_vars
  PROVE  HandInv'
<1>1. CASE RunLayer \/ HookCallback \/ NaiveHook
  BY <1>1, HandRunLayer, HandHook, HandNaive
<1>2. CASE ForwardRaises \/ ExitTrack \/ UNCHANGED vars
  BY <1>2, HandRest
<1>3. ASSUME NEW kind \in Kinds \ {"none"}, RegisterReduction(kind) PROVE HandInv'
  BY <1>3, HandRest
<1>4. ASSUME NEW targets \in Targets, Attach(targets) \/ EnterTrack(targets) PROVE HandInv'
  BY <1>4, HandAttach
<1>5. ASSUME NEW l \in Layers, InitAccumulator(l) PROVE HandInv'
  BY <1>5, HandInitAccumulator
<1>6. ASSUME NEW b \in DOMAIN own, Overwrite(b) PROVE HandInv'
  BY <1>6, HandOverwrite
<1>7. CASE Readback \/ CaptureParameters
  BY <1>7, HandReadback, HandCapture
<1>q. QED BY <1>1, <1>2, <1>3, <1>4, <1>5, <1>6, <1>7 DEF Next, Finished

\* What was handed out keeps its value, but for writes to a tensor that is
\* shared with the program and for a fold in place (callback.cpp:96-103).
THEOREM HandedOutStable == Spec => []HandedStable
<1>1. Init => TypedInv /\ HandInv
  BY TypedInit, HandInit
<1>2. TypedInv /\ HandInv /\ [Next]_vars => TypedInv' /\ HandInv'
  BY TypedStep, HandStep
<1>q. QED BY <1>1, <1>2, HandImplies, PTL DEF Spec

-----------------------------------------------------------------------------
(***************************************************************************)
(* What a reduction folds.                                                 *)
(***************************************************************************)

LEMMA TimesIsNat ==
  ASSUME NEW who, NEW hs \in Seq(Hooks)
  PROVE  Times(who, hs) \in Nat /\ Times(who, <<>>) = 0
<1>1. DOMAIN hs = 1 .. Len(hs) /\ Len(hs) \in Nat
  OBVIOUS
<1>2. IsFiniteSet({i \in DOMAIN hs : hs[i] = who})
  <2>1. IsFiniteSet(1 .. Len(hs))
    BY <1>1, FS_Interval
  <2>2. {i \in DOMAIN hs : hs[i] = who} \subseteq 1 .. Len(hs)
    BY <1>1
  <2>q. QED BY <2>1, <2>2, FS_Subset
<1>3. {i \in DOMAIN <<>> : <<>>[i] = who} = {}
  OBVIOUS
<1>q. QED BY <1>2, <1>3, FS_CardinalityType, FS_EmptySet DEF Times

LEMMA TimesStep ==
  ASSUME NEW who, NEW hs \in Seq(Hooks), hs # <<>>
  PROVE  Times(who, hs) = Times(who, Tail(hs)) + IF Head(hs) = who THEN 1 ELSE 0
<1> DEFINE n  == Len(hs)
           t  == Tail(hs)
           All  == {i \in DOMAIN hs : hs[i] = who}
           Rest == {i \in DOMAIN t : t[i] = who}
           After == {i \in 2 .. n : hs[i] = who}
           next == [i \in Rest |-> i + 1]
<1>1. /\ n \in Nat /\ n >= 1 /\ DOMAIN hs = 1 .. n /\ t \in Seq(Hooks) /\ Len(t) = n - 1
      /\ DOMAIN t = 1 .. n - 1 /\ \A i \in 1 .. n - 1 : t[i] = hs[i + 1]
      /\ Head(hs) = hs[1]
  OBVIOUS
<1> HIDE DEF n, t
<1>2. IsFiniteSet(Rest)
  <2>1. IsFiniteSet(1 .. n - 1)
    BY <1>1, FS_Interval
  <2>2. Rest \subseteq 1 .. n - 1
    BY <1>1
  <2>q. QED BY <2>1, <2>2, FS_Subset
<1>3. next \in Bijection(Rest, After) /\ ExistsBijection(Rest, After)
  <2>1. ASSUME NEW i \in Rest PROVE i + 1 \in After /\ i \in Int
    BY <1>1
  <2>2. ASSUME NEW j \in After PROVE j - 1 \in Rest /\ (j - 1) + 1 = j
    BY <1>1
  <2>3. \A i, j \in Rest : i + 1 = j + 1 => i = j
    BY <2>1
  <2> HIDE DEF Rest, After
  <2>4. next \in [Rest -> After]
    BY <2>1
  <2>5. \A i, j \in Rest : next[i] = next[j] => i = j
    BY <2>3
  <2>6. \A j \in After : \E i \in Rest : next[i] = j
    BY <2>2
  <2> HIDE DEF next
  <2>q. QED
    BY <2>4, <2>5, <2>6 DEF Bijection, Injection, Surjection, IsInjective, ExistsBijection
<1>4. IsFiniteSet(After) /\ Cardinality(After) = Cardinality(Rest)
  BY <1>2, <1>3, FS_Bijection
<1>5. Cardinality(All) = Cardinality(After) + IF hs[1] = who THEN 1 ELSE 0
  <2>1. CASE hs[1] = who
    <3>1. All = After \cup {1} /\ 1 \notin After
      BY <1>1, <2>1
    <3> HIDE DEF All, After
    <3>q. QED BY <1>4, <2>1, <3>1, FS_AddElement
  <2>2. CASE hs[1] # who
    <3>1. All = After
      BY <1>1, <2>2
    <3>2. Cardinality(After) \in Nat
      BY <1>4, FS_CardinalityType
    <3> HIDE DEF All, After
    <3>q. QED BY <2>2, <3>1, <3>2
  <2>q. QED BY <2>1, <2>2
<1>q. QED BY <1>1, <1>4, <1>5 DEF Times, t

\* What the hooks that are still to be called will add to layer l's batches.
Pending(l) == IF l = Current THEN Times("scope", due) ELSE 0
Left(l)    == Len(folded[l]) - Pending(l)

\* Those are batches of this forward pass.
TrailAt(l) ==
  /\ folded[l] \in Seq(Int) /\ Left(l) >= 0
  /\ \A i \in 1 .. Len(folded[l]) : i > Left(l) => folded[l][i] = forwards

Agrees(s, l) == Len(s) = Left(l) /\ \A i \in 1 .. Left(l) : s[i] = folded[l][i]

\* With no reduction a layer has an entry for each batch, and only the first
\* may be the seed.
RawAt(l) ==
  /\ Len(accum[l]) = Left(l)
  /\ \A i \in 2 .. Len(accum[l]) : accum[l][i] \notin seeds
  /\ accum[l] # <<>> /\ accum[l][1] \in seeds =>
       /\ folded[l][1] = Seed
       /\ seeds \cap wrote = {} => mem[accum[l][1]].batches = <<Seed>>

\* With one, it has an entry once there is a batch, and that is their fold.
SumAt(l) ==
  /\ Len(accum[l]) = IF Left(l) = 0 THEN 0 ELSE 1
  /\ accum[l] # <<>> /\ seeds \cap wrote = {} => Agrees(mem[accum[l][1]].batches, l)

FoldAt(l) ==
  /\ TrailAt(l)
  /\ l \in mixed => accum[l] # <<>>
  /\ scope.storage # "DISK" /\ conf[l] = "none" => RawAt(l)
  /\ scope.storage # "DISK" /\ conf[l] # "none" /\ l \notin mixed => SumAt(l)

FoldInv ==
  /\ DOMAIN folded = Layers /\ \A l \in Layers : FoldAt(l)
  /\ due # <<>> => out \notin seeds

LEMMA PendingIsNat ==
  ASSUME TypedInv, NEW l
  PROVE  Pending(l) \in Nat /\ (due = <<>> => Pending(l) = 0)
BY TimesIsNat DEF TypedInv, TensorInv, MemInv, Pending

\* Layer l keeps its entries, and what they hold.
LEMMA KeepFold ==
  ASSUME TypedInv, TypedInv', NEW l \in Layers, FoldAt(l), TrailAt(l)',
         scope' = scope, accum'[l] = accum[l], conf'[l] = conf[l], l \in mixed' <=> l \in mixed,
         Left(l)' = Left(l), \A i \in 1 .. Left(l) : folded'[l][i] = folded[l][i],
         \A b \in 1 .. Len(mem) : b \in seeds' => b \in seeds,
         seeds' \cap wrote' = {} => seeds \cap wrote = {},
         /\ scope.storage # "DISK" /\ seeds' \cap wrote' = {} /\ accum[l] # <<>>
         /\ IF conf[l] = "none" THEN accum[l][1] \in seeds ELSE l \notin mixed
         => mem'[accum[l][1]].batches = mem[accum[l][1]].batches
  PROVE  FoldAt(l)'
<1>1. /\ accum[l] \in Seq(Nat) /\ \A i \in 1 .. Len(accum[l]) : accum[l][i] \in 1 .. Len(mem)
  BY DEF TypedInv, TensorInv, MemInv, AccumInv
<1>2. accum[l] # <<>> => 1 \in 1 .. Len(accum[l])
  BY <1>1
<1>3. ASSUME scope.storage # "DISK", conf[l] = "none" PROVE RawAt(l)'
  <2>1. RawAt(l)
    BY <1>3 DEF FoldAt
  <2>2. Len(accum'[l]) = Left(l)'
    BY <2>1 DEF RawAt
  <2>3. \A i \in 2 .. Len(accum'[l]) : accum'[l][i] \notin seeds'
    <3>1. \A i \in 2 .. Len(accum[l]) : i \in 1 .. Len(accum[l])
      BY <1>1
    <3>q. QED BY <1>1, <2>1, <3>1 DEF RawAt
  <2>4. ASSUME accum[l] # <<>>, accum[l][1] \in seeds'
        PROVE  /\ folded'[l][1] = Seed
               /\ seeds' \cap wrote' = {} => mem'[accum[l][1]].batches = <<Seed>>
    <3>1. accum[l][1] \in seeds
      BY <1>1, <1>2, <2>4
    <3>2. /\ folded[l][1] = Seed
          /\ seeds \cap wrote = {} => mem[accum[l][1]].batches = <<Seed>>
      BY <2>1, <2>4, <3>1 DEF RawAt
    <3>3. 1 \in 1 .. Left(l)
      BY <1>2, <2>1, <2>4 DEF RawAt
    <3>q. QED BY <1>3, <2>4, <3>1, <3>2, <3>3
  <2>q. QED BY <2>2, <2>3, <2>4 DEF RawAt
<1>4. ASSUME scope.storage # "DISK", conf[l] # "none", l \notin mixed PROVE SumAt(l)'
  <2>1. SumAt(l)
    BY <1>4 DEF FoldAt
  <2>2. ASSUME accum[l] # <<>>, seeds' \cap wrote' = {}
        PROVE  /\ Len(mem'[accum[l][1]].batches) = Left(l)'
               /\ \A i \in 1 .. Left(l) : mem'[accum[l][1]].batches[i] = folded'[l][i]
    <3>1. mem'[accum[l][1]].batches = mem[accum[l][1]].batches
      BY <1>4, <2>2
    <3>2. Agrees(mem[accum[l][1]].batches, l)
      BY <2>1, <2>2 DEF SumAt
    <3>q. QED BY <3>1, <3>2 DEF Agrees
  <2>q. QED BY <2>1, <2>2 DEF SumAt, Agrees
<1>5. l \in mixed' => accum'[l] # <<>>
  BY DEF FoldAt
<1>q. QED BY <1>3, <1>4, <1>5 DEF FoldAt

LEMMA FoldImplies == TypedInv /\ FoldInv => FoldClean
<1> SUFFICES ASSUME TypedInv, FoldInv, AtRest, scope.storage # "DISK", seeds \cap wrote = {},
                    NEW l \in Layers \ mixed, conf[l] # "none"
             PROVE  Batches(accum[l]) = IF folded[l] = <<>> THEN <<>> ELSE << folded[l] >>
  BY DEF FoldClean
<1>1. /\ SumAt(l) /\ folded[l] \in Seq(Int) /\ accum[l] \in Seq(Nat)
      /\ \A i \in 1 .. Len(accum[l]) : accum[l][i] \in 1 .. Len(mem)
  BY DEF FoldInv, FoldAt, TrailAt, TypedInv, TensorInv, MemInv, AccumInv
<1>2. Left(l) = Len(folded[l]) /\ Len(folded[l]) \in Nat
  BY <1>1, PendingIsNat DEF AtRest, Left
<1>3. CASE folded[l] = <<>>
  <2>1. Left(l) = 0
    BY <1>2, <1>3
  <2>2. accum[l] = <<>>
    BY <1>1, <2>1 DEF SumAt
  <2>q. QED BY <1>3, <2>2 DEF Batches
<1>4. CASE folded[l] # <<>>
  <2>1. Left(l) # 0
    BY <1>1, <1>2, <1>4
  <2>2. Len(accum[l]) = 1 /\ accum[l] # <<>>
    BY <1>1, <2>1 DEF SumAt
  <2> DEFINE s == mem[accum[l][1]].batches
  <2>3. Agrees(s, l)
    BY <1>1, <2>2 DEF SumAt
  <2>4. s \in Seq(Int)
    <3>1. accum[l][1] \in 1 .. Len(mem) /\ mem \in Seq(Blocks)
      BY <1>1, <2>2 DEF TypedInv, TensorInv, MemInv
    <3>2. mem[accum[l][1]] \in Blocks
      BY <3>1
    <3>q. QED BY <3>2 DEF Blocks
  <2>5. Batches(accum[l]) = << s >>
    <3>1. DOMAIN accum[l] = 1 .. 1
      BY <1>1, <2>2
    <3>2. Batches(accum[l]) = [i \in 1 .. 1 |-> mem[accum[l][i]].batches]
      BY <3>1 DEF Batches
    <3>3. \A i \in 1 .. 1 : i = 1
      OBVIOUS
    <3>4. [i \in 1 .. 1 |-> mem[accum[l][i]].batches] = [i \in 1 .. 1 |-> s]
      BY <3>3
    <3> HIDE DEF s
    <3>5. [i \in 1 .. 1 |-> s] = << s >>
      OBVIOUS
    <3>q. QED BY <3>2, <3>4, <3>5, Zenon
  <2> HIDE DEF s
  <2>6. s = folded[l]
    <3> DEFINE t == folded[l]
    <3>1. Len(s) = Len(t) /\ \A i \in 1 .. Len(t) : s[i] = t[i]
      BY <1>2, <2>3 DEF Agrees
    <3>2. t \in Seq(Int)
      BY <1>1
    <3> HIDE DEF t
    <3>3. s = t
      BY <2>4, <3>1, <3>2, SMTT(20)
    <3>q. QED BY <3>3 DEF t
  <2>q. QED BY <1>4, <2>5, <2>6
<1>q. QED BY <1>3, <1>4

LEMMA FoldInit ==
  ASSUME Init
  PROVE  FoldInv
<1>1. /\ due = <<>> /\ mixed = {}
      /\ \A l \in Layers : folded[l] = <<>> /\ accum[l] = <<>> /\ conf[l] = "none"
  BY DEF Init
<1>2. ASSUME NEW l \in Layers PROVE FoldAt(l)
  <2>1. Pending(l) = 0
    BY <1>1, TypedInit, PendingIsNat
  <2>2. Left(l) = 0 /\ folded[l] = <<>> /\ accum[l] = <<>>
    BY <1>1, <2>1 DEF Left
  <2>3. /\ <<>> \in Seq(Int) /\ Len(<<>>) = 0 /\ \A i \in 1 .. Len(<<>>) : FALSE
        /\ \A i \in 2 .. Len(<<>>) : FALSE
    OBVIOUS
  <2>4. TrailAt(l)
    BY <2>2, <2>3 DEF TrailAt
  <2>5. RawAt(l)
    BY <2>2, <2>3 DEF RawAt
  <2>q. QED BY <1>1, <2>4, <2>5 DEF FoldAt
<1>3. DOMAIN folded = Layers
  BY DEF Init
<1>q. QED BY <1>1, <1>2, <1>3 DEF FoldInv

LEMMA FirstHeld ==
  ASSUME MemInv, NEW l \in Layers, accum[l] # <<>>
  PROVE  /\ 1 \in 1 .. Len(accum[l]) /\ accum[l][1] \in 1 .. Len(mem)
         /\ Holds(accum, l, accum[l][1])
<1>1. accum[l] \in Seq(Nat)
  BY DEF MemInv, AccumInv
<1>2. Len(accum[l]) \in Nat /\ Len(accum[l]) >= 1
  BY <1>1
<1>3. 1 \in 1 .. Len(accum[l])
  BY <1>2
<1>q. QED BY <1>3 DEF MemInv, AccumInv, Holds

LEMMA TimesNone == \A who : Times(who, <<>>) = 0
<1>1. <<>> \in Seq(Hooks)
  OBVIOUS
<1>q. QED BY <1>1, TimesIsNat

\* With nothing due nothing is pending.
LEMMA LeftAtRest ==
  ASSUME NEW l
  PROVE  /\ due = <<>> => Left(l) = Len(folded[l]) - 0
         /\ due' = <<>> => Left(l)' = Len(folded'[l]) - 0
<1>1. due = <<>> => Pending(l) = 0
  BY TimesNone DEF Pending
<1>2. due' = <<>> => Pending(l)' = 0
  BY TimesNone DEF Pending
<1>q. QED BY <1>1, <1>2 DEF Left

LEMMA FoldRunLayer ==
  ASSUME TypedInv, FoldInv, RunLayer
  PROVE  FoldInv'
<1> DEFINE at == IF pos = Len(Model) THEN 1 ELSE pos + 1
           n == IF at = 1 THEN forwards + 1 ELSE forwards
           h == Model[at]
           T == Times("scope", hooks[h])
           made == New(mem, <<n>>, Device)
           more == [i \in 1 .. T |-> n]
<1>1. /\ due = <<>> /\ pos' = at /\ due' = hooks[h] /\ forwards' = n /\ out' = made.at
      /\ folded' = [folded EXCEPT ![h] = @ \o more]
      /\ UNCHANGED <<scope, accum, conf, mixed, seeds, wrote>>
  BY DEF RunLayer, progVars, hookVars, storeVars
<1>2. /\ MemInv /\ MemGrows /\ TypedInv' /\ pos \in 1 .. Len(Model) /\ forwards \in Nat
      /\ hooks \in [Layers -> Seq(Hooks)]
  BY RunLayerStep, TypedRunLayer DEF TypedInv, TensorInv, MemInv
<1>3. n \in Nat /\ h \in Layers
  BY <1>2, Positions
<1>4. Current' = h
  BY <1>1 DEF Current
<1>5. made.at \notin 1 .. Len(mem)
  BY <1>2 DEF New, MemInv
<1> HIDE DEF at, n, h, made
<1>6. T \in Nat
  BY <1>2, <1>3, TimesIsNat
<1>7. \A k \in Layers : Pending(k)' = IF k = h THEN T ELSE 0
  BY <1>1, <1>4 DEF Pending
<1> HIDE DEF T
<1>8. ASSUME NEW k \in Layers PROVE FoldAt(k)'
  <2> DEFINE s == folded[k]
  <2>1. FoldAt(k) /\ s \in Seq(Int) /\ Len(s) \in Nat
    BY DEF FoldInv, FoldAt, TrailAt
  <2>2. Left(k) = Len(s)
    BY <1>1, <2>1, LeftAtRest
  <2>3. \A l \in Layers : l # h => folded'[l] = folded[l]
    BY <1>1 DEF FoldInv
  <2>4. /\ TrailAt(k)' /\ Left(k)' = Len(s)
        /\ \A i \in 1 .. Len(s) : folded'[k][i] = s[i]
    <3>1. CASE k # h
      <4>1. folded'[k] = s /\ Left(k)' = Len(s)
        BY <1>7, <2>1, <2>3, <3>1 DEF Left
      <4>q. QED BY <2>1, <4>1 DEF TrailAt
    <3>2. CASE k = h
      <4> DEFINE t == s \o more
      <4>1. more \in Seq(Int) /\ Len(more) = T /\ \A i \in 1 .. T : more[i] = n
        BY <1>3, <1>6
      <4>2. folded'[k] = t
        <5>1. k \in DOMAIN folded
          BY DEF FoldInv
        <5>q. QED BY <1>1, <3>2, <5>1
      <4> HIDE DEF more, s
      <4>3. /\ t \in Seq(Int) /\ Len(t) = Len(s) + T /\ \A i \in 1 .. Len(s) : t[i] = s[i]
            /\ \A i \in 1 .. Len(t) : i > Len(s) => t[i] = n
        BY <1>6, <2>1, <4>1
      <4> HIDE DEF t
      <4>4. Left(k)' = Len(s)
        BY <1>6, <1>7, <2>1, <3>2, <4>2, <4>3 DEF Left
      <4>5. Len(s) >= 0
        BY <2>1
      <4>6. \A i \in 1 .. Len(t) : i > Len(s) => t[i] = forwards'
        BY <1>1, <4>3
      <4>7. TrailAt(k)'
        BY <4>2, <4>3, <4>4, <4>5, <4>6, Zenon DEF TrailAt
      <4>q. QED BY <4>2, <4>3, <4>4, <4>7, Zenon
    <3>q. QED BY <3>1, <3>2
  <2>5. accum[k] # <<>> => mem'[accum[k][1]] = mem[accum[k][1]]
    BY <1>2, FirstHeld DEF MemGrows
  <2>q. QED BY <1>1, <1>2, <2>1, <2>2, <2>4, <2>5, KeepFold
<1>9. out' \notin seeds'
  BY <1>1, <1>2, <1>5 DEF TypedInv, MemInv, OwnInv
<1>10. DOMAIN folded' = Layers
  BY <1>1 DEF FoldInv
<1>q. QED BY <1>8, <1>9, <1>10 DEF FoldInv

\* A step in which nothing is captured and nothing changes for a reduction.
LEMMA FoldQuiet ==
  ASSUME TypedInv, TypedInv', FoldInv, MemGrows,
         UNCHANGED <<scope, accum, conf, mixed, seeds, wrote, folded, out, forwards>>,
         \/ due = <<>> /\ due' = <<>>
         \/ pos' = pos /\ due # <<>> /\ Times("scope", due') = Times("scope", due)
         \/ pos' = pos /\ due' = due
  PROVE  FoldInv'
<1>1. ASSUME NEW k \in Layers PROVE FoldAt(k)'
  <2>1. FoldAt(k) /\ TrailAt(k)
    BY DEF FoldInv, FoldAt
  <2>2. Left(k)' = Left(k)
    <3>1. CASE due = <<>> /\ due' = <<>>
      BY <3>1, LeftAtRest
    <3>2. CASE pos' = pos /\ Times("scope", due') = Times("scope", due)
      BY <3>2 DEF Left, Pending, Current
    <3>q. QED BY <3>1, <3>2
  <2>3. TrailAt(k)'
    BY <2>1, <2>2 DEF TrailAt
  <2>4. accum[k] # <<>> => mem'[accum[k][1]] = mem[accum[k][1]]
    BY FirstHeld DEF TypedInv, TensorInv, MemGrows
  <2>q. QED BY <2>1, <2>2, <2>3, <2>4, KeepFold
<1>2. due' # <<>> => out' \notin seeds'
  BY DEF FoldInv
<1>q. QED BY <1>1, <1>2 DEF FoldInv

LEMMA FoldRest ==
  ASSUME TypedInv, FoldInv, TypedInv', MemGrows,
         ForwardRaises \/ ExitTrack \/ Readback \/ CaptureParameters \/ UNCHANGED vars
         \/ \E kind \in Kinds \ {"none"} : RegisterReduction(kind)
  PROVE  FoldInv'
<1>1. /\ UNCHANGED <<scope, accum, conf, mixed, seeds, wrote, folded, out, forwards>>
      /\ \/ due = <<>> /\ due' = <<>>
         \/ pos' = pos /\ due' = due
  BY DEF ForwardRaises, ExitTrack, RegisterReduction, Readback, CaptureParameters, Call, AtRest,
         vars, progVars, passVars, hookVars, storeVars, counters, ghosts
<1>q. QED BY <1>1, FoldQuiet

LEMMA FoldNaive ==
  ASSUME TypedInv, TypedInv', FoldInv, NaiveHook
  PROVE  FoldInv'
<1>1. /\ due # <<>> /\ Head(due) = "naive" /\ MemGrows /\ MemInv /\ due \in Seq(Hooks)
      /\ UNCHANGED <<scope, accum, conf, mixed, seeds, wrote, out, forwards>>
  BY NaiveHookStep DEF TypedInv, TensorInv, MemInv, NaiveHook, progVars, hookVars, counters
<1>2. CASE due' = Tail(due) /\ pos' = pos /\ folded' = folded
  <2>1. Times("scope", due') = Times("scope", due)
    <3>1. Times("scope", due) = Times("scope", Tail(due)) + 0
      BY <1>1, TimesStep
    <3>2. Times("scope", Tail(due)) \in Nat
      <4>1. Tail(due) \in Seq(Hooks)
        BY <1>1
      <4>q. QED BY <4>1, TimesIsNat
    <3>q. QED BY <1>2, <3>1, <3>2
  <2>q. QED BY <1>1, <1>2, <2>1, FoldQuiet
<1>3. CASE /\ due' = <<>>
           /\ folded' = [folded EXCEPT ![Current] =
                           SubSeq(@, 1, Len(@) - Times("scope", due))]
  <2>1. ASSUME NEW k \in Layers PROVE FoldAt(k)'
    <3> DEFINE s == folded[k]
    <3>1. FoldAt(k) /\ TrailAt(k) /\ s \in Seq(Int) /\ Len(s) \in Nat /\ Left(k) >= 0
      BY DEF FoldInv, FoldAt, TrailAt
    <3>2. Pending(k) \in Nat /\ Left(k) = Len(s) - Pending(k)
      BY PendingIsNat DEF Left
    <3>3. folded'[k] = SubSeq(s, 1, Left(k))
      <4>1. CASE k = Current
        BY <1>3, <4>1 DEF FoldInv, Left, Pending
      <4>2. CASE k # Current
        <5>1. folded'[k] = s /\ Pending(k) = 0
          BY <1>3, <4>2 DEF FoldInv, Pending
        <5> HIDE DEF s
        <5>2. SubSeq(s, 1, Len(s)) = s
          BY <3>1
        <5>3. Left(k) = Len(s)
          BY <3>1, <3>2, <5>1
        <5>q. QED BY <5>1, <5>2, <5>3
      <4>q. QED BY <4>1, <4>2
    <3>4. /\ Len(folded'[k]) = Left(k) /\ folded'[k] \in Seq(Int)
          /\ \A i \in 1 .. Left(k) : folded'[k][i] = s[i]
      <4> DEFINE n == Left(k)  t == SubSeq(s, 1, n)
      <4>1. n \in Nat /\ n <= Len(s)
        BY <3>1, <3>2
      <4> HIDE DEF n, s
      <4>2. Len(t) = n /\ t \in Seq(Int) /\ \A i \in 1 .. n : t[i] = s[i]
        BY <3>1, <4>1
      <4> HIDE DEF t
      <4>q. QED BY <3>3, <4>2 DEF n, t
    <3>5. Left(k)' = Left(k)
      BY <1>3, <3>1, <3>4, LeftAtRest
    <3>6. TrailAt(k)'
      BY <3>1, <3>4, <3>5 DEF TrailAt
    <3>7. accum[k] # <<>> => mem'[accum[k][1]] = mem[accum[k][1]]
      BY <1>1, FirstHeld DEF MemGrows
    <3>q. QED BY <1>1, <3>1, <3>4, <3>5, <3>6, <3>7, KeepFold
  <2>2. DOMAIN folded' = Layers
    BY <1>3 DEF FoldInv
  <2>q. QED BY <1>3, <2>1, <2>2 DEF FoldInv
<1>q. QED BY <1>2, <1>3 DEF NaiveHook

LEMMA FoldOverwrite ==
  ASSUME TypedInv, TypedInv', FoldInv, NEW b \in DOMAIN own, Overwrite(b)
  PROVE  FoldInv'
<1>1. /\ due = <<>> /\ due' = <<>> /\ wrote' = wrote \cup {b}
      /\ UNCHANGED <<scope, accum, conf, mixed, seeds, folded, out, forwards>>
  BY DEF Overwrite, progVars, passVars, hookVars, storeVars, counters
<1>2. \A c \in 1 .. Len(mem) : mem'[c] # mem[c] => c = b
  BY OverwriteStep DEF TypedInv
<1>3. ASSUME NEW k \in Layers PROVE FoldAt(k)'
  <2>1. FoldAt(k) /\ TrailAt(k)
    BY DEF FoldInv, FoldAt
  <2>2. Left(k)' = Left(k)
    BY <1>1, LeftAtRest
  <2>3. TrailAt(k)'
    BY <1>1, <2>1, <2>2 DEF TrailAt
  <2>4. ASSUME seeds' \cap wrote' = {}, accum[k] # <<>>,
               IF conf[k] = "none" THEN accum[k][1] \in seeds ELSE k \notin mixed
        PROVE  mem'[accum[k][1]] = mem[accum[k][1]]
    <3>1. b \notin seeds
      BY <1>1, <2>4
    <3>2. 1 \in 1 .. Len(accum[k]) /\ accum[k][1] \in 1 .. Len(mem)
      BY <2>4, FirstHeld DEF TypedInv, TensorInv
    <3>3. accum[k][1] # b
      BY <2>4, <3>1, <3>2 DEF TypedInv, TensorInv, AliasInv
    <3>q. QED BY <1>2, <3>2, <3>3
  <2>q. QED BY <1>1, <2>1, <2>2, <2>3, <2>4, KeepFold
<1>q. QED BY <1>1, <1>3 DEF FoldInv

\* A layer whose accumulator holds nothing but its seed has a seed for a sum:
\* any other that gets a reduction is mixed.
LEMMA FoldAttach ==
  ASSUME TypedInv, TypedInv', HandInv, FoldInv, NEW targets, Attach(targets)
  PROVE  FoldInv'
<1>1. /\ due = <<>> /\ due' = <<>>
      /\ conf' = [l \in Layers |-> IF l \in targets /\ reg # "none" THEN reg ELSE conf[l]]
      /\ mixed' = {l \in mixed : accum[l] # <<>>} \cup Raw(targets, accum)
      /\ UNCHANGED <<scope, mem, accum, seeds, wrote, folded, forwards>>
  BY DEF Attach, RegisterHooks, Call, AtRest, progVars, passVars
<1>2. ASSUME NEW k \in Layers PROVE FoldAt(k)'
  <2>1. /\ FoldAt(k) /\ TrailAt(k) /\ accum[k] \in Seq(Nat) /\ Len(accum[k]) \in Nat
        /\ k \in mixed => accum[k] # <<>>
    BY DEF FoldInv, FoldAt, TypedInv, TensorInv, MemInv, AccumInv
  <2>2. Left(k)' = Left(k)
    BY <1>1, LeftAtRest
  <2>3. TrailAt(k)'
    BY <1>1, <2>1, <2>2 DEF TrailAt
  <2>4. k \in mixed => k \in mixed'
    BY <1>1, <2>1
  <2>5. CASE k \in Raw(targets, accum)
    <3>1. k \in mixed' /\ conf'[k] # "none" /\ \E i \in DOMAIN accum[k] : TRUE
      BY <1>1, <2>5 DEF Raw
    <3>2. accum'[k] # <<>>
      BY <1>1, <3>1
    <3>q. QED BY <2>3, <3>1, <3>2 DEF FoldAt
  <2>6. CASE k \notin Raw(targets, accum) /\ conf'[k] = conf[k]
    <3>1. k \in mixed' <=> k \in mixed
      BY <1>1, <2>4, <2>6
    <3>q. QED BY <1>1, <2>1, <2>2, <2>3, <2>6, <3>1, KeepFold
  <2>7. CASE k \notin Raw(targets, accum) /\ conf'[k] # conf[k]
    <3>1. /\ k \in targets /\ reg # "none" /\ conf[k] = "none" /\ conf'[k] # "none"
      BY <1>1, <2>7 DEF HandInv, KindInv
    <3>2. \A i \in 1 .. Len(accum[k]) : accum[k][i] \in seeds
      BY <2>1, <2>7, <3>1 DEF Raw
    <3>3. ASSUME scope.storage # "DISK" PROVE SumAt(k)'
      <4>1. RawAt(k)
        BY <2>1, <3>1, <3>3 DEF FoldAt
      <4>2. ~ (2 \in 2 .. Len(accum[k]))
        <5>1. ASSUME 2 \in 2 .. Len(accum[k]) PROVE FALSE
          <6>1. 2 \in 1 .. Len(accum[k])
            BY <2>1, <5>1
          <6>q. QED BY <3>2, <4>1, <5>1, <6>1 DEF RawAt
        <5>q. QED BY <5>1
      <4>3. Len(accum[k]) = Left(k) /\ Len(accum[k]) <= 1
        BY <2>1, <4>1, <4>2 DEF RawAt
      <4>4. ASSUME accum[k] # <<>>, seeds \cap wrote = {} PROVE Agrees(mem[accum[k][1]].batches, k)'
        <5>1. Left(k) = 1
          BY <2>1, <4>3, <4>4
        <5>2. accum[k][1] \in seeds
          BY <3>2, <4>3, <5>1
        <5>3. folded[k][1] = Seed /\ mem[accum[k][1]].batches = <<Seed>>
          BY <4>1, <4>4, <5>2 DEF RawAt
        <5>4. Len(<<Seed>>) = 1 /\ <<Seed>>[1] = Seed /\ \A i \in 1 .. 1 : i = 1
          OBVIOUS
        <5>5. /\ Len(mem'[accum'[k][1]].batches) = 1 /\ mem'[accum'[k][1]].batches[1] = folded'[k][1]
          BY <1>1, <5>3, <5>4
        <5>6. Left(k)' = 1
          BY <2>2, <5>1
        <5>q. QED BY <5>4, <5>5, <5>6 DEF Agrees
      <4>5. Len(accum'[k]) = IF Left(k)' = 0 THEN 0 ELSE 1
        BY <1>1, <2>1, <2>2, <4>3
      <4>q. QED BY <1>1, <4>4, <4>5 DEF SumAt
    <3>4. k \in mixed' => accum'[k] # <<>>
      BY <1>1, <2>7
    <3>q. QED BY <1>1, <2>3, <3>1, <3>3, <3>4 DEF FoldAt
  <2>q. QED BY <2>5, <2>6, <2>7
<1>q. QED BY <1>1, <1>2 DEF FoldInv

LEMMA FoldEnterTrack ==
  ASSUME TypedInv, TypedInv', FoldInv, NEW targets, EnterTrack(targets)
  PROVE  FoldInv'
<1>1. /\ due' = <<>> /\ accum' = Cleared /\ folded' = [l \in Layers |-> <<>>]
      /\ mixed' = {l \in mixed : Cleared[l] # <<>>} \cup Raw(targets, Cleared)
  BY DEF EnterTrack, RegisterHooks, Call, AtRest, passVars
<1>2. ASSUME NEW k \in Layers PROVE FoldAt(k)'
  <2>1. folded'[k] = <<>> /\ accum'[k] = <<>>
    BY <1>1 DEF Cleared
  <2>2. Left(k)' = 0
    BY <1>1, <2>1, LeftAtRest
  <2>3. k \notin mixed'
    BY <1>1, <2>1 DEF Raw
  <2>4. /\ <<>> \in Seq(Int) /\ Len(<<>>) = 0 /\ \A i \in 1 .. Len(<<>>) : FALSE
        /\ \A i \in 2 .. Len(<<>>) : FALSE
    OBVIOUS
  <2>5. TrailAt(k)'
    BY <2>1, <2>2, <2>4 DEF TrailAt
  <2>6. RawAt(k)'
    BY <2>1, <2>2, <2>4 DEF RawAt
  <2>7. SumAt(k)'
    BY <2>1, <2>2, <2>4 DEF SumAt
  <2>q. QED BY <2>3, <2>5, <2>6, <2>7 DEF FoldAt
<1>q. QED BY <1>1, <1>2 DEF FoldInv

LEMMA FoldInitAccumulator ==
  ASSUME TypedInv, TypedInv', FoldInv, NEW l \in Layers, InitAccumulator(l)
  PROVE  FoldInv'
<1> DEFINE seed == New(mem, <<Seed>>, "cpu")
<1>1. /\ mem' = seed.mem /\ accum' = [accum EXCEPT ![l] = <<seed.at>>]
      /\ seeds = {} /\ seeds' = {seed.at} /\ mixed' = mixed \ {l}
      /\ folded' = [folded EXCEPT ![l] = <<Seed>>]
      /\ UNCHANGED <<scope, conf, wrote, forwards>> /\ due = <<>> /\ due' = <<>>
  BY DEF InitAccumulator, Call, AtRest, progVars, hookVars, passVars
<1>2. /\ MemInv /\ MemGrows /\ mem \in Seq(Blocks) /\ accum \in [Layers -> Seq(Nat)]
  BY InitAccumulatorStep DEF TypedInv, TensorInv, MemInv, AccumInv
<1>3. <<Seed>> \in Seq(Int) /\ "cpu" \in Devices
  BY DEF Seed, Devices
<1>4. seed.at = Len(mem) + 1 /\ seed.mem[seed.at] = Block(<<Seed>>, "cpu")
  BY <1>2, <1>3, NewTensor
<1> HIDE DEF seed
<1>5. seed.at \notin 1 .. Len(mem)
  BY <1>2, <1>4
<1>6. mem'[seed.at].batches = <<Seed>>
  <2>1. \A x, d : Block(x, d).batches = x
    BY DEF Block
  <2>q. QED BY <1>1, <1>4, <2>1, Zenon
<1>7. /\ accum'[l] = <<seed.at>> /\ folded'[l] = <<Seed>>
      /\ \A k \in Layers : k # l => accum'[k] = accum[k] /\ folded'[k] = folded[k]
  BY <1>1, <1>2 DEF FoldInv
<1>8. ASSUME NEW k \in Layers, k # l PROVE FoldAt(k)'
  <2>1. FoldAt(k) /\ TrailAt(k)
    BY DEF FoldInv, FoldAt
  <2>2. Left(k)' = Left(k)
    BY <1>1, <1>7, <1>8, LeftAtRest
  <2>3. TrailAt(k)'
    BY <1>1, <1>7, <1>8, <2>1, <2>2 DEF TrailAt
  <2>4. accum[k] # <<>> => mem'[accum[k][1]] = mem[accum[k][1]]
    BY <1>2, FirstHeld DEF MemGrows
  <2>q. QED BY <1>1, <1>5, <1>7, <1>8, <2>1, <2>2, <2>3, <2>4, KeepFold
<1>9. FoldAt(l)'
  <2>1. /\ Len(<<Seed>>) = 1 /\ <<Seed>>[1] = Seed /\ \A i \in 1 .. 1 : i = 1
        /\ \A x : Len(<<x>>) = 1 /\ <<x>>[1] = x /\ <<x>> # <<>>
        /\ \A i \in 2 .. 1 : FALSE
    OBVIOUS
  <2>2. Left(l)' = 1
    <3>1. Len(folded'[l]) = 1
      BY <1>7, <2>1, Zenon
    <3>2. Left(l)' = Len(folded'[l]) - 0
      BY <1>1, LeftAtRest
    <3>q. QED BY <3>1, <3>2
  <2>3. TrailAt(l)'
    BY <1>3, <1>7, <2>1, <2>2 DEF TrailAt
  <2>4. Len(accum'[l]) = 1 /\ accum'[l][1] = seed.at /\ accum'[l] # <<>>
    BY <1>7, <2>1, Zenon
  <2>5. RawAt(l)'
    BY <1>6, <1>7, <2>1, <2>2, <2>4 DEF RawAt
  <2>6. Agrees(<<Seed>>, l)'
    BY <1>7, <2>1, <2>2 DEF Agrees
  <2>7. SumAt(l)'
    BY <1>6, <2>2, <2>4, <2>6 DEF SumAt
  <2>q. QED BY <2>3, <2>4, <2>5, <2>7 DEF FoldAt
<1>q. QED BY <1>1, <1>8, <1>9 DEF FoldInv

LEMMA AppendOne ==
  ASSUME NEW s \in Seq(Int), NEW x \in Int
  PROVE  /\ Len(s \o <<x>>) = Len(s) + 1 /\ (s \o <<x>>)[Len(s) + 1] = x
         /\ \A i \in 1 .. Len(s) : (s \o <<x>>)[i] = s[i]
         /\ Len(<<x>>) = 1 /\ <<x>>[1] = x
OBVIOUS

LEMMA HookTimes ==
  ASSUME TypedInv, HookCallback
  PROVE  /\ Times("scope", due) = Times("scope", due') + 1 /\ Times("scope", due') \in Nat
         /\ Current' = Current
<1>1. /\ due \in Seq(Hooks) /\ due # <<>> /\ Head(due) = "scope" /\ due' = Tail(due) /\ pos' = pos
  BY DEF TypedInv, TensorInv, MemInv, HookCallback
<1>2. Tail(due) \in Seq(Hooks)
  BY <1>1
<1>3. Times("scope", due') \in Nat
  BY <1>1, <1>2, TimesIsNat
<1>4. Times("scope", due) = Times("scope", Tail(due)) + 1
  BY <1>1, TimesStep
<1>5. Current' = Current
  BY <1>1 DEF Current
<1>q. QED BY <1>1, <1>3, <1>4, <1>5

\* The layers whose hook this is not.
LEMMA FoldHookOthers ==
  ASSUME TypedInv, TypedInv', HandInv, FoldInv, HookCallback, NEW k \in Layers, k # Current
  PROVE  FoldAt(k)'
<1>1. MemInv /\ accum \in [Layers -> Seq(Nat)]
  BY DEF TypedInv, TensorInv, MemInv, AccumInv
<1>2. /\ UNCHANGED <<scope, conf, mixed, seeds, wrote, folded, forwards>>
      /\ scope.storage = "DISK" => accum' = accum
      /\ scope.storage # "DISK" => Takes(Current, InHand(Current).at)
  BY <1>1, HookEffect DEF hookVars, counters, ghosts
<1>3. FoldAt(k) /\ TrailAt(k)
  BY DEF FoldInv, FoldAt
<1>4. Left(k)' = Left(k)
  BY <1>2, HookTimes DEF Left, Pending
<1>5. TrailAt(k)'
  BY <1>2, <1>3, <1>4 DEF TrailAt
<1>6. accum[k] # <<>> => mem'[accum[k][1]] = mem[accum[k][1]]
  BY <1>1, HookTouched, FirstHeld
<1>7. accum'[k] = accum[k]
  BY <1>1, <1>2 DEF Takes
<1>q. QED BY <1>2, <1>3, <1>4, <1>5, <1>6, <1>7, KeepFold

\* The layer whose hook it is has one batch more.
LEMMA FoldHookHere ==
  ASSUME TypedInv, TypedInv', HandInv, FoldInv, HookCallback, NEW l \in Layers, l = Current
  PROVE  FoldAt(l)'
<1> DEFINE a == InHand(l).at
           f == folded[l]
           s == accum[l]
           t == accum'[l]
           n == Left(l)
<1>1. /\ MemInv /\ forwards \in Nat /\ s \in Seq(Nat) /\ conf[l] \in Kinds
      /\ mem \in Seq(Blocks) /\ seeds \subseteq 1 .. Len(mem)
  BY DEF TypedInv, TensorInv, MemInv, AccumInv, OwnInv
<1>2. /\ Reduced(l, InHand(l)) /\ due # <<>>
      /\ UNCHANGED <<scope, conf, mixed, seeds, wrote, folded, forwards>>
      /\ scope.storage = "DISK" => accum' = accum
      /\ scope.storage # "DISK" => mem' = InHand(l).mem /\ Takes(l, a)
  BY <1>1, HookEffect DEF hookVars, counters, ghosts
<1>3. mem[out].batches = <<forwards>> /\ out \notin seeds
  <2>1. mem[out] = Block(<<forwards>>, Device) /\ out \notin seeds
    BY <1>2 DEF HandInv, OutInv, FoldInv
  <2>2. \A x, d : Block(x, d).batches = x
    BY DEF Block
  <2>q. QED BY <2>1, <2>2, Zenon
<1>4. FoldAt(l) /\ f \in Seq(Int) /\ Len(f) \in Nat /\ n >= 0
      /\ \A i \in 1 .. Len(f) : i > n => f[i] = forwards
  BY DEF FoldInv, FoldAt, TrailAt
<1>5. n \in Nat /\ n + 1 <= Len(f) /\ Left(l)' = n + 1
  <2> DEFINE p == Times("scope", due')
  <2>1. n = Len(f) - (p + 1) /\ p \in Nat
    BY HookTimes DEF Left, Pending
  <2>2. Left(l)' = Len(f) - p
    BY <1>2, HookTimes DEF Left, Pending
  <2> HIDE DEF n, f, p
  <2>q. QED BY <1>4, <2>1, <2>2
<1>6. f[n + 1] = forwards /\ folded'[l] = f
  BY <1>2, <1>4, <1>5
<1>7. /\ a \in Nat
      /\ a \notin seeds \/ conf[l] # "none"
      /\ scope.storage # "DISK" => mem'[a].batches = Value(l)
  BY <1>1, <1>2, <1>3 DEF Reduced, Fits
<1>8. TrailAt(l)'
  <2>1. \A i \in 1 .. Len(f) : i > n + 1 => f[i] = forwards
    BY <1>4, <1>5
  <2> HIDE DEF n, f
  <2>2. n + 1 >= 0
    BY <1>5
  <2>q. QED BY <1>2, <1>4, <1>5, <1>6, <2>1, <2>2 DEF TrailAt
<1>9. CASE scope.storage = "DISK"
  BY <1>2, <1>4, <1>8, <1>9 DEF FoldAt
<1>10. CASE scope.storage # "DISK"
  <2>1. /\ t \in Seq(Nat) /\ Len(t) >= 1 /\ t[Len(t)] = a
        /\ Len(t) = IF conf[l] = "none" \/ s = <<>> THEN Len(s) + 1 ELSE Len(s)
        /\ \A i \in 1 .. Len(t) - 1 : i \in 1 .. Len(s) /\ t[i] = s[i]
    <3>1. MemInv /\ a \in Nat /\ Takes(l, a)
      BY <1>1, <1>2, <1>7, <1>10
    <3> HIDE DEF a
    <3>2. accum' \in [Layers -> Seq(Nat)]
      BY <3>1, TakenEntries
    <3>3. /\ Len(t) = IF conf[l] = "none" \/ s = <<>> THEN Len(s) + 1 ELSE Len(s)
          /\ Len(t) >= 1 /\ t[Len(t)] = a
          /\ \A i \in 1 .. Len(t) - 1 : i \in 1 .. Len(s) /\ t[i] = s[i]
      BY ONLY <3>1, TakenEntries
    <3>4. t \in Seq(Nat)
      BY <3>2
    <3>q. QED BY <3>3, <3>4, Zenon
  <2>2. Len(s) \in Nat /\ Len(t) \in Nat /\ t # <<>>
    BY <1>1, <2>1
  <2>3. ASSUME conf[l] = "none" PROVE RawAt(l)'
    <3>1. /\ Len(s) = n /\ \A i \in 2 .. Len(s) : s[i] \notin seeds
          /\ s # <<>> /\ s[1] \in seeds =>
               f[1] = Seed /\ (seeds \cap wrote = {} => mem[s[1]].batches = <<Seed>>)
      BY <1>4, <1>10, <2>3 DEF FoldAt, RawAt
    <3>2. Len(t) = n + 1 /\ a \notin seeds
      BY <1>7, <2>1, <2>3, <3>1
    <3>3. ASSUME NEW i \in 2 .. Len(t) PROVE t[i] \notin seeds
      <4>1. CASE i = Len(t)
        BY <2>1, <3>2, <4>1
      <4>2. CASE i # Len(t)
        <5>1. i \in 1 .. Len(t) - 1 /\ i \in 2 .. Len(s)
          BY <2>2, <3>1, <3>2, <4>2
        <5>q. QED BY <2>1, <3>1, <5>1
      <4>q. QED BY <4>1, <4>2
    <3>4. ASSUME t[1] \in seeds
          PROVE  f[1] = Seed /\ (seeds \cap wrote = {} => mem'[t[1]].batches = <<Seed>>)
      <4>1. Len(t) # 1
        BY <2>1, <3>2, <3>4
      <4>2. 1 \in 1 .. Len(t) - 1 /\ s # <<>>
        BY <1>1, <2>2, <3>1, <3>2, <4>1
      <4>3. t[1] = s[1] /\ s[1] \in 1 .. Len(mem)
        BY <1>1, <2>1, <4>2, FirstHeld
      <4>4. mem'[s[1]] = mem[s[1]]
        BY <2>3, <4>3, HookTouched
      <4>q. QED BY <3>1, <3>4, <4>2, <4>3, <4>4
    <3> HIDE DEF f, n
    <3>q. QED BY <1>2, <1>5, <1>6, <3>2, <3>3, <3>4 DEF RawAt
  <2>4. ASSUME conf[l] # "none", l \notin mixed PROVE SumAt(l)'
    <3>1. SumAt(l)
      BY <1>4, <1>10, <2>4 DEF FoldAt
    <3>2. Len(t) = 1
      BY <1>4, <2>1, <2>2, <2>4, <3>1 DEF SumAt
    <3>3. t[1] = a
      BY <2>1, <3>2
    <3>4. ASSUME seeds \cap wrote = {}
          PROVE  Len(Value(l)) = n + 1 /\ \A i \in 1 .. n + 1 : Value(l)[i] = f[i]
      <4>1. CASE s = <<>>
        <5>1. Value(l) = <<forwards>> /\ n = 0
          BY <1>1, <1>3, <3>1, <4>1 DEF Value, SumAt
        <5>2. Len(<<forwards>>) = 1 /\ <<forwards>>[1] = forwards /\ \A i \in 1 .. 1 : i = 1
          OBVIOUS
        <5> HIDE DEF n, f
        <5>q. QED BY <1>6, <5>1, <5>2
      <4>2. CASE s # <<>>
        <5> DEFINE old == mem[s[1]].batches
        <5>1. Len(s) = 1 /\ Agrees(old, l)
          BY <3>1, <3>4, <4>2 DEF SumAt
        <5>2. s[1] \in 1 .. Len(mem) /\ Last(s) = s[1]
          BY <1>1, <4>2, <5>1, FirstHeld DEF Last
        <5>3. mem[s[1]] \in Blocks
          BY <1>1, <5>2
        <5>4. old \in Seq(Int)
          BY <5>3 DEF Blocks
        <5>5. Value(l) = old \o <<forwards>>
          BY <1>3, <2>4, <4>2, <5>2 DEF Value
        <5>6. Len(old) = n /\ \A i \in 1 .. n : old[i] = f[i]
          BY <5>1 DEF Agrees
        <5> HIDE DEF old, n, f
        <5>7. /\ Len(Value(l)) = n + 1 /\ Value(l)[n + 1] = forwards
              /\ \A i \in 1 .. n : Value(l)[i] = old[i]
          BY <1>1, <5>4, <5>5, <5>6, AppendOne
        <5>8. \A i \in 1 .. n + 1 : i = n + 1 \/ i \in 1 .. n
          BY <1>5
        <5>q. QED BY <1>6, <5>6, <5>7, <5>8
      <4>q. QED BY <4>1, <4>2
    <3> HIDE DEF n, f
    <3>q. QED BY <1>2, <1>5, <1>6, <1>7, <1>10, <2>2, <3>2, <3>3, <3>4 DEF SumAt, Agrees
  <2>5. l \in mixed' => accum'[l] # <<>>
    BY <2>2
  <2>q. QED BY <1>2, <1>8, <2>3, <2>4, <2>5 DEF FoldAt
<1>q. QED BY <1>9, <1>10

LEMMA FoldHook ==
  ASSUME TypedInv, TypedInv', HandInv, FoldInv, HookCallback
  PROVE  FoldInv'
<1>1. \A k \in Layers : FoldAt(k)'
  BY FoldHookHere, FoldHookOthers
<1>2. UNCHANGED <<folded, out, seeds>> /\ due # <<>>
  BY DEF HookCallback, ghosts
<1>q. QED BY <1>1, <1>2 DEF FoldInv

LEMMA FoldStep ==
  ASSUME TypedInv, HandInv, FoldInv, [Next]_vars
  PROVE  FoldInv'
<1>1. TypedInv'
  BY TypedStep
<1>2. CASE RunLayer \/ HookCallback \/ NaiveHook
  BY <1>1, <1>2, FoldRunLayer, FoldHook, FoldNaive
<1>3. ASSUME ForwardRaises \/ ExitTrack \/ Readback \/ CaptureParameters \/ UNCHANGED vars
             \/ \E kind \in Kinds \ {"none"} : RegisterReduction(kind)
      PROVE  FoldInv'
  <2>1. MemGrows
    BY <1>3, ForwardRaisesStep, ExitTrackStep, ReadbackStep, CaptureParametersStep,
       RegisterReductionStep, SameMemory DEF TypedInv, vars
  <2>q. QED BY <1>1, <1>3, <2>1, FoldRest
<1>4. ASSUME NEW targets \in Targets, Attach(targets) \/ EnterTrack(targets) PROVE FoldInv'
  BY <1>1, <1>4, FoldAttach, FoldEnterTrack
<1>5. ASSUME NEW l \in Layers, InitAccumulator(l) PROVE FoldInv'
  BY <1>1, <1>5, FoldInitAccumulator
<1>6. ASSUME NEW b \in DOMAIN own, Overwrite(b) PROVE FoldInv'
  BY <1>1, <1>6, FoldOverwrite
<1>q. QED BY <1>2, <1>3, <1>4, <1>5, <1>6 DEF Next, Finished

\* A reduction's one entry is the fold of every batch since the clear or the
\* seed and of nothing else (callback.cpp:96).
THEOREM FoldsAreClean == Spec => []FoldClean
<1>1. Init => TypedInv /\ HandInv /\ FoldInv
  BY TypedInit, HandInit, FoldInit
<1>2. TypedInv /\ HandInv /\ FoldInv /\ [Next]_vars => TypedInv' /\ HandInv' /\ FoldInv'
  BY TypedStep, HandStep, FoldStep
<1>q. QED BY <1>1, <1>2, FoldImplies, PTL DEF Spec

-----------------------------------------------------------------------------
(***************************************************************************)
(* The two trackers.                                                       *)
(***************************************************************************)

\* The hooks of a layer alternate and end with the pure Python tracker's.
Paired(s) ==
  /\ s # <<>> => s[Len(s)] = "naive"
  /\ \A i \in 1 .. Len(s) - 1 : s[i] # s[i + 1]
Whole(s) == Paired(s) /\ (s # <<>> => Head(s) = "scope")
PairInv == Paired(due) /\ \A l \in Layers : Whole(hooks[l])

Lists(l, b) == \E i \in 1 .. Len(acts[l]) : acts[l][i] = b

\* No list shares a tensor with the result of a reduction.
UnlikeInv ==
  \A k \in Layers : \A l \in DOMAIN acts : \A b \in 1 .. Len(mem) :
    Holds(accum, k, b) /\ Lists(l, b) => conf[k] = "none"

\* The scope's hook was called for this activation, the other not yet.
Behind(l) == l = Current /\ due # <<>> /\ Head(due) = "naive"
Listed(l) == IF l \in DOMAIN acts THEN Len(acts[l]) ELSE 0

\* Two tensors with one value, whatever the program goes on to write.
Twin(a, c) ==
  /\ mem[a].batches = mem[c].batches
  /\ a = c \/ (a \notin DOMAIN own /\ c \notin DOMAIN own)

\* Is the stored tensor the activation itself?
Same == scope.mode = "REFERENCE" /\ Device = "cpu"

\* The raw captures of a layer are the twins of its list, and the last may
\* wait for its twin.
LastAt(l) ==
  LET a == accum[l][Len(accum[l])] IN
  /\ mem[a].batches = mem[out].batches
  /\ IF Same THEN a = out ELSE a \notin DOMAIN own
TwinAt(l) ==
  conf[l] = "none" =>
    /\ Len(accum[l]) = Listed(l) + IF Behind(l) THEN 1 ELSE 0
    /\ l \in DOMAIN acts => \A i \in 1 .. Len(acts[l]) : Twin(accum[l][i], acts[l][i])
    /\ Behind(l) => LastAt(l)
TwinInv == scope.storage # "DISK" /\ SharesAlike => \A l \in Layers : TwinAt(l)

ParInv == ~ apart => PairInv /\ UnlikeInv /\ TwinInv

LEMMA ParImplies == TypedInv /\ ParInv => Parity
<1> SUFFICES ASSUME TypedInv, ParInv, AtRest, ~ apart, scope.storage # "DISK", SharesAlike,
                    NEW l \in Layers, conf[l] = "none"
             PROVE  IF l \in DOMAIN acts THEN Batches(accum[l]) = Batches(acts[l])
                    ELSE accum[l] = <<>>
  BY DEF Parity
<1> DEFINE s == accum[l]
           t == acts[l]
<1>1. s \in Seq(Nat) /\ ~ Behind(l) /\ TwinAt(l)
  BY DEF TypedInv, TensorInv, MemInv, AccumInv, AtRest, Behind, ParInv, TwinInv
<1>2. CASE l \notin DOMAIN acts
  <2>1. Len(s) = 0
    BY <1>1, <1>2 DEF TwinAt, Listed
  <2>q. QED BY <1>1, <1>2, <2>1
<1>3. CASE l \in DOMAIN acts
  <2>1. /\ t \in Seq(Nat)
        /\ \A i \in 1 .. Len(t) : mem[s[i]].batches = mem[t[i]].batches
    BY <1>1, <1>3 DEF TypedInv, ActsInv, TwinAt, Twin
  <2>2. Len(s) = Len(t)
    BY <1>1, <1>3, <2>1 DEF TwinAt, Listed
  <2> HIDE DEF s, t
  <2>3. DOMAIN s = 1 .. Len(t) /\ DOMAIN t = 1 .. Len(t)
    BY <1>1, <2>1, <2>2
  <2>4. Batches(s) = Batches(t)
    BY <2>1, <2>3 DEF Batches
  <2>q. QED BY <1>3, <2>4 DEF s, t
<1>q. QED BY <1>2, <1>3

LEMMA ParInit ==
  ASSUME Init
  PROVE  ParInv
<1>1. /\ due = <<>> /\ \A l \in Layers : hooks[l] = <<>> /\ accum[l] = <<>>
      /\ DOMAIN acts = {}
  BY DEF Init
<1>2. Len(<<>>) = 0
  OBVIOUS
<1>3. PairInv
  BY <1>1, <1>2 DEF PairInv, Whole, Paired
<1>4. UnlikeInv
  BY <1>1 DEF UnlikeInv
<1>5. ASSUME NEW l \in Layers PROVE TwinAt(l)
  BY <1>1, <1>2, <1>5 DEF TwinAt, Listed, Behind
<1>q. QED BY <1>3, <1>4, <1>5 DEF ParInv, TwinInv

\* The entries of a layer that neither tracker adds to stay twins.
LEMMA KeepTwins ==
  ASSUME TypedInv, NEW l \in Layers, TwinAt(l), scope' = scope,
         accum'[l] = accum[l], conf'[l] = conf[l],
         l \in DOMAIN acts' <=> l \in DOMAIN acts, acts'[l] = acts[l],
         Behind(l)' <=> Behind(l), Behind(l) => out' = out,
         \A b \in 1 .. Len(mem) : b \in DOMAIN own' => b \in DOMAIN own,
         conf[l] = "none" => mem'[out].batches = mem[out].batches,
         \A b : conf[l] = "none" /\ Holds(accum, l, b) => mem'[b].batches = mem[b].batches,
         \A b : conf[l] = "none" /\ l \in DOMAIN acts /\ Lists(l, b)
                  => mem'[b].batches = mem[b].batches
  PROVE  TwinAt(l)'
<1> SUFFICES ASSUME conf[l] = "none" PROVE TwinAt(l)'
  BY DEF TwinAt
<1> DEFINE s == accum[l]
           t == acts[l]
<1>1. /\ s \in Seq(Nat) /\ Len(s) \in Nat
      /\ \A i \in 1 .. Len(s) : s[i] \in 1 .. Len(mem) /\ Holds(accum, l, s[i])
  BY DEF TypedInv, TensorInv, MemInv, AccumInv, Holds
<1>2. l \in DOMAIN acts =>
        /\ t \in Seq(Nat) /\ Len(t) \in Nat
        /\ \A i \in 1 .. Len(t) : t[i] \in 1 .. Len(mem) /\ Lists(l, t[i])
  BY DEF TypedInv, ActsInv, Lists
<1>3. /\ Len(s) = Listed(l) + (IF Behind(l) THEN 1 ELSE 0)
      /\ Listed(l)' = Listed(l)
  BY DEF TwinAt, Listed
<1>4. ASSUME l \in DOMAIN acts, NEW i \in 1 .. Len(t) PROVE Twin(s[i], t[i])'
  <2>1. Twin(s[i], t[i])
    BY <1>4 DEF TwinAt
  <2>2. i \in 1 .. Len(s)
    BY <1>1, <1>2, <1>3, <1>4 DEF Listed
  <2>3. /\ s[i] \in 1 .. Len(mem) /\ mem'[s[i]].batches = mem[s[i]].batches
        /\ t[i] \in 1 .. Len(mem) /\ mem'[t[i]].batches = mem[t[i]].batches
    BY <1>1, <1>2, <1>4, <2>2
  <2>q. QED BY <2>1, <2>3 DEF Twin
<1>5. ASSUME Behind(l) PROVE LastAt(l)'
  <2>1. Len(s) \in 1 .. Len(s)
    <3>1. Listed(l) \in Nat
      BY <1>2 DEF Listed
    <3>q. QED BY <1>1, <1>3, <1>5, <3>1
  <2>2. LastAt(l) /\ out' = out /\ accum'[l] = s /\ (Same' <=> Same)
    BY <1>5 DEF TwinAt, Same, Device
  <2> DEFINE a == s[Len(s)]
  <2>3. a \in 1 .. Len(mem) /\ mem'[a].batches = mem[a].batches
    BY <1>1, <2>1
  <2>q. QED BY <2>2, <2>3 DEF LastAt
<1>q. QED BY <1>3, <1>4, <1>5 DEF TwinAt

LEMMA ListsOld ==
  ASSUME TypedInv, NEW l \in DOMAIN acts, NEW b, Lists(l, b)
  PROVE  b \in 1 .. Len(mem)
BY DEF TypedInv, ActsInv, Lists

\* Steps in which neither tracker takes or drops anything.
LEMMA ParGrows ==
  ASSUME TypedInv, ParInv, MemGrows, UNCHANGED <<scope, accum, conf, acts>>, ~ apart' => ~ apart,
         ~ apart => PairInv',
         \A l \in Layers : /\ Behind(l)' <=> Behind(l)
                           /\ Behind(l) => out' = out,
         \A b \in 1 .. Len(mem) : b \in DOMAIN own' => b \in DOMAIN own
  PROVE  ParInv'
<1> SUFFICES ASSUME ~ apart, ~ apart' PROVE PairInv' /\ UnlikeInv' /\ TwinInv'
  BY DEF ParInv
<1>1. MemInv /\ UnlikeInv /\ TwinInv /\ out \in 1 .. Len(mem)
  BY DEF ParInv, TypedInv, TensorInv, MemInv
<1>2. UnlikeInv'
  <2> SUFFICES ASSUME NEW k \in Layers, NEW l \in DOMAIN acts, NEW b,
                      Holds(accum, k, b), Lists(l, b)
               PROVE  conf[k] = "none"
    BY DEF UnlikeInv, Lists
  <2>1. b \in 1 .. Len(mem)
    BY <1>1, HoldsOld
  <2>q. QED BY <1>1, <2>1 DEF UnlikeInv
<1>3. TwinInv'
  <2> SUFFICES ASSUME scope.storage # "DISK", SharesAlike, NEW l \in Layers PROVE TwinAt(l)'
    BY DEF TwinInv, SharesAlike, MovesToCpu
  <2>1. TwinAt(l)
    BY <1>1 DEF TwinInv
  <2>2. \A b \in 1 .. Len(mem) : mem'[b].batches = mem[b].batches
    BY DEF MemGrows
  <2>3. \A b : Holds(accum, l, b) => mem'[b].batches = mem[b].batches
    BY <1>1, <2>2, HoldsOld
  <2>4. \A b : l \in DOMAIN acts /\ Lists(l, b) => mem'[b].batches = mem[b].batches
    BY <2>2, ListsOld
  <2>q. QED BY <1>1, <2>1, <2>2, <2>3, <2>4, KeepTwins
<1>q. QED BY <1>2, <1>3

LEMMA ParRunLayer ==
  ASSUME TypedInv, ParInv, RunLayer
  PROVE  ParInv'
<1> DEFINE at == IF pos = Len(Model) THEN 1 ELSE pos + 1
           n == IF at = 1 THEN forwards + 1 ELSE forwards
           h == Model[at]
           made == New(mem, <<n>>, Device)
<1>1. /\ due = <<>> /\ due' = hooks[h] /\ own' = OwnAlso(made.at, <<n>>)
      /\ UNCHANGED <<scope, accum, conf, acts, hooks, apart>>
  BY DEF RunLayer, progVars, hookVars, storeVars, ghosts
<1>2. /\ MemInv /\ MemGrows /\ pos \in 1 .. Len(Model)
  BY RunLayerStep DEF TypedInv, TensorInv, MemInv
<1>3. h \in Layers
  BY <1>2, Positions
<1>4. made.at = Len(mem) + 1 /\ Len(mem) \in Nat
  BY <1>2 DEF New, MemInv
<1> HIDE DEF h, made
<1>5. \A b \in 1 .. Len(mem) : b \in DOMAIN own' => b \in DOMAIN own
  BY <1>1, <1>4 DEF OwnAlso
<1>6. ~ apart => PairInv'
  BY <1>1, <1>3 DEF ParInv, PairInv, Whole
<1>7. ASSUME ~ apart, NEW l \in Layers PROVE ~ Behind(l) /\ ~ Behind(l)'
  BY <1>1, <1>3, <1>7 DEF ParInv, PairInv, Whole, Behind
<1>8. CASE apart
  BY <1>1, <1>8 DEF ParInv
<1>9. CASE ~ apart
  BY <1>1, <1>2, <1>5, <1>6, <1>7, <1>9, ParGrows
<1>q. QED BY <1>8, <1>9

\* What leaves the trackers and a pass alone.
LEMMA ParQuiet ==
  ASSUME TypedInv, ParInv, MemGrows, UNCHANGED <<scope, accum, conf, acts, hooks, apart, own, out>>,
         \/ due = <<>> /\ due' = <<>>
         \/ due' = due /\ pos' = pos
  PROVE  ParInv'
<1>1. ~ apart => PairInv'
  BY DEF ParInv, PairInv, Whole, Paired
<1>2. ASSUME NEW l \in Layers PROVE Behind(l)' <=> Behind(l)
  BY DEF Behind, Current
<1>q. QED BY <1>1, <1>2, ParGrows

LEMMA ParRest ==
  ASSUME TypedInv, ParInv, MemGrows,
         ForwardRaises \/ Readback \/ CaptureParameters \/ UNCHANGED vars
         \/ \E kind \in Kinds \ {"none"} : RegisterReduction(kind)
  PROVE  ParInv'
<1>1. /\ UNCHANGED <<scope, accum, conf, acts, hooks, apart, own, out>>
      /\ \/ due = <<>> /\ due' = <<>>
         \/ due' = due /\ pos' = pos
  BY DEF ForwardRaises, RegisterReduction, Readback, CaptureParameters, Call, AtRest,
         vars, progVars, passVars, hookVars, storeVars, counters, ghosts
<1>q. QED BY <1>1, ParQuiet

LEMMA NoHooks ==
  ASSUME NEW raised, ~ raised, NEW l \in Layers
  PROVE  HooksLeft(raised)[l] = <<>>
<1>1. HooksLeft(raised)[l] = [i \in 1 .. 0 |-> "naive"]
  BY DEF HooksLeft
<1>2. [i \in 1 .. 0 |-> "naive"] = <<>>
  OBVIOUS
<1>q. QED BY <1>1, <1>2

LEMMA ParExitTrack ==
  ASSUME TypedInv, ParInv, ExitTrack
  PROVE  ParInv'
<1>1. PICK raised \in {FALSE} \cup {"raise" \in scope.uses} :
        hooks' = HooksLeft(raised) /\ apart' = (apart \/ raised)
  BY Zenon DEF ExitTrack
<1>2. /\ due = <<>> /\ due' = <<>>
      /\ UNCHANGED <<scope, mem, out, conf, accum, acts, own>>
  BY DEF ExitTrack, AtRest, progVars, passVars, storeVars
<1> SUFFICES ASSUME ~ apart' PROVE ParInv'
  BY DEF ParInv
<1>3. ~ apart /\ ~ raised
  BY <1>1, Zenon
<1>4. MemGrows
  BY <1>2, SameMemory DEF TypedInv
<1>5. \A l \in Layers : hooks'[l] = <<>>
  BY <1>1, <1>3, NoHooks
<1>6. PairInv'
  <2>1. Len(<<>>) = 0
    OBVIOUS
  <2>q. QED BY <1>2, <1>5, <2>1 DEF PairInv, Whole, Paired
<1>7. \A l \in Layers : ~ Behind(l) /\ ~ Behind(l)'
  BY <1>2 DEF Behind
<1>q. QED BY <1>2, <1>3, <1>4, <1>6, <1>7, ParGrows

LEMMA Joined ==
  ASSUME NEW S, NEW s \in Seq(S), NEW t \in Seq(S)
  PROVE  /\ s \o t \in Seq(S) /\ Len(s \o t) = Len(s) + Len(t)
         /\ \A i \in 1 .. Len(s) + Len(t) :
              (s \o t)[i] = IF i <= Len(s) THEN s[i] ELSE t[i - Len(s)]
OBVIOUS

LEMMA TwoMore ==
  ASSUME NEW s \in Seq(Hooks), Whole(s)
  PROVE  Whole(s \o <<"scope", "naive">>)
<1> DEFINE two == <<"scope", "naive">>
           t == s \o two
           n == Len(s)
<1>1. n \in Nat /\ two \in Seq(Hooks) /\ Len(two) = 2 /\ two[1] = "scope" /\ two[2] = "naive"
  BY DEF Hooks
<1> HIDE DEF two
<1>2. /\ t \in Seq(Hooks) /\ Len(t) = n + 2
      /\ \A i \in 1 .. n : t[i] = s[i]
      /\ t[n + 1] = two[1] /\ t[n + 2] = two[2]
  <2>1. t \in Seq(Hooks) /\ Len(t) = n + Len(two)
    BY <1>1, Joined
  <2>2. \A i \in 1 .. n + Len(two) : t[i] = IF i <= n THEN s[i] ELSE two[i - n]
    BY <1>1, Joined
  <2> HIDE DEF t, n
  <2>3. /\ n + 1 \in 1 .. n + 2 /\ n + 2 \in 1 .. n + 2
        /\ ~(n + 1 <= n) /\ ~(n + 2 <= n) /\ (n + 1) - n = 1 /\ (n + 2) - n = 2
        /\ \A i \in 1 .. n : i \in 1 .. n + 2 /\ i <= n
    BY <1>1
  <2>q. QED BY <1>1, <2>1, <2>2, <2>3, Zenon
<1> HIDE DEF t
<1>3. t[Len(t)] = "naive"
  BY <1>1, <1>2
<1>4. ASSUME NEW i \in 1 .. Len(t) - 1 PROVE t[i] # t[i + 1]
  <2>1. CASE i < n
    <3>1. i \in 1 .. n /\ i + 1 \in 1 .. n /\ i \in 1 .. n - 1
      BY <1>1, <1>2, <2>1
    <3>q. QED BY <1>2, <3>1 DEF Whole, Paired
  <2>2. CASE i = n
    <3>1. n \in 1 .. n /\ s # <<>>
      BY <1>1, <2>2
    <3>q. QED BY <1>1, <1>2, <2>2, <3>1 DEF Whole, Paired
  <2>3. CASE i = n + 1
    BY <1>1, <1>2, <2>3
  <2>q. QED BY <1>1, <1>2, <2>1, <2>2, <2>3
<1>5. Head(t) = "scope"
  <2>1. Head(t) = t[1]
    BY <1>1, <1>2
  <2>2. CASE n = 0
    BY <1>1, <1>2, <2>1, <2>2
  <2>3. CASE n # 0
    <3>1. s # <<>> /\ 1 \in 1 .. n /\ Head(s) = s[1]
      BY <1>1, <2>3
    <3>q. QED BY <1>2, <2>1, <3>1 DEF Whole
  <2>q. QED BY <2>2, <2>3
<1>q. QED BY <1>3, <1>4, <1>5 DEF Whole, Paired, t, two

LEMMA ParEnterTrack ==
  ASSUME TypedInv, ParInv, NEW targets \in Targets, EnterTrack(targets)
  PROVE  ParInv'
<1>1. /\ due = <<>> /\ due' = <<>> /\ apart' = apart
      /\ accum' = Cleared /\ acts' = [l \in targets |-> <<>>]
      /\ hooks' = With(targets, <<"scope", "naive">>)
  BY DEF EnterTrack, RegisterHooks, FreshLists, Call, AtRest, passVars
<1> SUFFICES ASSUME ~ apart PROVE PairInv' /\ UnlikeInv' /\ TwinInv'
  BY <1>1 DEF ParInv
<1>2. Len(<<>>) = 0 /\ DOMAIN acts' = targets /\ \A l \in targets : acts'[l] = <<>>
  BY <1>1
<1>3. \A l \in Layers : accum'[l] = <<>>
  BY <1>1 DEF Cleared
<1>4. PairInv'
  <2>1. ASSUME NEW l \in Layers PROVE Whole(hooks'[l])
    <3>1. hooks[l] \in Seq(Hooks) /\ Whole(hooks[l])
      BY DEF TypedInv, TensorInv, MemInv, ParInv, PairInv
    <3>2. Whole(hooks[l] \o <<"scope", "naive">>)
      BY <3>1, TwoMore
    <3>q. QED BY <1>1, <3>1, <3>2 DEF With
  <2>q. QED BY <1>1, <1>2, <2>1 DEF PairInv, Paired
<1>5. UnlikeInv'
  BY <1>2, <1>3 DEF UnlikeInv, Holds
<1>6. ASSUME NEW l \in Layers PROVE TwinAt(l)'
  <2>1. Listed(l)' = 0 /\ ~ Behind(l)' /\ Len(accum'[l]) = 0
    BY <1>1, <1>2, <1>3 DEF Listed, Behind
  <2>2. l \in DOMAIN acts' => Len(acts'[l]) = 0
    BY <1>2
  <2>q. QED BY <2>1, <2>2 DEF TwinAt
<1>q. QED BY <1>4, <1>5, <1>6 DEF TwinInv

LEMMA ParOverwrite ==
  ASSUME TypedInv, ParInv, NEW b \in DOMAIN own, Overwrite(b)
  PROVE  ParInv'
<1>1. /\ due = <<>> /\ due' = <<>> /\ apart' = apart /\ DOMAIN own' = DOMAIN own
      /\ UNCHANGED <<scope, accum, conf, acts, hooks>>
  BY DEF Overwrite, progVars, passVars, hookVars, storeVars
<1>2. \A c \in 1 .. Len(mem) : c # b => mem'[c] = mem[c]
  BY OverwriteStep DEF TypedInv
<1>3. MemInv
  BY DEF TypedInv, TensorInv
<1> SUFFICES ASSUME ~ apart PROVE PairInv' /\ UnlikeInv' /\ TwinInv'
  BY <1>1 DEF ParInv
<1>4. PairInv'
  BY <1>1 DEF ParInv, PairInv, Whole, Paired
<1>5. UnlikeInv'
  <2> SUFFICES ASSUME NEW k \in Layers, NEW l \in DOMAIN acts, NEW c,
                      Holds(accum, k, c), Lists(l, c)
               PROVE  conf[k] = "none"
    BY <1>1 DEF UnlikeInv, Lists
  <2>1. c \in 1 .. Len(mem)
    BY <1>3, HoldsOld
  <2>q. QED BY <2>1 DEF ParInv, UnlikeInv
<1>6. TwinInv'
  <2> SUFFICES ASSUME scope.storage # "DISK", SharesAlike, NEW l \in Layers, conf[l] = "none"
               PROVE  TwinAt(l)'
    BY <1>1 DEF TwinInv, SharesAlike, MovesToCpu, TwinAt
  <2>1. TwinAt(l) /\ ~ Behind(l) /\ ~ Behind(l)' /\ Listed(l)' = Listed(l)
    BY <1>1 DEF ParInv, TwinInv, Behind, Listed
  <2>2. ASSUME l \in DOMAIN acts, NEW i \in 1 .. Len(acts[l])
        PROVE  Twin(accum[l][i], acts[l][i])'
    <3> DEFINE a == accum[l][i]
               c == acts[l][i]
    <3>1. Twin(a, c)
      BY <2>1, <2>2 DEF TwinAt
    <3>2. c \in 1 .. Len(mem)
      BY <2>2 DEF TypedInv, ActsInv
    <3>3. a \in 1 .. Len(mem)
      <4>1. /\ acts[l] \in Seq(Nat) /\ Len(accum[l]) = Len(acts[l]) + 0
            /\ accum[l] \in Seq(Nat)
        BY <1>3, <2>1, <2>2 DEF TypedInv, ActsInv, MemInv, AccumInv, TwinAt, Listed
      <4>2. i \in 1 .. Len(accum[l])
        BY <2>2, <4>1
      <4>q. QED BY <1>3, <4>2 DEF MemInv, AccumInv
    <3> HIDE DEF a, c
    <3>4. /\ mem'[a].batches = mem'[c].batches
          /\ a = c \/ (a \notin DOMAIN own' /\ c \notin DOMAIN own')
      BY <1>1, <1>2, <3>1, <3>2, <3>3 DEF Twin
    <3>q. QED BY <1>1, <3>4 DEF a, c, Twin
  <2>q. QED BY <1>1, <2>1, <2>2 DEF TwinAt
<1>q. QED BY <1>4, <1>5, <1>6

\* One hook less.
LEMMA PairedTail ==
  ASSUME NEW q \in Seq(Hooks), q # <<>>, Paired(q)
  PROVE  /\ Paired(Tail(q))
         /\ Head(q) = "scope" => Tail(q) # <<>> /\ Head(Tail(q)) = "naive"
         /\ Head(q) = "naive" /\ Tail(q) # <<>> => Head(Tail(q)) = "scope"
<1> DEFINE n == Len(q)
           t == Tail(q)
<1>1. /\ n \in Nat /\ n >= 1 /\ t \in Seq(Hooks) /\ Len(t) = n - 1
      /\ \A i \in 1 .. n - 1 : t[i] = q[i + 1]
      /\ Head(q) = q[1] /\ (t # <<>> => Head(t) = t[1]) /\ (t = <<>> <=> n = 1)
  <2>1. /\ n \in Nat /\ n >= 1 /\ t \in Seq(Hooks) /\ Len(t) = n - 1
        /\ \A i \in 1 .. n - 1 : t[i] = q[i + 1]
        /\ Head(q) = q[1]
    OBVIOUS
  <2> HIDE DEF n, t
  <2>2. t # <<>> => Head(t) = t[1]
    BY <2>1
  <2>3. t = <<>> <=> Len(t) = 0
    BY <2>1
  <2>q. QED BY <2>1, <2>2, <2>3
<1>2. /\ q[n] = "naive" /\ \A i \in 1 .. n - 1 : q[i] # q[i + 1]
      /\ \A i \in 1 .. n : q[i] \in Hooks
  BY DEF Paired
<1> HIDE DEF n, t
<1>3. t # <<>> => t[Len(t)] = "naive"
  <2> SUFFICES ASSUME t # <<>> PROVE t[n - 1] = "naive"
    BY <1>1
  <2>1. n - 1 \in 1 .. n - 1 /\ (n - 1) + 1 = n
    BY <1>1
  <2>q. QED BY <1>1, <1>2, <2>1
<1>4. ASSUME NEW i \in 1 .. Len(t) - 1 PROVE t[i] # t[i + 1]
  <2>1. i \in 1 .. n - 1 /\ i + 1 \in 1 .. n - 1
    BY <1>1, <1>4
  <2>q. QED BY <1>1, <1>2, <2>1
<1>5. ASSUME t # <<>> PROVE Head(t) = q[2] /\ q[2] # q[1] /\ q[2] \in Hooks
  <2>1. 1 \in 1 .. n - 1 /\ 2 \in 1 .. n
    BY <1>1, <1>5
  <2>q. QED BY <1>1, <1>2, <1>5, <2>1
<1>6. q[1] = "scope" => t # <<>>
  BY <1>1, <1>2
<1>7. q[1] \in Hooks
  BY <1>1, <1>2
<1>q. QED BY <1>1, <1>3, <1>4, <1>5, <1>6, <1>7 DEF Paired, Hooks, t

\* A raw capture is the activation itself just where both trackers keep it.
LEMMA InHandSame ==
  ASSUME TypedInv, HandInv, due # <<>>, SharesAlike, NEW l \in Layers, conf[l] = "none"
  PROVE  IF Same THEN InHand(l).at = out ELSE InHand(l).at \notin 1 .. Len(mem)
<1> DEFINE r == Result(l)
<1>1. MemInv /\ out \in 1 .. Len(mem) /\ Len(mem) \in Nat /\ scope.mode \in Modes
  BY ScopeTypes DEF TypedInv, TensorInv, MemInv
<1>2. r.at = out
  BY DEF Result
<1>3. Reduced(l, r)
  BY <1>1, ResultReduced
<1>4. mem[out].dev = Device
  <2>1. mem[out] = Block(<<forwards>>, Device)
    BY DEF HandInv, OutInv
  <2>2. \A x, d : Block(x, d).dev = d
    BY DEF Block
  <2>q. QED BY <2>1, <2>2, Zenon
<1> HIDE DEF r
<1>5. r.mem[r.at].dev = Device /\ Len(r.mem) >= Len(mem) /\ Len(r.mem) \in Nat
  BY <1>1, <1>2, <1>3, <1>4 DEF Reduced, Fits
<1>6. CASE scope.mode = "SNAPSHOT"
  <2>1. ~ Same
    BY <1>6 DEF Same
  <2>2. InHand(l).at > Len(mem) /\ Fits(InHand(l))
    BY <1>1, <1>6, StoredReduced DEF InHand, Reduced
  <2>q. QED BY <1>1, <2>1, <2>2 DEF Fits
<1>7. CASE scope.mode # "SNAPSHOT"
  <2>1. scope.mode = "REFERENCE" /\ InHand(l) = Placed(r)
    BY <1>1, <1>7 DEF Modes, InHand, Detached, r
  <2>2. CASE Device = "cpu"
    <3>1. Placed(r) = r
      BY <1>5, <2>2 DEF Placed, ToDevice
    <3>q. QED BY <1>2, <2>1, <2>2, <3>1 DEF Same
  <2>3. CASE Device # "cpu"
    <3>1. MovesToCpu
      BY <1>7, <2>3 DEF SharesAlike, Device
    <3>2. Placed(r) = CopyTo(r, "cpu")
      BY <1>5, <2>3, <3>1 DEF Placed, ToDevice
    <3>3. CopyTo(r, "cpu").at = Len(r.mem) + 1
      BY DEF CopyTo, New
    <3>q. QED BY <1>1, <1>5, <2>1, <2>3, <3>2, <3>3 DEF Same
  <2>q. QED BY <2>2, <2>3
<1>q. QED BY <1>6, <1>7

LEMMA CopiedSame ==
  ASSUME TypedInv, HandInv, due # <<>>
  PROVE  IF Same THEN Copied.at = out ELSE Copied.at \notin 1 .. Len(mem)
<1> DEFINE r == [mem |-> mem, at |-> out]
           copy == ToDevice(r, "cpu")
<1>1. MemInv /\ out \in 1 .. Len(mem) /\ Len(mem) \in Nat /\ scope.mode \in Modes /\ Fits(r)
  BY ScopeTypes DEF TypedInv, TensorInv, MemInv, Fits
<1>2. mem[out].dev = Device
  <2>1. mem[out] = Block(<<forwards>>, Device)
    BY DEF HandInv, OutInv
  <2>2. \A x, d : Block(x, d).dev = d
    BY DEF Block
  <2>q. QED BY <2>1, <2>2, Zenon
<1>3. r.mem = mem /\ r.at = out
  OBVIOUS
<1> HIDE DEF r
<1>4. Copies(r, copy)
  BY <1>1, ToDeviceCopies DEF Devices
<1>5. CASE Device = "cpu" /\ scope.mode = "REFERENCE"
  <2>1. copy = r
    BY <1>2, <1>3, <1>5 DEF ToDevice
  <2>2. Copied = r
    BY <1>5, <2>1 DEF Copied, Detached, r
  <2>q. QED BY <1>3, <1>5, <2>2 DEF Same
<1>6. CASE scope.mode = "SNAPSHOT"
  <2> HIDE DEF copy
  <2>1. Fits(copy) /\ Len(copy.mem) >= Len(mem) /\ Len(copy.mem) \in Nat
    BY <1>3, <1>4 DEF Copies, Fits
  <2>2. Clone(copy).at > Len(copy.mem) /\ Fits(Clone(copy))
    BY <2>1, CloneCopies DEF Copies
  <2>3. Copied = Clone(copy)
    BY <1>6 DEF Copied, Detached, copy, r
  <2>4. Clone(copy).at \in Nat
    BY <2>2 DEF Fits
  <2>q. QED BY <1>1, <1>6, <2>1, <2>2, <2>3, <2>4 DEF Same
<1>7. CASE Device # "cpu" /\ scope.mode = "REFERENCE"
  <2>1. copy = CopyTo(r, "cpu")
    BY <1>2, <1>3, <1>7 DEF ToDevice
  <2>2. Copied = copy
    BY <1>7 DEF Copied, Detached, r
  <2>3. CopyTo(r, "cpu").at = Len(mem) + 1
    BY <1>3 DEF CopyTo, New
  <2>q. QED BY <1>1, <1>7, <2>1, <2>2, <2>3 DEF Same
<1>q. QED BY <1>1, <1>5, <1>6, <1>7 DEF Modes

\* The layer whose hook it is: its capture waits for its twin.
LEMMA TwinHookHere ==
  ASSUME TypedInv, HandInv, HookCallback, scope.storage # "DISK", SharesAlike,
         Paired(due), NEW l \in Layers, l = Current, TwinAt(l)
  PROVE  TwinAt(l)'
<1> SUFFICES ASSUME conf[l] = "none" PROVE TwinAt(l)'
  BY HookEffect DEF TwinAt, TypedInv, TensorInv, hookVars
<1> DEFINE a == InHand(l).at
           s == accum[l]
           t == accum'[l]
           n == Listed(l)
<1>1. /\ MemInv /\ out \in 1 .. Len(mem) /\ due \in Seq(Hooks) /\ s \in Seq(Nat)
      /\ OwnInv
  BY DEF TypedInv, TensorInv, MemInv, AccumInv
<1>2. /\ Reduced(l, InHand(l)) /\ mem' = InHand(l).mem /\ Takes(l, a)
      /\ due # <<>> /\ Head(due) = "scope" /\ due' = Tail(due)
      /\ UNCHANGED <<scope, pos, out, conf, acts, own>>
  BY <1>1, HookEffect DEF hookVars, ghosts
<1>3. \A b \in 1 .. Len(mem) : mem'[b] = mem[b]
  BY HookTouched
<1>4. mem'[a].batches = mem'[out].batches
  <2>1. mem'[a].batches = mem[out].batches
    BY <1>2 DEF Reduced, Value
  <2>q. QED BY <1>1, <1>3, <2>1
<1>5. IF Same THEN a = out ELSE a \notin 1 .. Len(mem)
  BY <1>2, InHandSame
<1>6. a \in Nat
  BY <1>2 DEF Reduced, Fits
<1>7. ~ Behind(l) /\ Behind(l)' /\ Listed(l)' = n
  BY <1>1, <1>2, PairedTail DEF Behind, Current, Listed
<1>8. Len(s) = n /\ n \in Nat
  BY <1>1, <1>7 DEF TwinAt, TypedInv, ActsInv, Listed
<1> HIDE DEF a
<1>9. /\ Len(t) = IF conf[l] = "none" \/ s = <<>> THEN Len(s) + 1 ELSE Len(s)
      /\ t[Len(t)] = a
      /\ \A i \in 1 .. Len(t) - 1 : i \in 1 .. Len(s) /\ t[i] = s[i]
  BY <1>1, <1>2, <1>6, TakenEntries
<1>10. Len(t) = n + 1
  BY <1>8, <1>9
<1>11. LastAt(l)'
  <2>1. Same' <=> Same
    BY <1>2 DEF Same, Device
  <2>2. ~ Same => a \notin DOMAIN own'
    BY <1>1, <1>2, <1>5 DEF OwnInv
  <2> HIDE DEF t
  <2>3. /\ mem'[t[Len(t)]].batches = mem'[out'].batches
        /\ IF Same' THEN t[Len(t)] = out' ELSE t[Len(t)] \notin DOMAIN own'
    BY <1>2, <1>4, <1>5, <1>9, <2>1, <2>2
  <2>q. QED BY <2>3 DEF LastAt, t
<1>12. ASSUME l \in DOMAIN acts, NEW i \in 1 .. Len(acts[l])
       PROVE  Twin(accum[l][i], acts[l][i])'
  <2>1. Twin(s[i], acts[l][i]) /\ acts[l][i] \in 1 .. Len(mem) /\ n = Len(acts[l])
    BY <1>12 DEF TwinAt, TypedInv, ActsInv, Listed
  <2>2. i \in 1 .. Len(s) /\ i \in 1 .. Len(t) - 1
    BY <1>8, <1>10, <1>12, <2>1
  <2>3. s[i] \in 1 .. Len(mem) /\ t[i] = s[i]
    BY <1>1, <1>9, <2>2 DEF MemInv, AccumInv
  <2> HIDE DEF s
  <2>q. QED BY <1>2, <1>3, <2>1, <2>3 DEF Twin
<1> HIDE DEF n
<1>q. QED BY <1>2, <1>7, <1>10, <1>11, <1>12 DEF TwinAt, t

LEMMA TwinHookOthers ==
  ASSUME TypedInv, HandInv, UnlikeInv, HookCallback, scope.storage # "DISK",
         NEW k \in Layers, k # Current, TwinAt(k)
  PROVE  TwinAt(k)'
<1>1. /\ MemInv /\ out \in 1 .. Len(mem)
      /\ Takes(Current, InHand(Current).at) /\ Current \in Layers
      /\ Reduced(Current, InHand(Current))
      /\ UNCHANGED <<scope, pos, out, conf, acts, own>>
  BY HookEffect DEF TypedInv, TensorInv, MemInv, hookVars, ghosts
<1>2. InHand(Current).at \in Nat
  BY <1>1 DEF Reduced, Fits
<1>3. accum'[k] = accum[k]
  BY <1>1, <1>2, TakenEntries
<1>4. ~ Behind(k) /\ ~ Behind(k)'
  BY <1>1 DEF Behind, Current
<1>5. ASSUME NEW b \in 1 .. Len(mem), mem'[b] # mem[b]
      PROVE  ~ Holds(accum, k, b) /\ b # out /\ ~ (k \in DOMAIN acts /\ Lists(k, b))
  <2>1. Holds(accum, Current, b) /\ conf[Current] = "max" /\ b # out
    BY <1>5, HookTouched
  <2>2. ~ Holds(accum, k, b)
    BY <1>5, HookTouched
  <2>q. QED BY <1>1, <2>1, <2>2 DEF UnlikeInv
<1>6. \A b : Holds(accum, k, b) => b \in 1 .. Len(mem) /\ mem'[b].batches = mem[b].batches
  BY <1>1, <1>5, HoldsOld
<1>7. \A b : k \in DOMAIN acts /\ Lists(k, b) => mem'[b].batches = mem[b].batches
  BY <1>5, ListsOld
<1>8. mem'[out].batches = mem[out].batches
  BY <1>1, <1>5
<1>q. QED BY <1>1, <1>3, <1>4, <1>6, <1>7, <1>8, KeepTwins

LEMMA ParHook ==
  ASSUME TypedInv, HandInv, ParInv, HookCallback
  PROVE  ParInv'
<1>1. /\ MemInv /\ due # <<>> /\ due \in Seq(Hooks) /\ due' = Tail(due)
      /\ UNCHANGED <<scope, conf, acts, hooks, apart, own>>
  BY HookEffect DEF TypedInv, TensorInv, MemInv, hookVars, ghosts
<1> SUFFICES ASSUME ~ apart PROVE PairInv' /\ UnlikeInv' /\ TwinInv'
  BY <1>1 DEF ParInv
<1>2. PairInv /\ UnlikeInv /\ TwinInv
  BY DEF ParInv
<1>3. PairInv'
  <2>1. Paired(Tail(due))
    BY <1>1, <1>2, PairedTail DEF PairInv
  <2>2. Paired(due)' /\ \A l \in Layers : Whole(hooks[l])'
    BY <1>1, <1>2, <2>1 DEF PairInv, Paired, Whole
  <2>q. QED BY <2>2 DEF PairInv, Paired, Whole
<1>4. UnlikeInv'
  <2> SUFFICES ASSUME NEW k \in Layers, NEW l \in DOMAIN acts, NEW b,
                      Holds(accum', k, b), Lists(l, b), conf[k] # "none"
               PROVE  FALSE
    BY <1>1 DEF UnlikeInv, Lists, Holds
  <2>1. b \in 1 .. Len(mem)
    BY ListsOld
  <2>2. Holds(accum, k, b)
    BY <1>1, <2>1, HookHolds
  <2>q. QED BY <1>2, <2>1, <2>2 DEF UnlikeInv
<1>5. TwinInv'
  <2> SUFFICES ASSUME scope.storage # "DISK", SharesAlike, NEW l \in Layers PROVE TwinAt(l)'
    BY <1>1 DEF TwinInv, SharesAlike, MovesToCpu
  <2>1. TwinAt(l) /\ Paired(due)
    BY <1>2 DEF TwinInv, PairInv
  <2>q. QED BY <1>2, <2>1, TwinHookHere, TwinHookOthers
<1>q. QED BY <1>3, <1>4, <1>5

LEMMA ParNaive ==
  ASSUME TypedInv, HandInv, ParInv, NaiveHook
  PROVE  ParInv'
<1> SUFFICES ASSUME ~ apart' PROVE ParInv'
  BY DEF ParInv
<1> DEFINE l == Current
           c == Copied.at
           t == Append(acts[l], c)
<1>1. /\ due # <<>> /\ Head(due) = "naive" /\ l \in DOMAIN acts
      /\ acts' = [acts EXCEPT ![l] = t] /\ mem' = Copied.mem /\ due' = Tail(due)
      /\ UNCHANGED <<scope, pos, out, hooks, conf, accum, own, apart>>
  BY DEF NaiveHook, Copied, progVars, hookVars
<1>2. /\ MemInv /\ MemGrows /\ due \in Seq(Hooks) /\ out \in 1 .. Len(mem) /\ OwnInv
      /\ PairInv /\ UnlikeInv /\ TwinInv
  BY <1>1, NaiveHookStep DEF TypedInv, TensorInv, MemInv, ParInv
<1>3. /\ c \in Nat /\ mem'[c].batches = mem'[out].batches
      /\ IF Same THEN c = out ELSE c \notin 1 .. Len(mem)
  <2>1. /\ Fits(Copied) /\ mem'[c].batches = mem[out].batches
    BY <1>1, NaiveEffect
  <2>2. mem'[out] = mem[out]
    BY <1>2 DEF MemGrows
  <2>q. QED BY <1>1, <2>1, <2>2, CopiedSame DEF Fits
<1> HIDE DEF c
<1>4. /\ acts[l] \in Seq(Nat) /\ Len(acts[l]) \in Nat /\ l \in Layers
      /\ \A k \in DOMAIN acts : acts[k] \in Seq(Nat)
  BY <1>1 DEF TypedInv, ActsInv
<1>5. /\ Len(t) = Len(acts[l]) + 1 /\ t[Len(acts[l]) + 1] = c
      /\ \A i \in 1 .. Len(acts[l]) : t[i] = acts[l][i]
  BY <1>3, <1>4
<1>6. /\ DOMAIN acts' = DOMAIN acts /\ acts'[l] = t
      /\ \A k \in DOMAIN acts : k # l => acts'[k] = acts[k]
  BY <1>1
<1> HIDE DEF t
<1>7. PairInv'
  <2>1. Paired(Tail(due))
    BY <1>1, <1>2, PairedTail DEF PairInv
  <2>2. Paired(due)' /\ \A k \in Layers : Whole(hooks[k])'
    BY <1>1, <1>2, <2>1 DEF PairInv, Paired, Whole
  <2>q. QED BY <2>2 DEF PairInv, Paired, Whole
<1>8. UnlikeInv'
  <2> SUFFICES ASSUME NEW k \in Layers, NEW j \in DOMAIN acts, NEW b, NEW i \in 1 .. Len(acts'[j]),
                      Holds(accum, k, b), acts'[j][i] = b, conf[k] # "none"
               PROVE  FALSE
    BY <1>1, <1>6 DEF UnlikeInv, Lists, Holds
  <2>1. b \in 1 .. Len(mem)
    BY <1>2, HoldsOld
  <2>2. ~ Lists(j, b)
    BY <1>2, <2>1 DEF UnlikeInv
  <2>3. j = l /\ b = c
    <3>1. j = l
      BY <1>6, <2>2 DEF Lists
    <3>2. i \in 1 .. Len(acts[l]) \/ i = Len(acts[l]) + 1
      BY <1>4, <1>5, <1>6, <3>1
    <3>q. QED BY <1>5, <1>6, <2>2, <3>1, <3>2 DEF Lists
  <2>4. b = out
    BY <1>3, <2>1, <2>3
  <2>q. QED BY <1>1, <2>4 DEF HandInv, OutInv
<1>9. TwinInv'
  <2> SUFFICES ASSUME scope.storage # "DISK", SharesAlike, NEW k \in Layers PROVE TwinAt(k)'
    BY <1>1 DEF TwinInv, SharesAlike, MovesToCpu
  <2>1. TwinAt(k)
    BY <1>2 DEF TwinInv
  <2>2. \A b \in 1 .. Len(mem) : mem'[b] = mem[b]
    BY <1>2 DEF MemGrows
  <2>3. CASE k # l
    <3>1. ~ Behind(k) /\ ~ Behind(k)'
      BY <1>1, <2>3 DEF Behind, Current
    <3>2. \A b : Holds(accum, k, b) => mem'[b].batches = mem[b].batches
      BY <1>2, <2>2, HoldsOld
    <3>3. \A b : k \in DOMAIN acts /\ Lists(k, b) => mem'[b].batches = mem[b].batches
      BY <2>2, ListsOld
    <3>4. k \in DOMAIN acts => acts'[k] = acts[k]
      BY <1>6, <2>3
    <3>q. QED BY <1>1, <1>2, <1>6, <2>1, <2>2, <3>1, <3>2, <3>3, <3>4, KeepTwins
  <2>4. ASSUME k = l, conf[k] = "none" PROVE TwinAt(k)'
    <3> DEFINE s == accum[k]
               u == acts[k]
               n == Len(u)
    <3>1. /\ Behind(k) /\ ~ Behind(k)' /\ Listed(k) = n /\ Listed(k)' = n + 1
      <4>1. Behind(k) /\ Listed(k) = n /\ Listed(k)' = n + 1
        BY <1>1, <1>5, <1>6, <2>4 DEF Behind, Listed
      <4>2. ~ Behind(k)'
        BY <1>1, <1>2, PairedTail DEF Behind, PairInv
      <4>q. QED BY <4>1, <4>2
    <3>2. /\ n \in Nat /\ Len(s) = n + 1 /\ LastAt(k)
          /\ \A i \in 1 .. n : Twin(s[i], u[i])
      BY <1>1, <1>4, <2>1, <2>4, <3>1 DEF TwinAt
    <3>3. \A i \in 1 .. Len(s) : s[i] \in 1 .. Len(mem)
      BY <1>2 DEF MemInv, AccumInv
    <3>4. \A i \in 1 .. n : u[i] \in 1 .. Len(mem)
      BY <1>1, <2>4 DEF TypedInv, ActsInv
    <3>5. s[n + 1] \in 1 .. Len(mem) /\ mem[s[n + 1]].batches = mem[out].batches
          /\ IF Same THEN s[n + 1] = out ELSE s[n + 1] \notin DOMAIN own
      <4>1. n + 1 \in 1 .. Len(s)
        BY <3>2
      <4>q. QED BY <3>2, <3>3, <4>1 DEF LastAt
    <3>6. /\ accum'[k] = s /\ Len(acts'[k]) = n + 1 /\ acts'[k][n + 1] = c
          /\ \A i \in 1 .. n : acts'[k][i] = u[i]
      BY <1>1, <1>5, <1>6, <2>4
    <3> HIDE DEF s, u, n
    <3>7. ASSUME NEW i \in 1 .. n + 1
          PROVE  /\ mem'[s[i]].batches = mem'[acts'[k][i]].batches
                 /\ \/ s[i] = acts'[k][i]
                    \/ s[i] \notin DOMAIN own' /\ acts'[k][i] \notin DOMAIN own'
      <4>1. CASE i = n + 1
        <5>1. mem'[s[i]].batches = mem[out].batches /\ mem'[out] = mem[out]
          BY <1>2, <2>2, <3>5, <4>1
        <5>2. c \notin 1 .. Len(mem) => c \notin DOMAIN own'
          BY <1>1, <1>2 DEF OwnInv
        <5>q. QED BY <1>1, <1>3, <3>5, <3>6, <4>1, <5>1, <5>2
      <4>2. CASE i # n + 1
        <5>1. i \in 1 .. n /\ i \in 1 .. Len(s)
          BY <3>2, <4>2
        <5>2. /\ s[i] \in 1 .. Len(mem) /\ u[i] \in 1 .. Len(mem)
              /\ Twin(s[i], u[i]) /\ acts'[k][i] = u[i]
          BY <3>2, <3>3, <3>4, <3>6, <5>1
        <5>q. QED BY <1>1, <2>2, <5>2 DEF Twin
      <4>q. QED BY <4>1, <4>2
    <3>8. \A i \in 1 .. Len(acts'[k]) : Twin(accum[k][i], acts[k][i])'
      BY <3>6, <3>7 DEF Twin
    <3>9. Len(accum'[k]) = (n + 1) + 0
      BY <3>2, <3>6
    <3>q. QED BY <3>1, <3>8, <3>9 DEF TwinAt
  <2>q. QED BY <1>1, <2>3, <2>4 DEF TwinAt
<1>q. QED BY <1>7, <1>8, <1>9 DEF ParInv

LEMMA ParStep ==
  ASSUME TypedInv, HandInv, ParInv, [Next]_vars
  PROVE  ParInv'
<1>1. CASE RunLayer \/ HookCallback \/ NaiveHook \/ ExitTrack
  BY <1>1, ParRunLayer, ParHook, ParNaive, ParExitTrack
<1>2. ASSUME ForwardRaises \/ Readback \/ CaptureParameters \/ UNCHANGED vars
             \/ \E kind \in Kinds \ {"none"} : RegisterReduction(kind)
      PROVE  ParInv'
  <2>1. MemGrows
    BY <1>2, ForwardRaisesStep, ReadbackStep, CaptureParametersStep,
       RegisterReductionStep, SameMemory DEF TypedInv, vars
  <2>q. QED BY <1>2, <2>1, ParRest
<1>3. ASSUME NEW targets \in Targets, EnterTrack(targets) PROVE ParInv'
  BY <1>3, ParEnterTrack
<1>4. ASSUME (\E targets \in Targets : Attach(targets)) \/ \E l \in Layers : InitAccumulator(l)
      PROVE  ParInv'
  BY <1>4 DEF Attach, InitAccumulator, ParInv
<1>5. ASSUME NEW b \in DOMAIN own, Overwrite(b) PROVE ParInv'
  BY <1>5, ParOverwrite
<1>q. QED BY <1>1, <1>2, <1>3, <1>4, <1>5 DEF Next, Finished

\* Driven alike, the scope and the pure Python tracker have captured the same
\* layers, as often and with the same values (tests/test_parity.py).
THEOREM TrackersAgree == Spec => []Parity
<1>1. Init => TypedInv /\ HandInv /\ ParInv
  BY TypedInit, HandInit, ParInit
<1>2. TypedInv /\ HandInv /\ ParInv /\ [Next]_vars => TypedInv' /\ HandInv' /\ ParInv'
  BY TypedStep, HandStep, ParStep
<1>q. QED BY <1>1, <1>2, ParImplies, PTL DEF Spec
=============================================================================
