--------------------------- MODULE CapturePolicy ---------------------------
(***************************************************************************)
(* The admission decision of a hook: which policy a session runs under and *)
(* which fires of a hook it lets through.  Pure operators, shared by the   *)
(* modules that model a hook's path.                                       *)
(*                                                                         *)
(*   activationscope/tracker.py   ActivationScope.__init__ (the knobs)     *)
(*   csrc/session.cpp             make_config (the policy)                 *)
(*   csrc/capture_policy.cpp      CaptureCounter::should_capture           *)
(***************************************************************************)
EXTENDS Integers

Policies == {"EVERY", "SAMPLE_N", "MAX_K"}

\* The knobs the constructor forwards: a knob that belongs to another policy
\* than the requested one is neutralised, whatever the caller passed.
Knobs(capture, sampleEvery, maxBatches) ==
  [sampleEvery |-> IF capture = "SAMPLE_N" THEN sampleEvery ELSE 1,
   maxBatches  |-> IF capture = "MAX_K" THEN maxBatches ELSE 0]

\* The policy make_config derives from the knobs alone: the requested policy
\* itself never reaches the C++ side.
MakeConfig(knobs) ==
  [policy      |-> IF knobs.maxBatches > 0 THEN "MAX_K"
                   ELSE IF knobs.sampleEvery > 1 THEN "SAMPLE_N"
                   ELSE "EVERY",
   sampleEvery |-> knobs.sampleEvery,
   maxBatches  |-> knobs.maxBatches]

\* should_capture, first half: the counter after one fire (fetch_add).
Tick(cfg, count) == IF cfg.policy = "EVERY" THEN count ELSE count + 1

\* Seeded fault: the verdict uses the count from before the increment.
AdmitsByOldCount(cfg, count) ==
  \/ cfg.policy = "EVERY"
  \/ cfg.policy = "SAMPLE_N" /\ count % cfg.sampleEvery = 0
  \/ cfg.policy = "MAX_K" /\ count <= cfg.maxBatches

\* should_capture, second half: the verdict on the fire that saw this count.
Admits(cfg, count) ==
  \/ cfg.policy = "EVERY"
  \/ cfg.policy = "SAMPLE_N" /\ (count + 1) % cfg.sampleEvery = 0
  \/ cfg.policy = "MAX_K" /\ count + 1 <= cfg.maxBatches

=============================================================================
