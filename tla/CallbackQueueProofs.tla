------------------------- MODULE CallbackQueueProofs -------------------------
(***************************************************************************)
(* Proofs about the callback queue for every capacity and every set of     *)
(* heap blocks.  The argument follows one sequence, Owned: every job the   *)
(* queue or its worker owns, in order of acceptance.  Each critical        *)
(* section appends to it, drops its head, cuts its tail or leaves it as it *)
(* is; ownership, accounting and the refinement of the mailbox are read    *)
(* off those four facts.                                                   *)
(* Then what the delivery of events makes of the queue: that it drives it  *)
(* only through its operations, and what its subscriber can rely on.       *)
(***************************************************************************)
EXTENDS EventDelivery, SequenceTheorems, TLAPS

-----------------------------------------------------------------------------
(* Sequences without repetition.                                            *)

Distinct(s) == \A i, k \in DOMAIN s : s[i] = s[k] => i = k

LEMMA JobsAppend ==
    ASSUME NEW s \in Seq(Job), NEW j \in Job
    PROVE  /\ Jobs(Append(s, j)) = Jobs(s) \cup {j}
           /\ Distinct(s) /\ j \notin Jobs(s) => Distinct(Append(s, j))
<1>1. /\ Len(Append(s, j)) = Len(s) + 1
      /\ \A i \in 1 .. Len(s) : Append(s, j)[i] = s[i]
      /\ Append(s, j)[Len(s) + 1] = j
      /\ DOMAIN Append(s, j) = 1 .. Len(s) + 1
      /\ DOMAIN s = 1 .. Len(s)
      /\ Len(s) \in Nat
  BY AppendProperties
<1>2. 1 .. Len(s) + 1 = (1 .. Len(s)) \cup {Len(s) + 1}
  BY <1>1
<1>. QED
  BY <1>1, <1>2 DEF Jobs, Distinct

LEMMA JobsTail ==
    ASSUME NEW s \in Seq(Job), s # <<>>, Distinct(s)
    PROVE  /\ Jobs(Tail(s)) = Jobs(s) \ {Head(s)}
           /\ Distinct(Tail(s))
<1>1. /\ Len(Tail(s)) = Len(s) - 1
      /\ \A i \in 1 .. Len(s) - 1 : Tail(s)[i] = s[i + 1]
      /\ DOMAIN Tail(s) = 1 .. Len(s) - 1
      /\ DOMAIN s = 1 .. Len(s)
      /\ Len(s) \in Nat \ {0}
      /\ Head(s) = s[1]
  BY HeadTailProperties, EmptySeq
<1>2. Distinct(Tail(s))
  BY <1>1 DEF Distinct
<1>3. ASSUME NEW x \in Jobs(s) \ {Head(s)}
      PROVE  x \in Jobs(Tail(s))
  <2>1. PICK i \in 1 .. Len(s) : x = s[i] /\ i # 1
    BY <1>1, <1>3 DEF Jobs
  <2>2. i - 1 \in 1 .. Len(s) - 1 /\ Tail(s)[i - 1] = s[i]
    BY <1>1, <2>1
  <2>. QED
    BY <1>1, <2>1, <2>2 DEF Jobs
<1>4. ASSUME NEW x \in Jobs(Tail(s))
      PROVE  x \in Jobs(s) \ {Head(s)}
  BY <1>1, <1>4 DEF Jobs, Distinct
<1>. QED
  BY <1>2, <1>3, <1>4

LEMMA JobsHead ==
    ASSUME NEW s \in Seq(Job), s # <<>>
    PROVE  /\ Head(s) \in Job /\ Head(s) \in Jobs(s)
           /\ Tail(s) \in Seq(Job) /\ Len(Tail(s)) = Len(s) - 1
           /\ Len(s) \in Nat \ {0}
<1>1. Head(s) = s[1] /\ 1 \in DOMAIN s
  OBVIOUS
<1>. QED
  BY <1>1, HeadTailProperties, EmptySeq DEF Jobs

LEMMA JobsConcat ==
    ASSUME NEW s \in Seq(Job), NEW t \in Seq(Job)
    PROVE  /\ Jobs(s \o t) = Jobs(s) \cup Jobs(t)
           /\ Distinct(s \o t) <=> Distinct(s) /\ Distinct(t) /\ Jobs(s) \cap Jobs(t) = {}
<1>1. /\ s \o t \in Seq(Job)
      /\ Len(s \o t) = Len(s) + Len(t)
      /\ \A i \in 1 .. Len(s) + Len(t) :
            (s \o t)[i] = IF i <= Len(s) THEN s[i] ELSE t[i - Len(s)]
      /\ DOMAIN (s \o t) = 1 .. Len(s) + Len(t)
      /\ DOMAIN s = 1 .. Len(s) /\ DOMAIN t = 1 .. Len(t)
      /\ Len(s) \in Nat /\ Len(t) \in Nat
  BY ConcatProperties, LenProperties
<1>2. \A i \in 1 .. Len(s) : i \in 1 .. Len(s) + Len(t) /\ (s \o t)[i] = s[i]
  BY <1>1
<1>3. \A i \in 1 .. Len(t) : Len(s) + i \in 1 .. Len(s) + Len(t) /\ (s \o t)[Len(s) + i] = t[i]
  BY <1>1
<1>4. \A i \in 1 .. Len(s) + Len(t) :
         \/ i \in 1 .. Len(s)
         \/ \E k \in 1 .. Len(t) : i = Len(s) + k
  <2>. SUFFICES ASSUME NEW i \in 1 .. Len(s) + Len(t), i \notin 1 .. Len(s)
                PROVE  \E k \in 1 .. Len(t) : i = Len(s) + k
    OBVIOUS
  <2>1. i - Len(s) \in 1 .. Len(t) /\ i = Len(s) + (i - Len(s))
    BY <1>1
  <2>. QED
    BY <2>1
<1>5. Jobs(s \o t) = Jobs(s) \cup Jobs(t)
  <2>1. ASSUME NEW i \in 1 .. Len(s) + Len(t)
        PROVE  (s \o t)[i] \in Jobs(s) \cup Jobs(t)
    <3>1. CASE i \in 1 .. Len(s)
      BY <1>1, <1>2, <3>1 DEF Jobs
    <3>2. ASSUME NEW k \in 1 .. Len(t), i = Len(s) + k
          PROVE  (s \o t)[i] \in Jobs(t)
      BY <1>1, <1>3, <3>2 DEF Jobs
    <3>. QED
      BY <1>4, <3>1, <3>2
  <2>2. ASSUME NEW i \in 1 .. Len(s)
        PROVE  s[i] \in Jobs(s \o t)
    BY <1>1, <1>2 DEF Jobs
  <2>3. ASSUME NEW k \in 1 .. Len(t)
        PROVE  t[k] \in Jobs(s \o t)
    BY <1>1, <1>3 DEF Jobs
  <2>4. Jobs(s \o t) \subseteq Jobs(s) \cup Jobs(t)
    BY <1>1, <2>1 DEF Jobs
  <2>5. Jobs(s) \subseteq Jobs(s \o t)
    BY <1>1, <2>2 DEF Jobs
  <2>6. Jobs(t) \subseteq Jobs(s \o t)
    BY <1>1, <2>3 DEF Jobs
  <2>. QED
    BY <2>4, <2>5, <2>6
<1>6. Distinct(s \o t) => Distinct(s) /\ Distinct(t) /\ Jobs(s) \cap Jobs(t) = {}
  <2>. SUFFICES ASSUME Distinct(s \o t)
                PROVE  Distinct(s) /\ Distinct(t) /\ Jobs(s) \cap Jobs(t) = {}
    OBVIOUS
  <2>1. Distinct(s)
    BY <1>1, <1>2, SMTT(30) DEF Distinct
  <2>2. ASSUME NEW i \in 1 .. Len(t), NEW k \in 1 .. Len(t), t[i] = t[k]
        PROVE  i = k
    <3>1. (s \o t)[Len(s) + i] = t[i] /\ (s \o t)[Len(s) + k] = t[k]
      BY <1>3
    <3>2. Len(s) + i \in 1 .. Len(s \o t) /\ Len(s) + k \in 1 .. Len(s \o t)
      BY <1>1
    <3>3. Len(s) + i = Len(s) + k
      BY <1>1, <2>2, <3>1, <3>2 DEF Distinct
    <3>. QED
      BY <1>1, <3>3
  <2>3. ASSUME NEW i \in 1 .. Len(s), NEW k \in 1 .. Len(t), s[i] = t[k]
        PROVE  FALSE
    BY <1>1, <1>2, <1>3, <2>3 DEF Distinct
  <2>. QED
    BY <1>1, <2>1, <2>2, <2>3 DEF Jobs, Distinct
<1>7. Distinct(s) /\ Distinct(t) /\ Jobs(s) \cap Jobs(t) = {} => Distinct(s \o t)
  <2>. SUFFICES ASSUME Distinct(s), Distinct(t), Jobs(s) \cap Jobs(t) = {},
                       NEW i \in 1 .. Len(s) + Len(t), NEW k \in 1 .. Len(s) + Len(t),
                       (s \o t)[i] = (s \o t)[k]
                PROVE  i = k
    BY <1>1 DEF Distinct
  <2>1. \A a \in 1 .. Len(s), b \in 1 .. Len(t) : s[a] # t[b]
    BY <1>1 DEF Jobs
  <2>2. CASE i <= Len(s) /\ k <= Len(s)
    BY <1>1, <2>2 DEF Distinct
  <2>3. CASE i > Len(s) /\ k > Len(s)
    <3>1. i - Len(s) \in 1 .. Len(t) /\ k - Len(s) \in 1 .. Len(t)
      BY <1>1, <2>3
    <3>2. t[i - Len(s)] = t[k - Len(s)]
      BY <1>1, <2>3
    <3>3. i - Len(s) = k - Len(s)
      BY <1>1, <3>1, <3>2 DEF Distinct
    <3>. QED
      BY <1>1, <3>3
  <2>4. CASE i <= Len(s) /\ k > Len(s)
    BY <1>1, <2>1, <2>4, k - Len(s) \in 1 .. Len(t)
  <2>5. CASE i > Len(s) /\ k <= Len(s)
    BY <1>1, <2>1, <2>5, i - Len(s) \in 1 .. Len(t)
  <2>. QED
    BY <1>1, <2>2, <2>3, <2>4, <2>5
<1>. QED
  BY <1>5, <1>6, <1>7

LEMMA JobsEmpty == Jobs(<<>>) = {} /\ Distinct(<<>>) /\ Len(<<>>) = 0 /\ <<>> \in Seq(Job)
BY EmptySeq DEF Jobs, Distinct

LEMMA JobsSingle ==
    ASSUME NEW j \in Job
    PROVE  <<j>> \in Seq(Job) /\ Jobs(<<j>>) = {j} /\ Distinct(<<j>>) /\ Len(<<j>>) = 1
BY DEF Jobs, Distinct

-----------------------------------------------------------------------------
(* The inductive invariant.                                                 *)

\* The worker's own job, as a set.
Active == {current} \ {NoJob}

\* Ownership, piece by piece: the three places are repetition-free, disjoint
\* and hold exactly the allocated blocks.
Pieces ==
    /\ allocated = Jobs(done) \cup Active \cup Jobs(pending)
    /\ Distinct(done) /\ Distinct(pending)
    /\ Jobs(done) \cap Jobs(pending) = {}
    /\ Active \cap Jobs(done) = {}
    /\ Active \cap Jobs(pending) = {}

Counts ==
    ~stopped => /\ outstanding = Len(done) + Len(pending) + (IF current = NoJob THEN 0 ELSE 1)
                /\ outstanding <= Capacity

\* Where the worker stands, and what stopping leaves behind.
Stages ==
    /\ worker \in {"posting", "posted"} <=> current # NoJob
    /\ released <=> worker = "exited"
    /\ released => stopped
    /\ stopped => pending = <<>> /\ done = <<>> /\ main = "loop"

Results ==
    /\ ResultsBeforeHandover
    /\ worker = "posted" => result[current] # "none"
    /\ \A j \in Job \ allocated : result[j] = "none"

IInv ==
    /\ QueueTypeOK
    /\ Pieces
    /\ Counts
    /\ NotifyMatchesDone
    /\ Stages
    /\ Results
    /\ NoLostWakeup

LEMMA InitIInv == QueueInit => IInv
<1>. SUFFICES ASSUME QueueInit PROVE IInv
  OBVIOUS
<1>. USE QueueAssumption, JobsEmpty
<1>1. QueueTypeOK
  BY DEF QueueInit, QueueTypeOK
<1>2. Pieces
  BY DEF QueueInit, Pieces, Active
<1>3. Counts /\ NotifyMatchesDone
  BY DEF QueueInit, Counts, NotifyMatchesDone
<1>4. Stages /\ Results /\ NoLostWakeup
  BY DEF QueueInit, Stages, Results, ResultsBeforeHandover, NoLostWakeup
<1>. QED
  BY <1>1, <1>2, <1>3, <1>4 DEF IInv

-----------------------------------------------------------------------------
(* Every step preserves it.                                                 *)

LEMMA SubmitIInv == ASSUME IInv, NEW j \in Job, Submit(j) PROVE IInv'
<1>. USE QueueAssumption, JobsAppend DEF IInv, QueueTypeOK, Submit, QueuedLast, Idle, Signal
<1>1. QueueTypeOK'
  BY AppendProperties
<1>2. Pieces'
  BY DEF Pieces, Active
<1>3. Counts'
  BY AppendProperties DEF Counts, Full
<1>4. NotifyMatchesDone' /\ NoLostWakeup'
  BY DEF NotifyMatchesDone, NoLostWakeup
<1>5. Stages'
  BY DEF Stages
<1>6. Results'
  BY DEF Results, ResultsBeforeHandover, Pieces
<1>. QED
  BY <1>1, <1>2, <1>3, <1>4, <1>5, <1>6

LEMMA TakeIInv == ASSUME IInv, Take PROVE IInv'
<1>. USE QueueAssumption DEF IInv, QueueTypeOK, Take, Free, ByteRead
<1>1. /\ Head(done) \in Job /\ Head(done) \in Jobs(done)
      /\ Tail(done) \in Seq(Job) /\ Len(Tail(done)) = Len(done) - 1
      /\ Jobs(Tail(done)) = Jobs(done) \ {Head(done)} /\ Distinct(Tail(done))
      /\ Len(done) \in Nat \ {0} /\ ~stopped
  BY JobsHead, JobsTail DEF Pieces, Stages
<1>2. Pieces'
  BY <1>1 DEF Pieces, Active
<1>3. Counts' /\ outstanding' \in Nat
  BY <1>1, LenProperties DEF Counts
<1>4. NotifyMatchesDone' /\ notify' \in Nat /\ NoLostWakeup'
  BY <1>1 DEF NotifyMatchesDone, NoLostWakeup
<1>5. QueueTypeOK'
  BY <1>1, <1>3, <1>4
<1>6. Stages'
  BY <1>1 DEF Stages
<1>7. Results'
  BY <1>1 DEF Results, ResultsBeforeHandover, Pieces, Active, Stages
<1>. QED
  BY <1>2, <1>3, <1>4, <1>5, <1>6, <1>7

LEMMA DiscardIInv == ASSUME IInv, DiscardPending PROVE IInv'
<1>. USE QueueAssumption, JobsEmpty, LenProperties
     DEF IInv, QueueTypeOK, DiscardPending, Free, Idle, Uncounted
<1>1. Pieces'
  BY DEF Pieces, Active
<1>2. Counts' /\ outstanding' \in Nat
  BY DEF Counts
<1>3. QueueTypeOK'
  BY <1>2 DEF Pieces
<1>4. NotifyMatchesDone' /\ NoLostWakeup'
  BY DEF NotifyMatchesDone, NoLostWakeup
<1>5. Stages'
  BY DEF Stages
<1>6. Results'
  BY DEF Results, ResultsBeforeHandover, Pieces, Active, Stages
<1>. QED
  BY <1>1, <1>2, <1>3, <1>4, <1>5, <1>6

LEMMA CloseIInv == ASSUME IInv, Close PROVE IInv'
<1>. USE QueueAssumption, JobsEmpty, LenProperties
     DEF IInv, QueueTypeOK, Close, Free, Idle, Uncounted, ClosedJobs, Signal
<1>1. Pieces'
  BY DEF Pieces, Active
<1>2. Counts' /\ outstanding' \in Nat
  BY DEF Counts
<1>3. QueueTypeOK'
  BY <1>2
<1>4. NotifyMatchesDone' /\ NoLostWakeup'
  BY DEF NotifyMatchesDone, NoLostWakeup
<1>5. Stages'
  BY DEF Stages
<1>6. Results'
  BY DEF Results, ResultsBeforeHandover, Pieces, Active, Stages
<1>. QED
  BY <1>1, <1>2, <1>3, <1>4, <1>5, <1>6

LEMMA BeginIInv == ASSUME IInv, WorkerBegin PROVE IInv'
<1>. USE QueueAssumption DEF IInv, QueueTypeOK, WorkerBegin
<1>1. /\ Head(pending) \in Job /\ Head(pending) \in Jobs(pending)
      /\ Tail(pending) \in Seq(Job) /\ Len(Tail(pending)) = Len(pending) - 1
      /\ Jobs(Tail(pending)) = Jobs(pending) \ {Head(pending)} /\ Distinct(Tail(pending))
      /\ Len(pending) \in Nat \ {0} /\ current = NoJob
  BY JobsHead, JobsTail DEF Pieces, Stages
<1>2. QueueTypeOK'
  BY <1>1
<1>3. Pieces'
  BY <1>1 DEF Pieces, Active
<1>4. Counts'
  <2>1. /\ outstanding = Len(done) + Len(pending) /\ outstanding <= Capacity
        /\ Len(done) \in Nat
    BY <1>1, LenProperties DEF Counts
  <2>2. /\ Len(pending') = Len(pending) - 1 /\ current' # NoJob
        /\ UNCHANGED <<outstanding, done, stopped>>
    BY <1>1
  <2>. QED
    BY <1>1, <2>1, <2>2 DEF Counts
<1>5. NotifyMatchesDone' /\ NoLostWakeup'
  BY DEF NotifyMatchesDone, NoLostWakeup
<1>6. Stages'
  BY <1>1 DEF Stages
<1>7. Results'
  BY <1>1 DEF Results, ResultsBeforeHandover
<1>. QED
  BY <1>2, <1>3, <1>4, <1>5, <1>6, <1>7

LEMMA PostIInv == ASSUME IInv, NEW o \in Outcome, WorkerPost(o) PROVE IInv'
<1>. USE QueueAssumption DEF IInv, QueueTypeOK, WorkerPost
<1>1. current \in Job /\ current \in allocated /\ current \notin Jobs(pending)
  BY DEF Stages, Pieces, Active
<1>2. QueueTypeOK' /\ Pieces' /\ Counts' /\ NotifyMatchesDone' /\ NoLostWakeup'
  BY DEF Pieces, Active, Counts, NotifyMatchesDone, NoLostWakeup
<1>3. Stages'
  BY DEF Stages
<1>4. Results'
  BY <1>1 DEF Results, ResultsBeforeHandover
<1>. QED
  BY <1>2, <1>3, <1>4

LEMMA FinishIInv == ASSUME IInv, WorkerFinish PROVE IInv'
<1>. USE QueueAssumption DEF IInv, QueueTypeOK, WorkerFinish, PostEnded
<1>1. current \in Job /\ current \in allocated /\ current \notin Jobs(done)
      /\ current \notin Jobs(pending) /\ current' = NoJob
  BY DEF Stages, Pieces, Active
<1>2. CASE stopped
  <2>. USE <1>2 DEF Free
  <2>1. done = <<>> /\ pending = <<>> /\ Jobs(<<>>) = {}
    BY JobsEmpty DEF Stages
  <2>2. QueueTypeOK' /\ Counts' /\ NotifyMatchesDone' /\ NoLostWakeup'
    BY DEF Counts, NotifyMatchesDone, NoLostWakeup
  <2>3. Pieces'
    BY <1>1, <2>1 DEF Pieces, Active
  <2>4. Stages'
    BY DEF Stages
  <2>5. Results'
    BY <1>1, <2>1 DEF Results, ResultsBeforeHandover
  <2>. QED
    BY <2>2, <2>3, <2>4, <2>5
<1>3. CASE ~stopped
  <2>1. /\ done' = Append(done, current) /\ notify' = notify + 1
        /\ Append(done, current) \in Seq(Job)
        /\ Len(Append(done, current)) = Len(done) + 1
        /\ Jobs(Append(done, current)) = Jobs(done) \cup {current}
        /\ Distinct(Append(done, current))
        /\ Len(done) \in Nat /\ Len(pending) \in Nat
        /\ UNCHANGED <<allocated, result, stopped, outstanding, pending, released, main>>
    BY <1>1, <1>3, JobsAppend, AppendProperties, LenProperties DEF Pieces
  <2>2. QueueTypeOK'
    BY <1>1, <2>1
  <2>3. Pieces'
    BY <1>1, <2>1 DEF Pieces, Active
  <2>4. Counts'
    <3>1. /\ outstanding = Len(done) + Len(pending) + 1 /\ outstanding <= Capacity
      BY <1>1, <1>3 DEF Counts
    <3>2. Len(done') = Len(done) + 1
      BY <2>1
    <3>. QED
      BY <1>1, <2>1, <3>1, <3>2 DEF Counts
  <2>5. NotifyMatchesDone' /\ NoLostWakeup'
    BY <2>1 DEF NotifyMatchesDone, NoLostWakeup
  <2>6. Stages'
    BY <1>3, <2>1 DEF Stages
  <2>7. Results'
    BY <1>1, <2>1 DEF Results, ResultsBeforeHandover
  <2>. QED
    BY <2>2, <2>3, <2>4, <2>5, <2>6, <2>7
<1>. QED
  BY <1>2, <1>3

LEMMA NextIInv == IInv /\ [QueueNext]_queueVars => IInv'
<1>. SUFFICES ASSUME IInv, [QueueNext]_queueVars PROVE IInv'
  OBVIOUS
<1>1. ASSUME NEW j \in Job, Submit(j) PROVE IInv'
  BY <1>1, SubmitIInv
<1>2. CASE Take
  BY <1>2, TakeIInv
<1>3. CASE DiscardPending
  BY <1>3, DiscardIInv
<1>4. CASE Close
  BY <1>4, CloseIInv
<1>5. CASE Wake \/ TakeNone
  BY <1>5 DEF Wake, TakeNone, Idle, IInv, QueueTypeOK, Pieces, Active, Counts, NotifyMatchesDone,
              Stages, Results, ResultsBeforeHandover, NoLostWakeup
<1>6. CASE WorkerWait
  BY <1>6 DEF WorkerWait, IInv, QueueTypeOK, Pieces, Active, Counts, NotifyMatchesDone,
              Stages, Results, ResultsBeforeHandover, NoLostWakeup
<1>11. CASE WorkerExit
  <2>. USE <1>11 DEF WorkerExit, IInv
  <2>1. QueueTypeOK' /\ Pieces' /\ Counts' /\ NotifyMatchesDone' /\ NoLostWakeup'
    BY DEF QueueTypeOK, Pieces, Active, Counts, NotifyMatchesDone, NoLostWakeup
  <2>2. Stages'
    BY DEF Stages, QueueTypeOK
  <2>3. Results'
    BY DEF Results, ResultsBeforeHandover
  <2>. QED
    BY <2>1, <2>2, <2>3
<1>7. CASE WorkerBegin
  BY <1>7, BeginIInv
<1>8. ASSUME NEW o \in Outcome, WorkerPost(o) PROVE IInv'
  BY <1>8, PostIInv
<1>9. CASE WorkerFinish
  BY <1>9, FinishIInv
<1>10. CASE UNCHANGED queueVars
  BY <1>10 DEF queueVars, IInv, QueueTypeOK, Pieces, Active, Counts, NotifyMatchesDone,
               Stages, Results, ResultsBeforeHandover, NoLostWakeup
<1>. QED
  BY <1>1, <1>2, <1>3, <1>4, <1>5, <1>6, <1>7, <1>8, <1>9, <1>10, <1>11
  DEF QueueNext, MainNext, WorkerNext

LEMMA InductiveInvariant == QueueSpec => []IInv
BY InitIInv, NextIInv, PTL DEF QueueSpec

-----------------------------------------------------------------------------
(* The properties the runs check, for every capacity.                       *)

LEMMA OwnedPieces ==
    ASSUME QueueTypeOK
    PROVE  /\ InFlight \in Seq(Job) /\ Jobs(InFlight) = Active /\ Distinct(InFlight)
           /\ Len(InFlight) = IF current = NoJob THEN 0 ELSE 1
           /\ done \o InFlight \in Seq(Job) /\ Owned \in Seq(Job)
           /\ Len(done \o InFlight) = Len(done) + Len(InFlight)
           /\ Len(Owned) = Len(done) + Len(InFlight) + Len(pending)
<1>1. /\ InFlight \in Seq(Job) /\ Jobs(InFlight) = Active /\ Distinct(InFlight)
      /\ Len(InFlight) = IF current = NoJob THEN 0 ELSE 1
  BY JobsEmpty, JobsSingle, QueueAssumption DEF QueueTypeOK, InFlight, Active
<1>2. done \o InFlight \in Seq(Job) /\ Len(done \o InFlight) = Len(done) + Len(InFlight)
  BY <1>1, ConcatProperties DEF QueueTypeOK
<1>3. \A s \in Seq(Job) : s \o pending \in Seq(Job) /\ Len(s \o pending) = Len(s) + Len(pending)
  BY ConcatProperties DEF QueueTypeOK
<1>4. Owned \in Seq(Job) /\ Len(Owned) = Len(done \o InFlight) + Len(pending)
  BY <1>2, <1>3 DEF Owned
<1>. QED
  BY <1>1, <1>2, <1>4

\* The variables of the queue always have the types QueueTypeOK gives them.
THEOREM TypeCorrect == QueueSpec => []QueueTypeOK
<1>1. IInv => QueueTypeOK
  BY DEF IInv
<1>. QED
  BY <1>1, InductiveInvariant, PTL

\* The counter tested by submit counts the jobs between submit and take, and
\* with it neither array is overrun.
THEOREM AccountingHolds == QueueSpec => [](Accounting /\ ArraysFit)
<1>1. IInv => Accounting /\ ArraysFit
  <2>. SUFFICES ASSUME IInv PROVE Accounting /\ ArraysFit
    OBVIOUS
  <2>1. /\ Len(InFlight) = IF current = NoJob THEN 0 ELSE 1
        /\ Len(done) \in Nat /\ Len(pending) \in Nat
    BY OwnedPieces, LenProperties DEF IInv, QueueTypeOK
  <2>2. CASE stopped
    <3>1. pending = <<>> /\ done = <<>> /\ Len(<<>>) = 0
      BY <2>2, JobsEmpty DEF IInv, Stages
    <3>. QED
      BY <2>1, <2>2, <3>1, QueueAssumption DEF Accounting, ArraysFit
  <2>3. CASE ~stopped
    BY <2>1, <2>3, QueueAssumption DEF IInv, Counts, Accounting, ArraysFit
  <2>. QED
    BY <2>2, <2>3
<1>. QED
  BY <1>1, InductiveInvariant, PTL

\* One byte in the pipe for each finished job: a wakeup is neither lost nor
\* left over.
THEOREM NotifyHolds == QueueSpec => [](NotifyMatchesDone /\ NoLostWakeup)
<1>1. IInv => NotifyMatchesDone /\ NoLostWakeup
  BY DEF IInv
<1>. QED
  BY <1>1, InductiveInvariant, PTL

LEMMA OwnershipInductive == ASSUME IInv PROVE Ownership
<1>. USE OwnedPieces DEF IInv, QueueTypeOK
<1>1. /\ Jobs(done \o InFlight) = Jobs(done) \cup Active
      /\ Distinct(done \o InFlight)
  BY JobsConcat DEF Pieces
<1>2. /\ Jobs(Owned) = Jobs(done \o InFlight) \cup Jobs(pending)
      /\ Distinct(Owned) <=> /\ Distinct(done \o InFlight) /\ Distinct(pending)
                             /\ Jobs(done \o InFlight) \cap Jobs(pending) = {}
  BY JobsConcat DEF Owned
<1>3. (Jobs(done) \cup Active) \cap Jobs(pending) = {}
  BY DEF Pieces
<1>. QED
  BY <1>1, <1>2, <1>3 DEF Ownership, Pieces, Distinct

\* Every allocated job has one owner, in every interleaving: no leak, no
\* double free.
THEOREM OwnershipHolds == QueueSpec => []Ownership
BY InductiveInvariant, OwnershipInductive, PTL

\* The main loop never takes a job whose post has not ended.
THEOREM ResultsHold == QueueSpec => []ResultsBeforeHandover
<1>1. IInv => ResultsBeforeHandover
  BY DEF IInv, Results
<1>. QED
  BY <1>1, InductiveInvariant, PTL

\* No step follows the worker's free of the queue.
THEOREM ReleaseIsLast == QueueSpec => NoUseAfterRelease
<1>1. IInv /\ [QueueNext]_queueVars => [~released]_queueVars
  BY DEF IInv, Stages, QueueTypeOK, QueueNext, MainNext, WorkerNext, Submit, QueuedLast, Wake, Take, TakeNone,
         DiscardPending, Close, WorkerWait, WorkerBegin, WorkerPost, WorkerFinish, WorkerExit,
         Idle, PostEnded
<1>. QED
  BY <1>1, InductiveInvariant, PTL DEF QueueSpec, NoUseAfterRelease

\* What agent_services checks of the queue, for every capacity and set of jobs.
THEOREM QueueSafeHolds == QueueSpec => QueueSafe
BY TypeCorrect, AccountingHolds, OwnershipHolds, NotifyHolds, ReleaseIsLast, PTL DEF QueueSafe

-----------------------------------------------------------------------------
(* The callback queue implements the bounded mailbox (module               *)
(* CallbackMailbox), for every capacity: submit appends to the sequence of *)
(* owned jobs, take drops its head, discard and close cut it behind the    *)
(* jobs begun, and the worker's hand-over only moves its inner borders.    *)
(* First, what each critical section does to that sequence.                *)

\* Owned, bracketed either way, with the facts the steps need.
LEMMA OwnedBrackets ==
    ASSUME IInv
    PROVE  /\ Owned \in Seq(Job) /\ InFlight \in Seq(Job) /\ InFlight \o pending \in Seq(Job)
           /\ Owned = done \o (InFlight \o pending)
           /\ Len(done) \in Nat /\ Len(InFlight) \in Nat /\ Len(pending) \in Nat
           /\ Mailbox!Started = Len(done) + Len(InFlight)
<1>. USE OwnedPieces DEF IInv, QueueTypeOK
<1>0. done \in Seq(Job) /\ InFlight \in Seq(Job) /\ pending \in Seq(Job)
  OBVIOUS
<1>1. Owned = done \o (InFlight \o pending) /\ InFlight \o pending \in Seq(Job)
  BY ONLY <1>0, ConcatAssociative, ConcatProperties DEF Owned
<1>2. Mailbox!Started = Len(done) + Len(InFlight)
  BY DEF Mailbox!Started
<1>. QED
  BY <1>1, <1>2, LenProperties

LEMMA SubmitAppends ==
    ASSUME IInv, NEW j \in Job, Submit(j)
    PROVE  Owned' = Append(Owned, j)
<1>. DEFINE front == done \o InFlight
<1>1. front \in Seq(Job) /\ pending \in Seq(Job) /\ <<j>> \in Seq(Job)
  BY OwnedPieces DEF IInv, QueueTypeOK
<1>2. Owned' = front \o (pending \o <<j>>)
  BY <1>1, AppendIsConcat DEF Submit, QueuedLast, Owned, InFlight
<1>3. Owned = front \o pending
  BY DEF Owned
<1>. HIDE DEF front
<1>4. front \o (pending \o <<j>>) = (front \o pending) \o <<j>>
  BY <1>1, ConcatAssociative
<1>5. front \o pending \in Seq(Job)
  BY <1>1, ConcatProperties
<1>. QED
  BY <1>2, <1>3, <1>4, <1>5, AppendIsConcat

LEMMA TailOfConcat ==
    ASSUME NEW s \in Seq(Job), NEW t \in Seq(Job), s # <<>>
    PROVE  Tail(s \o t) = Tail(s) \o t
<1>1. /\ s \o t \in Seq(Job) /\ s \o t # <<>>
      /\ Len(s \o t) = Len(s) + Len(t)
      /\ Len(s) \in Nat \ {0} /\ Len(t) \in Nat
      /\ \A i \in 1 .. Len(s) + Len(t) : (s \o t)[i] = IF i <= Len(s) THEN s[i] ELSE t[i - Len(s)]
  BY ConcatProperties, LenProperties, EmptySeq
<1>2. /\ Tail(s) \in Seq(Job) /\ Len(Tail(s)) = Len(s) - 1
      /\ \A i \in 1 .. Len(s) - 1 : Tail(s)[i] = s[i + 1]
      /\ Tail(s \o t) \in Seq(Job) /\ Len(Tail(s \o t)) = Len(s) + Len(t) - 1
      /\ \A i \in 1 .. Len(s) + Len(t) - 1 : Tail(s \o t)[i] = (s \o t)[i + 1]
  BY <1>1, HeadTailProperties
<1>3. /\ Tail(s) \o t \in Seq(Job) /\ Len(Tail(s) \o t) = Len(s) - 1 + Len(t)
      /\ \A i \in 1 .. Len(s) - 1 + Len(t) :
            (Tail(s) \o t)[i] = IF i <= Len(s) - 1 THEN Tail(s)[i] ELSE t[i - (Len(s) - 1)]
  BY <1>2, ConcatProperties
<1>4. ASSUME NEW i \in 1 .. Len(s) + Len(t) - 1
      PROVE  Tail(s \o t)[i] = (Tail(s) \o t)[i]
  <2>1. i + 1 \in 1 .. Len(s) + Len(t) /\ i \in 1 .. Len(s) - 1 + Len(t)
    BY <1>1
  <2>2. CASE i <= Len(s) - 1
    BY <1>1, <1>2, <1>3, <2>1, <2>2
  <2>3. CASE i > Len(s) - 1
    <3>1. (i + 1) - Len(s) = i - (Len(s) - 1)
      BY <1>1
    <3>2. (s \o t)[i + 1] = t[(i + 1) - Len(s)]
      BY <1>1, <2>1, <2>3
    <3>3. (Tail(s) \o t)[i] = t[i - (Len(s) - 1)]
      BY <1>1, <1>3, <2>1, <2>3
    <3>. QED
      BY <1>2, <3>1, <3>2, <3>3
  <2>. QED
    BY <1>1, <2>2, <2>3
<1>. QED
  BY <1>1, <1>2, <1>3, <1>4, SeqEqual

LEMMA TakeDropsHead ==
    ASSUME IInv, Take
    PROVE  Owned' = Tail(Owned)
<1>. DEFINE rest == InFlight \o pending
<1>1. /\ done \in Seq(Job) /\ done # <<>> /\ rest \in Seq(Job) /\ Owned = done \o rest
      /\ InFlight \in Seq(Job) /\ pending \in Seq(Job)
  BY OwnedBrackets DEF IInv, QueueTypeOK, Take
<1>2. Owned' = (Tail(done) \o InFlight) \o pending
  BY DEF Take, Owned, InFlight
<1>3. Tail(done) \in Seq(Job)
  BY <1>1, HeadTailProperties
<1>4. Owned' = Tail(done) \o rest
  BY <1>1, <1>2, <1>3, ConcatAssociative
<1>. HIDE DEF rest
<1>5. Tail(done \o rest) = Tail(done) \o rest
  BY <1>1, TailOfConcat
<1>. QED
  BY <1>1, <1>4, <1>5, Zenon

\* The worker takes the head of pending: the border moves, the jobs stay.
LEMMA BeginKeeps ==
    ASSUME IInv, WorkerBegin
    PROVE  Owned' = Owned
<1>1. /\ done \in Seq(Job) /\ pending \in Seq(Job) /\ pending # <<>>
      /\ current = NoJob /\ Head(pending) \in Job /\ Tail(pending) \in Seq(Job)
      /\ <<Head(pending)>> \in Seq(Job)
  BY JobsHead DEF IInv, QueueTypeOK, Stages, WorkerBegin
<1>2. Owned = done \o pending
  BY <1>1, ConcatEmptySeq DEF Owned, InFlight
<1>3. Owned' = (done \o <<Head(pending)>>) \o Tail(pending)
  BY <1>1, QueueAssumption DEF Owned, InFlight, WorkerBegin
<1>4. <<Head(pending)>> \o Tail(pending) = pending
  BY <1>1
<1>. QED
  BY <1>1, <1>2, <1>3, <1>4, ConcatAssociative

LEMMA FinishKeeps ==
    ASSUME IInv, WorkerFinish, ~stopped
    PROVE  Owned' = Owned
<1>1. done \in Seq(Job) /\ pending \in Seq(Job) /\ current \in Job /\ <<current>> \in Seq(Job)
      /\ current # NoJob
  BY QueueAssumption DEF IInv, QueueTypeOK, Stages, WorkerFinish, PostEnded
<1>2. Owned = (done \o <<current>>) \o pending
  BY <1>1 DEF Owned, InFlight
<1>3. Owned' = ((done \o <<current>>) \o <<>>) \o pending
  BY <1>1, AppendIsConcat DEF Owned, InFlight, WorkerFinish
<1>4. (done \o <<current>>) \o <<>> = done \o <<current>>
  BY <1>1, ConcatProperties, ConcatEmptySeq
<1>. QED
  BY <1>2, <1>3, <1>4

LEMMA DiscardCuts ==
    ASSUME IInv, DiscardPending
    PROVE  Owned' = SubSeq(Owned, 1, Mailbox!Started)
<1>. DEFINE front == done \o InFlight
<1>1. /\ front \in Seq(Job) /\ pending \in Seq(Job) /\ Owned = front \o pending
      /\ Len(front) = Mailbox!Started /\ Len(front) \in Nat
  BY OwnedPieces, OwnedBrackets, LenProperties DEF IInv, QueueTypeOK, Owned
<1>2. Owned' = front \o <<>>
  BY DEF DiscardPending, Owned, InFlight
<1>. HIDE DEF front
<1>3. Owned' = front
  BY <1>1, <1>2, ConcatEmptySeq
<1>4. CASE Len(front) = 0
  <2>1. front = <<>>
    BY <1>1, <1>4, EmptySeq
  <2>. QED
    BY <1>1, <1>3, <1>4, <2>1, SubSeqEmpty
<1>5. CASE Len(front) # 0
  <2>1. SubSeq(front \o pending, 1, Len(front)) = SubSeq(front, 1, Len(front))
    BY <1>1, <1>5, SubSeqOfConcat1
  <2>. QED
    BY <1>1, <1>3, <2>1, SubSeqFull
<1>. QED
  BY <1>4, <1>5

LEMMA CloseCuts ==
    ASSUME IInv, Close
    PROVE  Owned' = SubSeq(Owned, Len(done) + 1, Mailbox!Started)
<1>. DEFINE front == done \o InFlight
<1>1. /\ front \in Seq(Job) /\ pending \in Seq(Job) /\ Owned = front \o pending
      /\ done \in Seq(Job) /\ InFlight \in Seq(Job)
      /\ Len(done) \in Nat /\ Len(InFlight) \in Nat
      /\ Mailbox!Started = Len(done) + Len(InFlight)
      /\ Len(front) = Len(done) + Len(InFlight)
  BY OwnedPieces, OwnedBrackets DEF IInv, QueueTypeOK, Owned
<1>2. Owned' = (<<>> \o InFlight) \o <<>>
  BY DEF Close, Owned, InFlight
<1>3. Owned' = InFlight
  BY <1>1, <1>2, ConcatEmptySeq
<1>4. CASE current = NoJob
  <2>1. InFlight = <<>> /\ Len(InFlight) = 0
    BY <1>1, <1>4, JobsEmpty DEF InFlight
  <2>. QED
    BY <1>1, <1>3, <2>1, SubSeqEmpty
<1>5. CASE current # NoJob
  <2>. DEFINE k == Len(done) + 1
  <2>1. InFlight = <<current>> /\ Len(InFlight) = 1 /\ k \in 1 .. Len(front)
        /\ k \in Len(done) + 1 .. Len(done) + Len(InFlight)
    BY <1>1, <1>5, OwnedPieces DEF InFlight, IInv
  <2>2. SubSeq(front \o pending, k, k) = SubSeq(front, k, k)
    BY <1>1, <2>1, SubSeqOfConcat1
  <2>3. SubSeq(done \o InFlight, k, k) = SubSeq(InFlight, k - Len(done), k - Len(done))
    BY <1>1, <2>1, SubSeqOfConcat2
  <2>4. k - Len(done) = 1
    BY <1>1
  <2>5. SubSeq(InFlight, 1, 1) = InFlight
    BY <1>1, <2>1, SubSeqFull
  <2>. QED
    BY <1>1, <1>3, <2>1, <2>2, <2>3, <2>4, <2>5
<1>. QED
  BY <1>4, <1>5

-----------------------------------------------------------------------------
(* The mailbox.                                                             *)

LEMMA InitMailbox == QueueInit => Mailbox!Init
BY JobsEmpty, ConcatEmptySeq DEF QueueInit, Mailbox!Init, Owned, InFlight

\* The facts about Owned that the guards of the mailbox ask for.
LEMMA OwnedFacts ==
    ASSUME IInv
    PROVE  /\ Mailbox!Jobs(Owned) = allocated
           /\ Len(Owned) = Len(done) + Len(InFlight) + Len(pending)
           /\ Len(InFlight) = IF current = NoJob THEN 0 ELSE 1
           /\ ~stopped => Len(Owned) = outstanding /\ outstanding <= Capacity
           /\ Len(done) \in Nat /\ Len(pending) \in Nat
<1>1. Ownership
  BY OwnershipInductive
<1>2. Mailbox!Jobs(Owned) = allocated
  BY <1>1 DEF Ownership, Jobs, Mailbox!Jobs
<1>3. /\ Len(Owned) = Len(done) + Len(InFlight) + Len(pending)
      /\ Len(InFlight) = IF current = NoJob THEN 0 ELSE 1
      /\ Len(done) \in Nat /\ Len(pending) \in Nat
  BY OwnedPieces, LenProperties DEF IInv, QueueTypeOK
<1>4. ~stopped => Len(Owned) = outstanding /\ outstanding <= Capacity
  BY <1>3 DEF IInv, Counts
<1>. QED
  BY <1>2, <1>3, <1>4

LEMMA NextMailbox == IInv /\ [QueueNext]_queueVars => [Mailbox!Next]_Mailbox!mailboxVars
<1>. SUFFICES ASSUME IInv, [QueueNext]_queueVars
              PROVE  [Mailbox!Next]_Mailbox!mailboxVars
  OBVIOUS
<1>. USE OwnedFacts, QueueAssumption
<1>1. ASSUME NEW j \in Job, Submit(j)
      PROVE  Mailbox!Accept(j)
  <2>1. Owned' = Append(Owned, j)
    BY <1>1, SubmitAppends
  <2>2. ~stopped /\ j \notin Mailbox!Jobs(Owned) /\ Len(Owned) < Capacity
    BY <1>1 DEF Submit, QueuedLast, Idle, Full, IInv, QueueTypeOK
  <2>3. UNCHANGED <<Len(done), current # NoJob, stopped>>
    BY <1>1 DEF Submit, QueuedLast
  <2>. QED
    BY <2>1, <2>2, <2>3 DEF Mailbox!Accept
<1>2. CASE Take
  <2>1. Owned' = Tail(Owned)
    BY <1>2, TakeDropsHead
  <2>2. ~stopped /\ Len(done) > 0 /\ Len(done)' = Len(done) - 1
    BY <1>2, JobsHead DEF Take, IInv, QueueTypeOK, Stages
  <2>3. UNCHANGED <<current # NoJob, stopped>>
    BY <1>2 DEF Take
  <2>. QED
    BY <2>1, <2>2, <2>3 DEF Mailbox!Collect, Mailbox!Next
<1>3. CASE DiscardPending
  BY <1>3, DiscardCuts DEF DiscardPending, Idle, Mailbox!Discard, Mailbox!Next
<1>4. CASE Close
  <2>1. Owned' = SubSeq(Owned, Len(done) + 1, Mailbox!Started)
    BY <1>4, CloseCuts
  <2>2. ~stopped /\ stopped' /\ Len(done)' = 0 /\ UNCHANGED (current # NoJob)
    BY <1>4, JobsEmpty DEF Close, Idle
  <2>. QED
    BY <2>1, <2>2 DEF Mailbox!Close, Mailbox!Next
<1>5. CASE WorkerBegin
  <2>1. Owned' = Owned
    BY <1>5, BeginKeeps
  <2>2. ~stopped /\ current = NoJob /\ current' # NoJob /\ Len(pending) > 0
    BY <1>5, JobsHead DEF WorkerBegin, IInv, QueueTypeOK, Stages
  <2>3. Len(done) < Len(Owned)
    BY <2>2
  <2>4. UNCHANGED <<Len(done), stopped>>
    BY <1>5 DEF WorkerBegin
  <2>. QED
    BY <2>1, <2>2, <2>3, <2>4 DEF Mailbox!Begin, Mailbox!Next
<1>6. CASE WorkerFinish /\ stopped
  <2>1. current # NoJob /\ current' = NoJob /\ UNCHANGED <<stopped, done, pending>>
    BY <1>6 DEF WorkerFinish, PostEnded, IInv, QueueTypeOK, Stages
  <2>2. done = <<>> /\ pending = <<>> /\ Len(<<>>) = 0
    BY <1>6, JobsEmpty DEF IInv, Stages
  <2>3. Owned' = (<<>> \o <<>>) \o <<>>
    BY <2>1, <2>2 DEF Owned, InFlight
  <2>4. Owned' = <<>>
    BY <2>3, JobsEmpty, ConcatEmptySeq
  <2>. QED
    BY <1>6, <2>1, <2>2, <2>4 DEF Mailbox!Complete, Mailbox!Next
<1>7. CASE WorkerFinish /\ ~stopped
  <2>1. Owned' = Owned
    BY <1>7, FinishKeeps
  <2>2. current \in Job /\ current # NoJob
    BY <1>7 DEF WorkerFinish, PostEnded, IInv, QueueTypeOK, Stages
  <2>3. current' = NoJob /\ done' = Append(done, current) /\ UNCHANGED stopped
    BY <1>7 DEF WorkerFinish
  <2>4. Len(done)' = Len(done) + 1
    BY <2>2, <2>3, AppendProperties DEF IInv, QueueTypeOK
  <2>. QED
    BY <1>7, <2>1, <2>2, <2>3, <2>4 DEF Mailbox!Complete, Mailbox!Next
<1>8. ASSUME UNCHANGED <<stopped, done, current, pending>>
      PROVE  UNCHANGED Mailbox!mailboxVars
  BY <1>8 DEF Mailbox!mailboxVars, Owned, InFlight
<1>9. CASE Wake \/ TakeNone \/ WorkerWait \/ WorkerExit \/ (\E o \in Outcome : WorkerPost(o))
  BY <1>8, <1>9 DEF Wake, TakeNone, WorkerWait, WorkerExit, WorkerPost
<1>10. CASE UNCHANGED queueVars
  BY <1>8, <1>10 DEF queueVars
<1>. QED
  BY <1>1, <1>2, <1>3, <1>4, <1>5, <1>6, <1>7, <1>9, <1>10
  DEF QueueNext, MainNext, WorkerNext, Mailbox!Next

\* The queue implements the bounded mailbox, whatever its capacity: the fifo
\* promise of callback_queue.c, except for the mailbox's fairness.
THEOREM ImplementsMailbox == QueueSpec => Mailbox!Spec
BY InductiveInvariant, InitMailbox, NextMailbox, PTL DEF QueueSpec, Mailbox!Spec

-----------------------------------------------------------------------------
(* Event delivery, which drives the queue.                                 *)

\* Some call of the list dispatches the metrics.
Has(s) == \E i \in DOMAIN s : s[i] = Metrics

DeliveryTyped ==
    /\ sub \in Subscription \cup {NoSub}
    /\ generation \in 0 .. MaxGeneration
    /\ DOMAIN job = allocated /\ \A j \in allocated : job[j] \in Content
    /\ calls \in Seq(Event)
    /\ owed \in BOOLEAN
    /\ sample \in 1 .. MaxSample /\ delivered \in 0 .. MaxSample
    /\ acks \subseteq 0 .. MaxSample

\* What waits to be posted is for the subscriber there is.
PendingIsOwn ==
    \A j \in Jobs(pending) : /\ sub # NoSub
                             /\ job[j].generation = generation
                             /\ job[j].callback = sub.callback
                             /\ job[j].event \in sub.events

\* A post that was answered for this subscriber is in the history.
AnswersAreKnown ==
    \A j \in allocated : result[j] = "ok" /\ job[j].generation = generation => job[j].sample \in acks

\* No block names a subscriber to come.
NoneAhead == \A j \in allocated : job[j].generation <= generation

\* A debt that is not noted is about to be dispatched.
DebtIsCalled == Matches(Metrics) /\ ~owed /\ delivered \notin acks => Has(calls)

BlocksWell == PendingIsOwn /\ AnswersAreKnown /\ NoneAhead

DInv == DeliveryTyped /\ BlocksWell /\ StatusIsOwn /\ DebtIsCalled

LEMMA DInvImplies == IInv /\ DInv => DeliveryTypeOK /\ StatusIsOwn /\ MetricsNotForgotten
<1> SUFFICES ASSUME IInv, DInv PROVE DeliveryTypeOK /\ MetricsNotForgotten
  BY DEF DInv
<1>1. DeliveryTypeOK
  BY DEF IInv, DInv, DeliveryTyped, DeliveryTypeOK
<1>2. ~Has(<<>>)
  BY DEF Has
<1>3. MetricsNotForgotten
  BY <1>2 DEF DInv, DebtIsCalled, MetricsNotForgotten
<1> QED
  BY <1>1, <1>3

\* Lists of calls.
LEMMA CallsAppend ==
  ASSUME NEW s \in Seq(Event), NEW t \in Seq(Event)
  PROVE  s \o t \in Seq(Event) /\ (Has(s) \/ Has(t) => Has(s \o t))
<1>1. /\ s \o t \in Seq(Event) /\ Len(s) \in Nat /\ Len(t) \in Nat
      /\ DOMAIN s = 1 .. Len(s) /\ DOMAIN t = 1 .. Len(t)
      /\ DOMAIN (s \o t) = 1 .. Len(s) + Len(t)
      /\ \A i \in 1 .. Len(s) + Len(t) : (s \o t)[i] = IF i <= Len(s) THEN s[i] ELSE t[i - Len(s)]
  BY ConcatProperties, LenProperties
<1>2. ASSUME NEW i \in 1 .. Len(s), s[i] = Metrics PROVE Has(s \o t)
  BY <1>1, <1>2, i \in 1 .. Len(s) + Len(t) DEF Has
<1>3. ASSUME NEW i \in 1 .. Len(t), t[i] = Metrics PROVE Has(s \o t)
  <2>1. Len(s) + i \in 1 .. Len(s) + Len(t) /\ (s \o t)[Len(s) + i] = t[i]
    BY <1>1
  <2> QED
    BY <1>1, <1>3, <2>1 DEF Has
<1> QED
  BY <1>1, <1>2, <1>3 DEF Has

LEMMA CallsTail ==
  ASSUME NEW s \in Seq(Event), s # <<>>
  PROVE  Tail(s) \in Seq(Event) /\ (Has(s) /\ Head(s) # Metrics => Has(Tail(s)))
<1>1. /\ Len(Tail(s)) = Len(s) - 1 /\ Tail(s) \in Seq(Event)
      /\ \A i \in 1 .. Len(s) - 1 : Tail(s)[i] = s[i + 1]
      /\ DOMAIN Tail(s) = 1 .. Len(s) - 1
      /\ DOMAIN s = 1 .. Len(s)
      /\ Len(s) \in Nat \ {0}
      /\ Head(s) = s[1]
  BY HeadTailProperties, EmptySeq
<1>2. ASSUME NEW i \in 1 .. Len(s), s[i] = Metrics, Head(s) # Metrics PROVE Has(Tail(s))
  <2>1. i - 1 \in 1 .. Len(s) - 1 /\ Tail(s)[i - 1] = s[i]
    BY <1>1, <1>2
  <2> QED
    BY <1>1, <1>2, <2>1 DEF Has
<1> QED
  BY <1>1, <1>2 DEF Has

LEMMA IfWantedCalls ==
  ASSUME NEW e \in Event, NEW events
  PROVE  IfWanted(e, events) \in Seq(Event) /\ (Metrics \in events => Has(IfWanted(Metrics, events)))
<1>1. Metrics \in events => IfWanted(Metrics, events) = <<Metrics>>
  BY DEF IfWanted
<1>2. Has(<<Metrics>>)
  BY DEF Has
<1> QED
  BY <1>1, <1>2 DEF IfWanted

LEMMA SnapshotsCall ==
  ASSUME NEW events
  PROVE  Snapshots(events) \in Seq(Event) /\ (Metrics \in events => Has(Snapshots(events)))
<1>1. Metrics \in Event /\ Voicemail \in Event /\ Memos \in Event
  BY DEF Event
<1> QED
  BY <1>1, IfWantedCalls, CallsAppend DEF Snapshots

\* The events that follow a dispatch.
LEMMA AfterDispatchCalls ==
  ASSUME DInv, NEW e \in Event, Calling(e)
  PROVE  /\ calls # <<>> /\ e = Head(calls)
         /\ Tail(calls) \in Seq(Event) /\ AfterDispatch(e) \in Seq(Event)
         /\ Has(calls) /\ e # Metrics => Has(Tail(calls)) /\ Has(AfterDispatch(e))
<1>1. calls # <<>> /\ e = Head(calls) /\ calls \in Seq(Event)
  BY DEF Calling, DInv, DeliveryTyped
<1>2. (IF e \in {Voicemail, Memos} THEN <<Metrics>> ELSE <<>>) \in Seq(Event)
  <2>1. <<Metrics>> \in Seq(Event) /\ <<>> \in Seq(Event)
    <3>1. Metrics \in Event
      BY DEF Event
    <3> QED
      BY <3>1
  <2>2. CASE e \in {Voicemail, Memos}
    BY <2>1, <2>2
  <2>3. CASE e \notin {Voicemail, Memos}
    BY <2>1, <2>3
  <2> QED
    BY <2>2, <2>3
<1> QED
  BY <1>1, <1>2, CallsTail, CallsAppend DEF AfterDispatch

\* A dispatch leaves no debt that is neither noted nor called.
LEMMA DispatchOwes ==
  ASSUME DInv, NEW e \in Event, Calling(e), owed' = Owed(e), UNCHANGED <<delivered, acks>>,
         Matches(Metrics)' => Matches(Metrics),
         calls' = Tail(calls) \/ calls' = AfterDispatch(e)
  PROVE  owed' \in BOOLEAN /\ calls' \in Seq(Event) /\ DebtIsCalled'
<1>1. owed' \in BOOLEAN /\ (~owed' => ~owed /\ e # Metrics)
  BY DEF Owed, DInv, DeliveryTyped
<1> QED
  BY <1>1, AfterDispatchCalls DEF DInv, DebtIsCalled

\* The subscription, when only its status changes.
LEMMA StatusOnly ==
  ASSUME sub \in Subscription, NEW ok \in BOOLEAN, sub' = [sub EXCEPT !.lastOk = ok]
  PROVE  /\ sub' \in Subscription /\ sub' # NoSub /\ sub'.lastOk = ok
         /\ sub'.callback = sub.callback /\ sub'.events = sub.events
BY NoSubAssumption DEF Subscription

\* The blocks are left alone, and the subscriber is the same.
LEMMA BlocksKept ==
  ASSUME BlocksWell, UNCHANGED <<queueVars, generation, job, acks>>,
         sub # NoSub => sub' # NoSub /\ sub'.callback = sub.callback /\ sub'.events = sub.events
  PROVE  BlocksWell'
BY DEF BlocksWell, PendingIsOwn, AnswersAreKnown, NoneAhead, queueVars, Jobs

\* Blocks go, and nothing new waits.
LEMMA BlocksFreed ==
  ASSUME DInv, UNCHANGED <<generation, acks>>, job' = Kept, allocated' \subseteq allocated,
         Jobs(pending') \subseteq Jobs(pending) \cap allocated',
         \A j \in allocated' : result'[j] = result[j],
         sub # NoSub => sub' # NoSub /\ sub'.callback = sub.callback /\ sub'.events = sub.events
  PROVE  /\ DOMAIN job' = allocated' /\ \A j \in allocated' : job'[j] = job[j] /\ job'[j] \in Content
         /\ BlocksWell'
<1>1. DOMAIN job' = allocated' /\ \A j \in allocated' : job'[j] = job[j] /\ job'[j] \in Content
  BY DEF Kept, DInv, DeliveryTyped
<1>2. PendingIsOwn' /\ AnswersAreKnown' /\ NoneAhead'
  BY <1>1 DEF DInv, BlocksWell, PendingIsOwn, AnswersAreKnown, NoneAhead
<1> QED
  BY <1>1, <1>2 DEF BlocksWell

LEMMA DeliveryInitInv == DeliveryInit => IInv /\ DInv
<1> SUFFICES ASSUME DeliveryInit PROVE IInv /\ DInv
  OBVIOUS
<1>1. IInv
  BY InitIInv DEF DeliveryInit
<1>2. allocated = {} /\ pending = <<>> /\ Jobs(<<>>) = {}
  BY JobsEmpty DEF DeliveryInit, QueueInit
<1>3. DeliveryTyped
  <2>1. DOMAIN job = {} /\ calls \in Seq(Event)
    BY DEF DeliveryInit
  <2>2. generation \in 0 .. MaxGeneration /\ sample \in 1 .. MaxSample /\ delivered \in 0 .. MaxSample
    BY DeliveryAssumption DEF DeliveryInit
  <2>3. sub \in Subscription \cup {NoSub} /\ owed \in BOOLEAN /\ acks \subseteq 0 .. MaxSample
    BY DEF DeliveryInit
  <2>4. DOMAIN job = allocated /\ \A j \in allocated : job[j] \in Content
    BY <1>2, <2>1
  <2> QED
    BY <2>1, <2>2, <2>3, <2>4 DEF DeliveryTyped
<1>4. BlocksWell
  BY <1>2 DEF BlocksWell, PendingIsOwn, AnswersAreKnown, NoneAhead
<1>5. StatusIsOwn /\ DebtIsCalled
  BY DEF DeliveryInit, StatusIsOwn, DebtIsCalled, Matches
<1> QED
  BY <1>1, <1>3, <1>4, <1>5 DEF DInv

\* Every step of the composition is a step of the queue, or leaves it alone.
LEMMA DeliveryDrivesQueue == [DeliveryNext]_allVars => [QueueNext]_queueVars
<1> SUFFICES ASSUME [DeliveryNext]_allVars PROVE [QueueNext]_queueVars
  OBVIOUS
<1> USE DEF QueueNext, MainNext, WorkerNext
<1>1. CASE Dispatch
  BY <1>1 DEF Dispatch, DispatchNothing, DispatchOffline, DispatchRejected, DispatchQueued
<1>2. CASE \E e \in Event : DeviceEvent(e)
  BY <1>2 DEF DeviceEvent
<1>3. CASE \E due \in BOOLEAN : MonitorTick(due)
  BY <1>3 DEF MonitorTick
<1>4. CASE SubscribeAgain
  BY <1>4 DEF SubscribeAgain
<1>5. CASE \E c \in Callback, f \in Filter, id \in Id : Subscribe(c, f, id)
  BY <1>5 DEF Subscribe, DropPending
<1>6. CASE Unsubscribe
  BY <1>6 DEF Unsubscribe, DropPending
<1>7. CASE ApplyResult
  BY <1>7 DEF ApplyResult
<1>8. CASE \E o \in Outcome : Post(o)
  BY <1>8 DEF Post
<1>9. CASE QueueStep
  BY <1>9 DEF QueueStep
<1>10. CASE UNCHANGED allVars
  BY <1>10 DEF allVars
<1> QED
  BY <1>1, <1>2, <1>3, <1>4, <1>5, <1>6, <1>7, <1>8, <1>9, <1>10 DEF DeliveryNext

LEMMA DispatchKeeps == ASSUME IInv, DInv, Dispatch PROVE DInv'
<1>0. /\ sub \in Subscription \cup {NoSub} /\ BlocksWell /\ StatusIsOwn /\ DeliveryTyped
  BY DEF DInv, DeliveryTyped
<1>1. ASSUME NEW e \in Event, DispatchNothing(e) PROVE DInv'
  <2>1. /\ calls' = Tail(calls) /\ Calling(e)
        /\ UNCHANGED <<queueVars, sub, generation, job, sample, delivered, owed, acks>>
        /\ e = Doorbell \/ ~Matches(e)
    BY <1>1 DEF DispatchNothing
  <2>2. calls' \in Seq(Event) /\ DebtIsCalled'
    BY <2>1, AfterDispatchCalls, DeliveryAssumption DEF DebtIsCalled, Matches, DInv
  <2>3. BlocksWell'
    BY <1>0, <2>1, BlocksKept
  <2> QED
    BY <1>0, <2>1, <2>2, <2>3 DEF DInv, DeliveryTyped, StatusIsOwn, queueVars
<1>2. ASSUME NEW e \in Event, DispatchOffline(e) \/ DispatchRejected(e) PROVE DInv'
  <2>1. /\ calls' = Tail(calls) \/ calls' = AfterDispatch(e)
        /\ Calling(e) /\ owed' = Owed(e) /\ sub # NoSub
        /\ sub' = [sub EXCEPT !.lastOk = FALSE]
        /\ UNCHANGED <<queueVars, generation, job, sample, delivered, acks>>
    BY <1>2 DEF DispatchOffline, DispatchRejected, Matches
  <2>2. /\ sub' \in Subscription /\ sub' # NoSub /\ sub'.lastOk = FALSE
        /\ sub'.callback = sub.callback /\ sub'.events = sub.events
    BY <1>0, <2>1, StatusOnly
  <2>3. Matches(Metrics)' => Matches(Metrics)
    BY <2>1, <2>2 DEF Matches
  <2>4. owed' \in BOOLEAN /\ calls' \in Seq(Event) /\ DebtIsCalled'
    BY <2>1, <2>3, DispatchOwes
  <2>5. BlocksWell'
    BY <1>0, <2>1, <2>2, BlocksKept
  <2>6. StatusIsOwn'
    BY <2>2 DEF StatusIsOwn
  <2> QED
    BY <1>0, <2>1, <2>2, <2>4, <2>5, <2>6 DEF DInv, DeliveryTyped, queueVars
<1>3. ASSUME NEW e \in Event, NEW j \in Job, DispatchQueued(e, j) PROVE DInv'
  <2>1. /\ Calling(e) /\ Submit(j) /\ owed' = Owed(e) /\ calls' = AfterDispatch(e)
        /\ sub # NoSub /\ e \in sub.events
        /\ job' = [k \in allocated' |-> IF k = j THEN NewJob(e) ELSE job[k]]
        /\ UNCHANGED <<sub, generation, sample, delivered, acks>>
    BY <1>3 DEF DispatchQueued, Matches
  <2>2. /\ j \notin allocated /\ allocated' = allocated \cup {j} /\ result' = result
        /\ pending' = Append(pending, j) /\ result[j] = "none"
    BY <2>1 DEF Submit, QueuedLast, IInv, Results
  <2>3. Jobs(pending') = Jobs(pending) \cup {j} /\ Jobs(pending) \subseteq allocated
    BY <2>2, JobsAppend DEF IInv, QueueTypeOK, Pieces
  <2>4. /\ NewJob(e) \in Content /\ NewJob(e).generation = generation
        /\ NewJob(e).callback = sub.callback /\ NewJob(e).event = e
    BY <1>0, <2>1, DeliveryAssumption DEF NewJob, Content, DeliveryTyped, Subscription
  <2>5. /\ DOMAIN job' = allocated' /\ job'[j] = NewJob(e)
        /\ \A k \in allocated : job'[k] = job[k]
    BY <2>1, <2>2
  <2>6. PendingIsOwn'
    BY <1>0, <2>1, <2>3, <2>4, <2>5 DEF BlocksWell, PendingIsOwn
  <2>7. AnswersAreKnown'
    BY <1>0, <2>1, <2>2, <2>5 DEF BlocksWell, AnswersAreKnown
  <2>8. NoneAhead'
    BY <1>0, <2>1, <2>2, <2>4, <2>5 DEF BlocksWell, NoneAhead, DeliveryTyped
  <2>9. owed' \in BOOLEAN /\ calls' \in Seq(Event) /\ DebtIsCalled'
    BY <2>1, DispatchOwes DEF Matches
  <2>10. DeliveryTyped'
    BY <1>0, <2>1, <2>2, <2>4, <2>5, <2>9 DEF DeliveryTyped
  <2> QED
    BY <1>0, <2>1, <2>6, <2>7, <2>8, <2>9, <2>10 DEF DInv, BlocksWell, StatusIsOwn
<1> QED
  BY <1>1, <1>2, <1>3 DEF Dispatch

\* Handlers that only start calls.
LEMMA StartsKeep ==
  ASSUME DInv, (\E e \in Event : DeviceEvent(e)) \/ (\E due \in BOOLEAN : MonitorTick(due))
               \/ SubscribeAgain
  PROVE  DInv'
<1>0. /\ sub \in Subscription \cup {NoSub} /\ BlocksWell /\ StatusIsOwn /\ DeliveryTyped
      /\ DebtIsCalled
  BY DEF DInv, DeliveryTyped
<1>1. ~Has(<<>>)
  BY DEF Has
<1>2. UNCHANGED <<queueVars, sub, generation, job, delivered, owed, acks>> /\ calls = <<>>
  BY DEF DeviceEvent, MonitorTick, SubscribeAgain, Ready
<1>3. BlocksWell' /\ StatusIsOwn'
  BY <1>0, <1>2, BlocksKept DEF StatusIsOwn
<1>4. DebtIsCalled'
  BY <1>0, <1>1, <1>2 DEF DebtIsCalled, Matches
<1>5. calls' \in Seq(Event) /\ sample' \in 1 .. MaxSample
  <2>1. CASE \E e \in Event : DeviceEvent(e)
    BY <1>0, <2>1 DEF DeviceEvent, DeliveryTyped
  <2>2. CASE \E due \in BOOLEAN : MonitorTick(due)
    <3>1. PICK due \in BOOLEAN : MonitorTick(due)
      BY <2>2
    <3>2. sample \in 1 .. MaxSample /\ sample < MaxSample /\ sample' = sample + 1
      BY <1>0, <3>1 DEF MonitorTick, DeliveryTyped
    <3>3. sample' \in 1 .. MaxSample
      BY <3>2, DeliveryAssumption
    <3>4. Metrics \in Event
      BY DEF Event
    <3>5. calls' = <<Metrics>> \/ calls' = <<>>
      BY <3>1 DEF MonitorTick
    <3>6. <<Metrics>> \in Seq(Event) /\ <<>> \in Seq(Event)
      BY <3>4
    <3> QED
      BY <3>3, <3>5, <3>6
  <2>3. CASE SubscribeAgain
    BY <1>0, <2>3, SnapshotsCall DEF SubscribeAgain, DeliveryTyped
  <2> QED
    BY <2>1, <2>2, <2>3
<1> QED
  BY <1>0, <1>2, <1>3, <1>4, <1>5 DEF DInv, DeliveryTyped, queueVars

\* A subscriber comes or goes: its predecessor's jobs are recalled.
LEMMA SubscribersKeep ==
  ASSUME IInv, DInv,
         (\E c \in Callback, f \in Filter, id \in Id : Subscribe(c, f, id)) \/ Unsubscribe
  PROVE  DInv'
<1>0. DeliveryTyped /\ BlocksWell
  BY DEF DInv
<1>1. /\ DropPending /\ generation < MaxGeneration /\ generation' = generation + 1
      /\ acks' = {} /\ job' = Kept /\ UNCHANGED <<sample, delivered, owed>>
  BY DEF Subscribe, Unsubscribe, NextGeneration
<1>2. /\ allocated' \subseteq allocated /\ Jobs(pending') = {}
  BY <1>1, JobsEmpty DEF DropPending, DiscardPending, Free
<1>3. generation \in Nat /\ generation' \in 0 .. MaxGeneration
  BY <1>0, <1>1, DeliveryAssumption DEF DeliveryTyped
<1>4. /\ DOMAIN job' = allocated' /\ \A j \in allocated' : job'[j] = job[j] /\ job'[j] \in Content
      /\ \A j \in allocated' : job'[j].generation \in Nat /\ job'[j].generation < generation'
  <2>1. DOMAIN job' = allocated' /\ \A j \in allocated' : job'[j] = job[j] /\ job'[j] \in Content
    BY <1>0, <1>1, <1>2 DEF Kept, DeliveryTyped
  <2>2. \A j \in allocated' : job'[j].generation \in 0 .. MaxGeneration /\ job'[j].generation <= generation
    BY <1>0, <1>2, <2>1 DEF BlocksWell, NoneAhead, Content
  <2> QED
    BY <1>1, <1>3, <2>1, <2>2, DeliveryAssumption
<1>5. BlocksWell'
  BY <1>2, <1>3, <1>4 DEF BlocksWell, PendingIsOwn, AnswersAreKnown, NoneAhead
<1>6. /\ sub' \in Subscription \cup {NoSub} /\ calls' \in Seq(Event)
      /\ StatusIsOwn' /\ DebtIsCalled'
  <2>1. ASSUME NEW c \in Callback, NEW f \in Filter, NEW id \in Id, Subscribe(c, f, id)
        PROVE  /\ sub' \in Subscription \cup {NoSub} /\ calls' \in Seq(Event)
               /\ StatusIsOwn' /\ DebtIsCalled'
    <3>1. sub' = [callback |-> c, events |-> f, id |-> id, lastOk |-> FALSE] /\ calls' = Snapshots(f)
      BY <2>1 DEF Subscribe
    <3>2. sub' \in Subscription /\ sub'.events = f /\ sub'.lastOk = FALSE
      BY <3>1 DEF Subscription
    <3> QED
      BY <3>1, <3>2, SnapshotsCall DEF StatusIsOwn, DebtIsCalled, Matches
  <2>2. CASE Unsubscribe
    BY <1>0, <2>2 DEF Unsubscribe, StatusIsOwn, DebtIsCalled, Matches, DeliveryTyped
  <2> QED
    BY <2>1, <2>2
<1> QED
  BY <1>0, <1>1, <1>3, <1>4, <1>5, <1>6 DEF DInv, DeliveryTyped

\* The result of a job: only that of a post for this subscriber counts.
LEMMA ResultKeeps == ASSUME IInv, DInv, ApplyResult PROVE DInv'
<1>0. /\ sub \in Subscription \cup {NoSub} /\ BlocksWell /\ StatusIsOwn /\ DeliveryTyped
      /\ DebtIsCalled
  BY DEF DInv, DeliveryTyped
<1> DEFINE j == Head(done)
           ok == result[j] = "ok"
<1>1. /\ Take /\ job' = Kept /\ UNCHANGED <<generation, calls, sample, acks>>
      /\ IF Current(j)
           THEN /\ sub' = [sub EXCEPT !.lastOk = ok]
                /\ IF ok /\ job[j].event = Metrics THEN SampleDelivered(job[j].sample)
                   ELSE UNCHANGED <<delivered, owed>>
           ELSE UNCHANGED <<sub, delivered, owed>>
  BY DEF ApplyResult
<1>2. /\ allocated' = allocated \ {j} /\ pending' = pending /\ j \in allocated
      /\ \A k \in allocated' : result'[k] = result[k]
  <2>1. j \in Job /\ j \in Jobs(done) /\ done # <<>>
    BY <1>1, JobsHead DEF Take, IInv, QueueTypeOK
  <2>2. allocated \subseteq Job
    BY DEF IInv, QueueTypeOK
  <2> QED
    BY <1>1, <2>1, <2>2 DEF Take, Free, IInv, Pieces
<1>3. Jobs(pending') \subseteq Jobs(pending) \cap allocated'
  <2>1. j \in Jobs(done)
    BY <1>1, JobsHead DEF Take, IInv, QueueTypeOK
  <2> QED
    BY <1>2, <2>1 DEF IInv, Pieces
<1>4. ASSUME Current(j), ok PROVE job[j].sample \in acks /\ job[j].sample \in 0 .. MaxSample
  BY <1>0, <1>2, <1>4 DEF BlocksWell, AnswersAreKnown, Current, DeliveryTyped, Content
<1>5. CASE Current(j)
  <2>0. sub \in Subscription /\ sub # NoSub /\ ok \in BOOLEAN
    BY <1>0, <1>5 DEF Current, OwnIdOnly
  <2>1. /\ sub' \in Subscription /\ sub' # NoSub /\ sub'.lastOk = ok
        /\ sub'.callback = sub.callback /\ sub'.events = sub.events
    BY <1>1, <1>5, <2>0, StatusOnly
  <2>2. StatusIsOwn'
    <3>1. sub'.lastOk => acks # {}
      BY <1>4, <1>5, <2>1
    <3> QED
      BY <1>1, <3>1 DEF StatusIsOwn
  <2>3. /\ owed' \in BOOLEAN /\ delivered' \in 0 .. MaxSample
        /\ (delivered' \in acks) \/ (delivered' = delivered /\ owed' = owed)
    BY <1>0, <1>1, <1>4, <1>5 DEF SampleDelivered, DeliveryTyped
  <2>4. DebtIsCalled'
    BY <1>0, <1>1, <2>0, <2>1, <2>3 DEF DebtIsCalled, Matches
  <2>5. /\ DOMAIN job' = allocated' /\ \A k \in allocated' : job'[k] = job[k] /\ job'[k] \in Content
        /\ BlocksWell'
    BY <1>1, <1>2, <1>3, <2>1, BlocksFreed
  <2> QED
    BY <1>0, <1>1, <2>1, <2>2, <2>3, <2>4, <2>5 DEF DInv, DeliveryTyped
<1>6. CASE ~Current(j)
  <2>1. UNCHANGED <<sub, delivered, owed>>
    BY <1>1, <1>6
  <2>2. /\ DOMAIN job' = allocated' /\ \A k \in allocated' : job'[k] = job[k] /\ job'[k] \in Content
        /\ BlocksWell'
    BY <1>1, <1>2, <1>3, <2>1, BlocksFreed
  <2> QED
    BY <1>0, <1>1, <2>1, <2>2 DEF DInv, DeliveryTyped, StatusIsOwn, DebtIsCalled, Matches
<1> QED
  BY <1>5, <1>6

\* A post that is answered for the subscriber goes into the history.
LEMMA PostKeeps == ASSUME IInv, DInv, NEW o \in Outcome, Post(o) PROVE DInv'
<1>0. DeliveryTyped /\ BlocksWell /\ StatusIsOwn /\ DebtIsCalled
  BY DEF DInv
<1>1. /\ WorkerPost(o) /\ UNCHANGED <<sub, generation, job, calls, sample, delivered, owed>>
      /\ acks' = IF o = "ok" /\ job[current].generation = generation
                 THEN acks \cup {job[current].sample} ELSE acks
  BY DEF Post
<1>2. /\ current \in Job /\ current \in allocated /\ allocated \subseteq Job
      /\ result' = [result EXCEPT ![current] = o] /\ allocated' = allocated /\ pending' = pending
      /\ result \in [Job -> Outcome \cup {"none"}]
  BY <1>1 DEF WorkerPost, IInv, Pieces, Active, Stages, QueueTypeOK
<1>3. acks \subseteq acks' /\ acks' \subseteq 0 .. MaxSample
  <2>1. job[current] \in Content /\ acks \subseteq 0 .. MaxSample
    BY <1>0, <1>2 DEF DeliveryTyped
  <2>2. job[current].sample \in 0 .. MaxSample
    BY <2>1 DEF Content
  <2>3. acks' = acks \/ acks' = acks \cup {job[current].sample}
    BY <1>1
  <2> QED
    BY <2>1, <2>2, <2>3
<1>4. AnswersAreKnown'
  <2> SUFFICES ASSUME NEW k \in allocated, result'[k] = "ok", job[k].generation = generation
               PROVE  job[k].sample \in acks'
    BY <1>1, <1>2 DEF AnswersAreKnown
  <2>1. CASE k = current
    BY <1>1, <1>2, <2>1
  <2>2. CASE k # current
    BY <1>0, <1>2, <1>3, <2>2 DEF BlocksWell, AnswersAreKnown
  <2> QED
    BY <2>1, <2>2
<1>5. PendingIsOwn' /\ NoneAhead'
  BY <1>0, <1>1, <1>2 DEF BlocksWell, PendingIsOwn, NoneAhead
<1>6. StatusIsOwn' /\ DebtIsCalled'
  BY <1>0, <1>1, <1>3 DEF StatusIsOwn, DebtIsCalled, Matches
<1> QED
  BY <1>0, <1>1, <1>2, <1>3, <1>4, <1>5, <1>6 DEF DInv, DeliveryTyped, BlocksWell

\* The rest of the queue's steps only free blocks or move them on.
LEMMA QueueStepKeeps == ASSUME IInv, DInv, QueueStep PROVE DInv'
<1>0. DeliveryTyped /\ BlocksWell /\ StatusIsOwn /\ DebtIsCalled
  BY DEF DInv
<1>1. job' = Kept /\ UNCHANGED <<sub, generation, calls, sample, delivered, owed, acks>>
  BY DEF QueueStep
<1>2. /\ allocated' \subseteq allocated
      /\ \A k \in allocated' : result'[k] = result[k]
      /\ Jobs(pending') \subseteq Jobs(pending) \cap allocated'
  <2>0. allocated \subseteq Job /\ Jobs(pending) \subseteq allocated
    BY DEF IInv, Pieces, QueueTypeOK
  <2>1. CASE WorkerWait \/ WorkerExit \/ Wake \/ TakeNone
    BY <2>0, <2>1 DEF WorkerWait, WorkerExit, Wake, TakeNone
  <2>2. CASE WorkerBegin
    <3>1. Jobs(Tail(pending)) = Jobs(pending) \ {Head(pending)}
      BY <2>2, JobsTail DEF WorkerBegin, IInv, QueueTypeOK, Pieces
    <3> QED
      BY <2>0, <2>2, <3>1 DEF WorkerBegin
  <2>3. CASE WorkerFinish
    <3>1. pending' = pending /\ (stopped => Free({current})) /\ (~stopped => UNCHANGED <<allocated, result>>)
      BY <2>3 DEF WorkerFinish
    <3>2. stopped => Jobs(pending) = {}
      BY JobsEmpty DEF IInv, Stages
    <3> QED
      BY <2>0, <3>1, <3>2 DEF Free
  <2>4. CASE Close
    <3>1. pending' = <<>> /\ Free(ClosedJobs) /\ Jobs(<<>>) = {}
      BY <2>4, JobsEmpty DEF Close
    <3> QED
      BY <2>0, <3>1 DEF Free
  <2> QED
    BY <2>1, <2>2, <2>3, <2>4 DEF QueueStep
<1>3. /\ DOMAIN job' = allocated' /\ \A k \in allocated' : job'[k] = job[k] /\ job'[k] \in Content
      /\ BlocksWell'
  BY <1>1, <1>2, BlocksFreed
<1> QED
  BY <1>0, <1>1, <1>3 DEF DInv, DeliveryTyped, StatusIsOwn, DebtIsCalled, Matches

LEMMA DeliveryStep == IInv /\ DInv /\ [DeliveryNext]_allVars => IInv' /\ DInv'
<1> SUFFICES ASSUME IInv, DInv, [DeliveryNext]_allVars PROVE IInv' /\ DInv'
  OBVIOUS
<1>1. IInv'
  BY DeliveryDrivesQueue, NextIInv
<1>2. CASE UNCHANGED allVars
  <2>1. UNCHANGED <<queueVars, sub, generation, job, calls, sample, delivered, owed, acks>>
    BY <1>2 DEF allVars, deliveryVars
  <2>2. BlocksWell'
    BY <2>1, BlocksKept DEF DInv
  <2> QED
    BY <1>1, <2>1, <2>2 DEF DInv, DeliveryTyped, StatusIsOwn, DebtIsCalled, Matches, queueVars
<1> QED
  BY <1>1, <1>2, DispatchKeeps, StartsKeep, SubscribersKeep, ResultKeeps, PostKeeps, QueueStepKeeps
  DEF DeliveryNext

\* The worker takes up what is at the head of pending.
BeginsOwn ==
    current' # current /\ current' # NoJob =>
        /\ sub # NoSub
        /\ job[current'].generation = generation
        /\ job[current'].callback = sub.callback
        /\ job[current'].event \in sub.events

LEMMA PostsAreOwn == IInv /\ DInv /\ [DeliveryNext]_allVars => BeginsOwn
<1> SUFFICES ASSUME IInv, DInv, [DeliveryNext]_allVars, current' # current, current' # NoJob
             PROVE  /\ sub # NoSub
                    /\ job[current'].generation = generation
                    /\ job[current'].callback = sub.callback
                    /\ job[current'].event \in sub.events
  BY DEF BeginsOwn
<1>1. [QueueNext]_queueVars
  BY DeliveryDrivesQueue
<1>2. WorkerBegin
  <2>1. QueueNext
    BY <1>1 DEF queueVars
  <2>2. ~((\E j \in Job : Submit(j)) \/ Wake \/ Take \/ TakeNone \/ DiscardPending \/ Close)
    BY DEF Submit, Wake, Take, TakeNone, DiscardPending, Close
  <2>3. ~(WorkerWait \/ (\E o \in Outcome : WorkerPost(o)) \/ WorkerFinish \/ WorkerExit)
    BY DEF WorkerWait, WorkerPost, WorkerFinish, WorkerExit
  <2> QED
    BY <2>1, <2>2, <2>3 DEF QueueNext, MainNext, WorkerNext
<1>3. current' \in Jobs(pending)
  BY <1>2, JobsHead DEF WorkerBegin, IInv, QueueTypeOK
<1> QED
  BY <1>3 DEF DInv, BlocksWell, PendingIsOwn

\* The delivery of http.c drives the queue of callback_queue.c only through its
\* operations: what is proved of QueueSpec holds of the agent's event delivery.
THEOREM DeliveryImplementsQueue == DeliverySpec => QueueSpec
<1>1. DeliveryInit => QueueInit
  BY DEF DeliveryInit
<1> QED
  BY <1>1, DeliveryDrivesQueue, PTL DEF DeliverySpec, QueueSpec

\* DeliveryTrue of module EventDelivery (http.c, system_metrics_monitor.c): what
\* is shown as delivered was acknowledged by this subscriber, no debt to it is
\* lost, and no post is begun for another one, for any callbacks, filters, ids,
\* generations and samples, and any capacity of the queue.
THEOREM DeliveryTrueHolds == DeliverySpec => DeliveryTrue
<1>1. IInv /\ DInv /\ [DeliveryNext]_allVars => [BeginsOwn]_allVars
  BY PostsAreOwn
<1> QED
  BY <1>1, DeliveryInitInv, DeliveryStep, DInvImplies, PTL
  DEF DeliverySpec, DeliveryTrue, PostsOnlyToSubscriber, BeginsOwn
=============================================================================
