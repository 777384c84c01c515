-------------------------- MODULE SubprocessProofs --------------------------
(***************************************************************************)
(* Proofs about Subprocess, for every set of calls and programs and every  *)
(* capacity of the pipes.                                                  *)
(***************************************************************************)
EXTENDS Subprocess, SequenceTheorems, TLAPS

-----------------------------------------------------------------------------
(* Numbered bytes: those of a, and then those of b. *)

Numbered(a, b) ==
    /\ \A i \in 1..Len(a) : a[i] = i
    /\ \A i \in 1..Len(b) : b[i] = Len(a) + i

LEMMA BytesType ==
    ASSUME NEW n \in Nat
    PROVE  Bytes(n) \in Seq(Nat) /\ Len(Bytes(n)) = n /\ \A i \in 1..n : Bytes(n)[i] = i
BY DEF Bytes

LEMMA TailType ==
    ASSUME NEW S, NEW q \in Seq(S), q # << >>
    PROVE  /\ Head(q) \in S /\ Tail(q) \in Seq(S) /\ Len(Tail(q)) = Len(q) - 1
           /\ Len(q) \in Nat \ {0} /\ Head(q) = q[1]
           /\ \A i \in 1..(Len(q) - 1) : Tail(q)[i] = q[i + 1]
BY HeadTailProperties, EmptySeq

LEMMA AppendType ==
    ASSUME NEW S, NEW q \in Seq(S), NEW x \in S
    PROVE  /\ Append(q, x) \in Seq(S) /\ Len(Append(q, x)) = Len(q) + 1
           /\ Append(q, x)[Len(q) + 1] = x
           /\ \A i \in 1..Len(q) : Append(q, x)[i] = q[i]
OBVIOUS

\* What read() moves from a pipe to a buffer.
LEMMA ReadType ==
    ASSUME NEW b \in Seq(Nat), NEW p \in Seq(Nat), NEW n \in 1..Len(p)
    PROVE  /\ b \o SubSeq(p, 1, n) \in Seq(Nat) /\ SubSeq(p, n + 1, Len(p)) \in Seq(Nat)
           /\ Len(b \o SubSeq(p, 1, n)) = Len(b) + n
           /\ Len(SubSeq(p, n + 1, Len(p))) = Len(p) - n
           /\ \A i \in 1..Len(b) : (b \o SubSeq(p, 1, n))[i] = b[i]
           /\ \A i \in 1..n : (b \o SubSeq(p, 1, n))[Len(b) + i] = p[i]
           /\ \A i \in 1..(Len(p) - n) : SubSeq(p, n + 1, Len(p))[i] = p[n + i]
<1>1. Len(b) \in Nat /\ Len(p) \in Nat /\ n \in Nat /\ n <= Len(p)
  OBVIOUS
<1>2. /\ SubSeq(p, 1, n) \in Seq(Nat) /\ Len(SubSeq(p, 1, n)) = n
      /\ \A i \in 1..n : SubSeq(p, 1, n)[i] = p[i]
  BY <1>1
<1>3. /\ SubSeq(p, n + 1, Len(p)) \in Seq(Nat) /\ Len(SubSeq(p, n + 1, Len(p))) = Len(p) - n
      /\ \A i \in 1..(Len(p) - n) : SubSeq(p, n + 1, Len(p))[i] = p[n + i]
  BY <1>1
<1> DEFINE a == SubSeq(p, 1, n)
<1> HIDE DEF a
<1>4. /\ b \o a \in Seq(Nat) /\ Len(b \o a) = Len(b) + Len(a)
      /\ \A i \in 1..(Len(b) + Len(a)) :
            (b \o a)[i] = IF i <= Len(b) THEN b[i] ELSE a[i - Len(b)]
  BY <1>2, ConcatProperties DEF a
<1>5. Len(a) = n /\ \A i \in 1..n : a[i] = p[i]
  BY <1>2 DEF a
<1>6. \A i \in 1..Len(b) : (b \o a)[i] = b[i]
  BY <1>1, <1>4, <1>5
<1>7. ASSUME NEW i \in 1..n PROVE (b \o a)[Len(b) + i] = p[i]
  <2>1. Len(b) + i \in 1..(Len(b) + Len(a)) /\ ~(Len(b) + i <= Len(b)) /\ (Len(b) + i) - Len(b) = i
    BY <1>1, <1>5
  <2> QED BY <1>4, <1>5, <2>1
<1> QED BY <1>3, <1>4, <1>5, <1>6, <1>7 DEF a

LEMMA NumberedAppend ==
    ASSUME NEW a \in Seq(Nat), NEW b \in Seq(Nat), Numbered(a, b)
    PROVE  Numbered(a, Append(b, Len(a) + Len(b) + 1))
<1> DEFINE x == Len(a) + Len(b) + 1
<1>1. Len(a) \in Nat /\ Len(b) \in Nat /\ x \in Nat
  OBVIOUS
<1>2. ASSUME NEW i \in 1..Len(Append(b, x)) PROVE Append(b, x)[i] = Len(a) + i
  <2>1. CASE i = Len(b) + 1
    BY <1>1, <2>1, AppendType
  <2>2. CASE i # Len(b) + 1
    <3>1. i \in 1..Len(b)
      BY <1>1, <2>2, AppendType
    <3> QED BY <1>1, <3>1, AppendType DEF Numbered
  <2> QED BY <2>1, <2>2
<1> QED BY <1>2 DEF Numbered

LEMMA NumberedMove ==
    ASSUME NEW a \in Seq(Nat), NEW b \in Seq(Nat), Numbered(a, b), b # << >>
    PROVE  Numbered(Append(a, Head(b)), Tail(b))
<1>1. Len(a) \in Nat /\ Len(b) \in Nat \ {0} /\ Head(b) = Len(a) + 1 /\ Head(b) \in Nat
  BY TailType DEF Numbered
<1>2. ASSUME NEW i \in 1..Len(Append(a, Head(b))) PROVE Append(a, Head(b))[i] = i
  <2>1. CASE i = Len(a) + 1
    BY <1>1, <2>1, AppendType
  <2>2. CASE i # Len(a) + 1
    <3>1. i \in 1..Len(a)
      BY <1>1, <2>2, AppendType
    <3> QED BY <1>1, <3>1, AppendType DEF Numbered
  <2> QED BY <2>1, <2>2
<1>3. ASSUME NEW i \in 1..Len(Tail(b)) PROVE Tail(b)[i] = Len(Append(a, Head(b))) + i
  <2>1. i \in 1..(Len(b) - 1) /\ i + 1 \in 1..Len(b)
    BY <1>1, TailType
  <2>2. Tail(b)[i] = b[i + 1] /\ b[i + 1] = Len(a) + (i + 1)
    BY <2>1, TailType DEF Numbered
  <2>3. Len(Append(a, Head(b))) = Len(a) + 1
    BY <1>1, AppendType
  <2> QED BY <1>1, <2>2, <2>3
<1> QED BY <1>2, <1>3 DEF Numbered

LEMMA NumberedRead ==
    ASSUME NEW b \in Seq(Nat), NEW p \in Seq(Nat), NEW n \in 1..Len(p), Numbered(b, p)
    PROVE  Numbered(b \o SubSeq(p, 1, n), SubSeq(p, n + 1, Len(p)))
<1> DEFINE bb == b \o SubSeq(p, 1, n)
           pp == SubSeq(p, n + 1, Len(p))
<1>1. /\ Len(bb) = Len(b) + n /\ Len(pp) = Len(p) - n
      /\ \A i \in 1..Len(b) : bb[i] = b[i]
      /\ \A i \in 1..n : bb[Len(b) + i] = p[i]
      /\ \A i \in 1..(Len(p) - n) : pp[i] = p[n + i]
  BY ReadType
<1>2. Len(b) \in Nat /\ Len(p) \in Nat /\ n \in Nat /\ n <= Len(p)
  OBVIOUS
<1> HIDE DEF bb, pp
<1>3. ASSUME NEW i \in 1..Len(bb) PROVE bb[i] = i
  <2>1. CASE i \in 1..Len(b)
    BY <1>1, <2>1 DEF Numbered
  <2>2. CASE i \notin 1..Len(b)
    <3>1. i - Len(b) \in 1..n /\ i - Len(b) \in 1..Len(p) /\ Len(b) + (i - Len(b)) = i
      BY <1>1, <1>2, <2>2
    <3>2. bb[Len(b) + (i - Len(b))] = p[i - Len(b)]
      BY <1>1, <3>1
    <3>3. p[i - Len(b)] = Len(b) + (i - Len(b))
      BY <3>1 DEF Numbered
    <3> QED BY <3>1, <3>2, <3>3
  <2> QED BY <2>1, <2>2
<1>4. ASSUME NEW i \in 1..Len(pp) PROVE pp[i] = Len(bb) + i
  <2>1. n + i \in 1..Len(p) /\ i \in 1..(Len(p) - n)
    BY <1>1, <1>2
  <2>2. p[n + i] = Len(b) + (n + i)
    BY <2>1 DEF Numbered
  <2> QED BY <1>1, <1>2, <2>1, <2>2
<1>5. Numbered(bb, pp)
  BY <1>3, <1>4 DEF Numbered
<1> QED BY <1>5 DEF bb, pp

LEMMA NumberedConcat ==
    ASSUME NEW a \in Seq(Nat), NEW b \in Seq(Nat), Numbered(a, b)
    PROVE  a \o b = Bytes(Len(a) + Len(b))
<1>1. /\ Len(a) \in Nat /\ Len(b) \in Nat /\ a \o b \in Seq(Nat)
      /\ Len(a \o b) = Len(a) + Len(b)
  BY ConcatProperties
<1>2. /\ Bytes(Len(a) + Len(b)) \in Seq(Nat) /\ Len(Bytes(Len(a) + Len(b))) = Len(a) + Len(b)
      /\ \A i \in 1..(Len(a) + Len(b)) : Bytes(Len(a) + Len(b))[i] = i
  BY <1>1, BytesType
<1>3. ASSUME NEW i \in 1..Len(a \o b) PROVE (a \o b)[i] = Bytes(Len(a) + Len(b))[i]
  <2>1. i \in 1..(Len(a) + Len(b))
    BY <1>1
  <2>2. CASE i <= Len(a)
    <3>1. i \in 1..Len(a) /\ (a \o b)[i] = a[i]
      BY <1>1, <2>1, <2>2, ConcatProperties
    <3> QED BY <1>2, <2>1, <3>1 DEF Numbered
  <2>3. CASE ~(i <= Len(a))
    <3>1. i - Len(a) \in 1..Len(b) /\ (a \o b)[i] = b[i - Len(a)]
      BY <1>1, <2>1, <2>3, ConcatProperties
    <3>2. b[i - Len(a)] = Len(a) + (i - Len(a))
      BY <3>1 DEF Numbered
    <3> QED BY <1>1, <1>2, <2>1, <3>1, <3>2
  <2> QED BY <2>2, <2>3
<1> QED BY <1>1, <1>2, <1>3, SeqEqual

LEMMA BytesPrefix ==
    ASSUME NEW m \in Nat, NEW n \in Nat, m <= n
    PROVE  IsPrefix(Bytes(m), Bytes(n))
<1>1. /\ Bytes(m) \in Seq(Nat) /\ Len(Bytes(m)) = m /\ Bytes(n) \in Seq(Nat) /\ Len(Bytes(n)) = n
      /\ DOMAIN Bytes(m) = 1..m /\ 1..m \subseteq 1..n
  BY BytesType DEF Bytes
<1>2. \A i \in 1..m : Bytes(m)[i] = Bytes(n)[i]
  BY <1>1, BytesType
<1> QED BY <1>1, <1>2 DEF IsPrefix

-----------------------------------------------------------------------------
(* Type correctness. *)

LEMMA InitTypes == Init => TypeOK
<1> SUFFICES ASSUME Init PROVE TypeOK
  OBVIOUS
<1>1. IsCall(call) /\ call.size \in Nat /\ call.prog \in Seq(Instr)
  BY SubprocessAssumption DEF Init, IsCall
<1>2. << >> \in Seq(Nat) /\ Len(<< >>) = 0 /\ Capacity \in Nat
  BY SubprocessAssumption
<1>3. /\ pc = "pipe_in" /\ fds \subseteq call.pipes /\ spare \subseteq call.pipes
      /\ cfds \subseteq call.pipes
      /\ timelimit = -1 /\ polled \in Nat
      /\ reaped \in BOOLEAN /\ eof \in BOOLEAN
  BY DEF Init
<1>10. now \in 0..Horizon
  <2>1. call.limit \in Nat /\ now = 0
    BY <1>1 DEF Init, IsCall
  <2> QED BY <2>1 DEF Horizon
<1>9. written \in 0..call.size /\ said \in [Output -> Nat]
  BY <1>1 DEF Init
<1>7. revents \in [Chan -> SUBSET {"IN", "OUT", "HUP", "ERR"}]
  BY DEF Init
<1>8. status \in [exited : BOOLEAN, signaled : BOOLEAN, timed_out : BOOLEAN]
  BY DEF Init, NoStatus
<1>4. rest \in Seq(Nat) /\ Len(rest) <= call.size - written
  BY <1>1, <1>2 DEF Init
<1>5. /\ buf \in [Output -> Seq(Nat)] /\ pipe \in [Chan -> Seq(Nat)] /\ got \in Seq(Nat)
      /\ \A c \in Chan : Len(pipe[c]) <= Capacity
  BY <1>2 DEF Init
<1>6. child \in [state : {"none", "running", "exited", "signaled"}, prog : Seq(Instr)]
  BY <1>1 DEF Init
<1> QED BY <1>1, <1>3, <1>4, <1>5, <1>6, <1>7, <1>8, <1>9, <1>10 DEF TypeOK

\* What ceil() gives is no less than the time it is given.
LEMMA CeilBound ==
    ASSUME NEW t \in Int
    PROVE  Ceil(t) \in Int /\ 2 * Ceil(t) >= t
BY DEF Ceil

LEMMA TimelimitType ==
    ASSUME TypeOK, SetTimelimit
    PROVE  timelimit' \in Int /\ polled' \in Nat
<1>1. /\ call.limit \in Nat /\ Horizon \in Nat /\ now \in Nat /\ call.limit - now \in Int
      /\ timelimit \in Int
  BY DEF TypeOK, IsCall, Horizon
<1> QED BY <1>1, CeilBound DEF SetTimelimit

\* Before the fork there is no child.
Before == {"pipe_in", "pipe_out", "pipe_err", "fork"}

\* A pipe() leaves everything alone but the ends the parent has open.
LEMMA PipeFrame ==
    ASSUME NEW c \in Chan, MakePipe(c) \/ PipeFails(c)
    PROVE  /\ pc \in Before /\ pc' \in Before \cup {"failed"}
           /\ UNCHANGED <<call, revents, written, rest, buf, limits, result, now,
                          childVars, pipe>>
BY DEF MakePipe, PipeFails, PipePc, AfterPipe, Chan, Before

\* The instruction the child does is taken from its program.
LEMMA GoesType ==
    ASSUME TypeOK, NEW i, Does(i), Goes
    PROVE  /\ child' \in [state : {"none", "running", "exited", "signaled"},
                          prog : Seq(Instr)]
           /\ child'.state = child.state /\ child'.prog = Tail(child.prog)
<1>1. child.prog \in Seq(Instr) /\ child.prog # << >>
  BY DEF TypeOK, Does
<1>2. Tail(child.prog) \in Seq(Instr)
  BY <1>1, TailType
<1> QED BY <1>2 DEF TypeOK, Goes

LEMMA EndedType ==
    ASSUME TypeOK, NEW how \in {"exited", "signaled"}
    PROVE  /\ Ended(how) \in [state : {"none", "running", "exited", "signaled"},
                              prog : Seq(Instr)]
           /\ Ended(how).state = how /\ Ended(how).prog = << >>
<1>1. << >> \in Seq(Instr)
  OBVIOUS
<1>2. child \in [state : {"none", "running", "exited", "signaled"}, prog : Seq(Instr)]
  BY DEF TypeOK
<1> QED BY <1>1, <1>2 DEF Ended

\* What a step of the child may change, and keep the types.
PipesType == pipe \in [Chan -> Seq(Nat)] /\ \A c \in Chan : Len(pipe[c]) <= Capacity

ChildType == child \in [state : {"none", "running", "exited", "signaled"},
                       prog : Seq(Instr)]

LEMMA ChildKeepsTypes ==
    ASSUME TypeOK, UNCHANGED <<call, parent, now>>, cfds' \subseteq call.pipes, ChildType',
           eof' \in BOOLEAN, PipesType', got' \in Seq(Nat), said' \in [Output -> Nat]
    PROVE  TypeOK'
<1>1. UNCHANGED <<call, pc, fds, spare, revents, written, rest, buf, timelimit, polled,
                 status, reaped, now, Horizon>>
  BY DEF parent, limits, result, Horizon
<1> QED BY <1>1 DEF TypeOK, PipesType, ChildType

LEMMA TypesOfChild ==
    ASSUME TypeOK
    PROVE  /\ cfds \subseteq call.pipes /\ ChildType /\ eof \in BOOLEAN /\ PipesType
           /\ got \in Seq(Nat) /\ said \in [Output -> Nat]
BY DEF TypeOK, ChildType, PipesType

LEMMA ReadKeepsTypes ==
    ASSUME TypeOK, pc' \in {"err", "relimit"}, buf' \in [Output -> Seq(Nat)], PipesType',
           UNCHANGED <<call, fds, spare, revents, written, rest, timelimit, polled,
                       status, reaped, now, child, cfds, got, eof, said>>
    PROVE  TypeOK'
<1>1. Horizon' = Horizon
  BY DEF Horizon
<1> QED BY <1>1 DEF TypeOK, PipesType

LEMMA StepTypes == TypeOK /\ [Next]_vars => TypeOK'
<1> SUFFICES ASSUME TypeOK, [Next]_vars PROVE TypeOK'
  OBVIOUS
<1> USE SubprocessAssumption
<1>0. call.size \in Nat /\ call.pipes \subseteq Chan /\ IsCall(call)
  BY DEF TypeOK, IsCall
<1> USE DEF limits, result, Horizon
<1>1. ASSUME NEW c \in Chan, MakePipe(c) \/ PipeFails(c)
      PROVE  TypeOK'
  <2>1. fds' \subseteq call.pipes /\ spare' \subseteq call.pipes
    BY <1>1 DEF MakePipe, PipeFails, PipesMade, TypeOK
  <2> QED BY <1>1, <2>1, PipeFrame DEF TypeOK, childVars, Before
<1>2. CASE Fork \/ MaskFails
  <2>1. cfds' \subseteq call.pipes /\ reaped' \in BOOLEAN /\ pc' \in {"mask", "failed"}
    BY <1>2 DEF Fork, MaskFails, Killed, TypeOK
  <2>2. child' \in [state : {"none", "running", "exited", "signaled"}, prog : Seq(Instr)]
    BY <1>2, EndedType DEF Fork, MaskFails, Killed, TypeOK
  <2> QED BY <1>2, <2>1, <2>2 DEF Fork, MaskFails, TypeOK
<1>22. CASE Mask \/ Relimit
  <2>1. timelimit' \in Int /\ polled' \in Nat
    BY <1>22, TimelimitType DEF Mask, Relimit
  <2>2. spare' \subseteq call.pipes
    BY <1>22 DEF Mask, Relimit, TypeOK
  <2> QED BY <1>22, <2>1, <2>2 DEF Mask, Relimit, TypeOK, childVars
<1>3. CASE PollNothing \/ PollTimeout \/ PollInterrupted
  BY <1>3 DEF PollNothing, PollTimeout, PollInterrupted, TypeOK, childVars
<1>4. CASE Poll
  <2>1. \A c \in Chan : Events(c) \subseteq {"IN", "OUT", "HUP", "ERR"}
    BY DEF Events
  <2>2. revents' \in [Chan -> SUBSET {"IN", "OUT", "HUP", "ERR"}]
    BY <1>4, <2>1 DEF Poll
  <2> QED BY <1>4, <2>2 DEF Poll, TypeOK, childVars
<1>5. CASE Kill
  <2>1. status' \in [exited : BOOLEAN, signaled : BOOLEAN, timed_out : BOOLEAN]
    BY <1>5 DEF Kill, TypeOK
  <2>2. child' \in [state : {"none", "running", "exited", "signaled"},
                    prog : Seq(Instr)]
    BY <1>5, EndedType DEF Kill, Killed, TypeOK
  <2>3. cfds' \subseteq call.pipes
    BY <1>5 DEF Kill, Killed, TypeOK
  <2> QED BY <1>5, <2>1, <2>2, <2>3 DEF Kill, TypeOK
<1>6. CASE StdinWrite
  <2>1. call.size - written \in Nat
    BY <1>0 DEF TypeOK
  <2>2. rest' \in Seq(Nat) /\ Len(rest') <= call.size - written
    BY <1>6, <2>1, BytesType DEF StdinWrite
  <2> QED BY <1>6, <2>2 DEF StdinWrite, TypeOK, childVars
<1>7. CASE StdinClose
  <2>1. fds' \subseteq call.pipes
    BY <1>7 DEF StdinClose, TypeOK
  <2> QED BY <1>7, <2>1 DEF StdinClose, TypeOK, childVars
<1>8. CASE WriteByte
  <2>1. /\ rest \in Seq(Nat) /\ rest # << >> /\ pipe["in"] \in Seq(Nat)
        /\ Len(pipe["in"]) < Capacity
    BY <1>8 DEF WriteByte, TypeOK, Chan
  <2>2. rest' \in Seq(Nat) /\ Len(rest') = Len(rest) - 1 /\ Head(rest) \in Nat
        /\ Len(rest) \in Nat
    BY <1>8, <2>1, TailType DEF WriteByte
  <2>3. /\ pipe' \in [Chan -> Seq(Nat)]
        /\ \A c \in Chan : Len(pipe'[c]) <= Capacity
    <3>1. /\ Append(pipe["in"], Head(rest)) \in Seq(Nat)
          /\ Len(Append(pipe["in"], Head(rest))) = Len(pipe["in"]) + 1
      BY <2>1, <2>2, AppendType
    <3>2. Len(pipe["in"]) + 1 <= Capacity
      BY <2>1
    <3> QED BY <1>8, <3>1, <3>2 DEF WriteByte, TypeOK
  <2>4. Len(rest') <= call.size - written
    BY <1>0, <2>2 DEF TypeOK
  <2> QED BY <1>8, <2>2, <2>3, <2>4 DEF WriteByte, TypeOK, childVars
<1>9. CASE WriteReturn
  <2>1. Counted \in 0..call.size
    BY <1>0 DEF TypeOK, Counted, Copied
  <2>2. fds' \subseteq call.pipes /\ written' \in 0..call.size
    BY <1>9, <2>1 DEF WriteReturn, TypeOK
  <2>3. rest' \in Seq(Nat) /\ Len(rest') <= call.size - written'
    BY <1>0, <1>9, <2>2 DEF WriteReturn
  <2> QED BY <1>9, <2>2, <2>3 DEF WriteReturn, TypeOK, childVars
<1>10. ASSUME NEW c \in Output, ReadOutput(c)
       PROVE  TypeOK'
  <2>0. PICK n \in 1..Len(pipe[c]) :
          /\ buf' = [buf EXCEPT ![c] = Appended(@, SubSeq(pipe[c], 1, n))]
          /\ pipe' = [pipe EXCEPT ![c] = SubSeq(@, n + 1, Len(@))]
    BY <1>10 DEF ReadOutput
  <2>1. /\ buf[c] \in Seq(Nat) /\ pipe[c] \in Seq(Nat) /\ c \in Chan /\ Len(pipe[c]) <= Capacity
        /\ Len(pipe[c]) \in Nat
    BY DEF TypeOK, Output, Chan
  <2>2. /\ buf[c] \o SubSeq(pipe[c], 1, n) \in Seq(Nat)
        /\ SubSeq(pipe[c], n + 1, Len(pipe[c])) \in Seq(Nat)
        /\ Len(SubSeq(pipe[c], n + 1, Len(pipe[c]))) = Len(pipe[c]) - n
    BY <2>1, ReadType
  <2>3. buf' = [buf EXCEPT ![c] = buf[c] \o SubSeq(pipe[c], 1, n)] /\ buf \in [Output -> Seq(Nat)]
    BY <2>0 DEF Appended, TypeOK
  <2>4. buf' \in [Output -> Seq(Nat)]
    BY <2>2, <2>3
  <2>5. PipesType'
    <3>1. Len(pipe[c]) - n <= Capacity
      BY <2>1, SubprocessAssumption
    <3> QED BY <2>0, <2>1, <2>2, <3>1, TypesOfChild DEF PipesType
  <2>6. /\ pc' \in {"err", "relimit"}
        /\ UNCHANGED <<call, fds, spare, revents, written, rest, timelimit, polled,
                       status, reaped, now, child, cfds, got, eof, said>>
    BY <1>10 DEF ReadOutput, AfterOutput, childVars
  <2> QED BY <2>4, <2>5, <2>6, ReadKeepsTypes
<1>11. ASSUME NEW c \in Output, CloseOutput(c)
       PROVE  TypeOK'
  <2>1. pc' \in {"err", "relimit"} /\ fds' \subseteq call.pipes
    BY <1>11 DEF CloseOutput, AfterOutput, TypeOK
  <2> QED BY <1>11, <2>1 DEF CloseOutput, TypeOK, childVars
<1>13. CASE Wait \/ WaitInterrupted
  <2>1. /\ status' \in [exited : BOOLEAN, signaled : BOOLEAN, timed_out : BOOLEAN]
        /\ reaped' \in BOOLEAN /\ fds' \subseteq call.pipes
    BY <1>13 DEF Wait, WaitInterrupted, Finish, TypeOK
  <2>2. /\ pc' = "done"
        /\ UNCHANGED <<call, spare, revents, written, rest, buf, timelimit, polled,
                       now, child, cfds, pipe, got, eof, said>>
    BY <1>13 DEF Wait, WaitInterrupted, Finish, childVars
  <2>3. Horizon' = Horizon
    BY <2>2
  <2> QED BY <2>1, <2>2, <2>3 DEF TypeOK
<1>14. ASSUME NEW i \in {"in", "all"}, ChildRead(i)
       PROVE  TypeOK'
  <2>1. /\ "in" \in Chan /\ pipe["in"] \in Seq(Nat) /\ pipe["in"] # << >>
        /\ Len(pipe["in"]) <= Capacity
    BY <1>14, TypesOfChild DEF ChildRead, PipesType, Chan
  <2>2. Head(pipe["in"]) \in Nat /\ Tail(pipe["in"]) \in Seq(Nat)
        /\ Len(Tail(pipe["in"])) <= Capacity
    BY <2>1, TailType
  <2>3. pipe' = [pipe EXCEPT !["in"] = Tail(@)] /\ got' = Append(got, Head(pipe["in"]))
        /\ UNCHANGED <<call, parent, now, cfds, eof, said>>
    BY <1>14 DEF ChildRead
  <2>4. PipesType'
    BY <2>1, <2>2, <2>3, TypesOfChild DEF PipesType
  <2>5. got' \in Seq(Nat)
    BY <2>2, <2>3, TypesOfChild, AppendType
  <2>6. ChildType'
    BY <1>14, GoesType, TypesOfChild DEF ChildRead, ChildType
  <2> QED BY <2>3, <2>4, <2>5, <2>6, TypesOfChild, ChildKeepsTypes
<1>15. ASSUME NEW i \in {"in", "all"}, ChildReadsEnd(i)
       PROVE  TypeOK'
  <2>1. ChildType'
    BY <1>15, GoesType DEF ChildReadsEnd, ChildType
  <2>2. PipesType' /\ eof' \in BOOLEAN /\ UNCHANGED <<call, parent, now, cfds, got, said>>
    BY <1>15, TypesOfChild DEF ChildReadsEnd, PipesType
  <2> QED BY <2>1, <2>2, TypesOfChild, ChildKeepsTypes
<1>16. ASSUME NEW c \in Output, ChildWrite(c)
       PROVE  TypeOK'
  <2>1. /\ pipe[c] \in Seq(Nat) /\ Len(pipe[c]) < Capacity /\ c \in Chan /\ said[c] \in Nat
        /\ pipe' = [pipe EXCEPT ![c] = Append(@, said[c] + 1)]
        /\ said' = [said EXCEPT ![c] = @ + 1]
        /\ UNCHANGED <<call, parent, now, cfds, got, eof>>
    BY <1>16, TypesOfChild DEF ChildWrite, PipesType, Chan, Output
  <2>2. /\ Append(pipe[c], said[c] + 1) \in Seq(Nat)
        /\ Len(Append(pipe[c], said[c] + 1)) <= Capacity
    BY <2>1, AppendType
  <2>3. PipesType'
    BY <2>1, <2>2, TypesOfChild DEF PipesType
  <2>4. said' \in [Output -> Nat]
    BY <2>1, TypesOfChild
  <2>5. ChildType'
    BY <1>16, GoesType DEF ChildWrite, ChildType
  <2> QED BY <2>1, <2>3, <2>4, <2>5, TypesOfChild, ChildKeepsTypes
<1>17. ASSUME NEW c \in Output, ChildWriteNowhere(c)
       PROVE  TypeOK'
  <2>1. ChildType'
    BY <1>17, GoesType DEF ChildWriteNowhere, ChildType
  <2>2. PipesType' /\ UNCHANGED <<call, parent, now, cfds, got, eof, said>>
    BY <1>17, TypesOfChild DEF ChildWriteNowhere, PipesType
  <2> QED BY <2>1, <2>2, TypesOfChild, ChildKeepsTypes
<1>12. ASSUME NEW c \in Output, ChildWriteBroken(c)
       PROVE  TypeOK'
  <2>1. ChildType'
    BY <1>12, GoesType, EndedType DEF ChildWriteBroken, ChildType
  <2>2. /\ PipesType' /\ UNCHANGED <<call, parent, now, got, eof, said>>
        /\ cfds' \subseteq call.pipes
    BY <1>12, TypesOfChild DEF ChildWriteBroken, PipesType
  <2> QED BY <2>1, <2>2, TypesOfChild, ChildKeepsTypes
<1>18. ASSUME NEW c \in Chan, ChildClose(c)
       PROVE  TypeOK'
  <2>1. ChildType'
    BY <1>18, GoesType DEF ChildClose, ChildType
  <2>2. /\ PipesType' /\ UNCHANGED <<call, parent, now, got, eof, said>>
        /\ cfds' \subseteq call.pipes
    BY <1>18, TypesOfChild DEF ChildClose, PipesType
  <2> QED BY <2>1, <2>2, TypesOfChild, ChildKeepsTypes
<1>19. CASE ChildEnds
  <2>1. ChildType'
    BY <1>19, EndedType DEF ChildEnds, ChildType
  <2>2. PipesType' /\ cfds' = {} /\ UNCHANGED <<call, parent, now, got, eof, said>>
    BY <1>19, TypesOfChild DEF ChildEnds, PipesType
  <2> QED BY <2>1, <2>2, TypesOfChild, ChildKeepsTypes
<1>20. CASE Tick
  <2>0. call.limit \in Nat /\ now \in 0..(call.limit + 2)
    BY DEF TypeOK, IsCall
  <2>1. now' \in 0..(call.limit + 2)
    BY <1>20, <2>0 DEF Tick
  <2> QED BY <1>20, <2>1 DEF Tick, TypeOK, parent, childVars
<1>21. CASE UNCHANGED vars
  BY <1>21 DEF vars, TypeOK, parent, childVars
<1> QED
  BY <1>1, <1>2, <1>3, <1>4, <1>5, <1>6, <1>7, <1>8, <1>9, <1>10, <1>11, <1>12, <1>13,
     <1>14, <1>15, <1>16, <1>17, <1>18, <1>19, <1>20, <1>21, <1>22 DEF Next, Parent, Child

\* Every call keeps to its types, and a pipe never holds more than it can.
THEOREM TypeCorrect == Spec => []TypeOK
BY InitTypes, StepTypes, PTL DEF Spec

-----------------------------------------------------------------------------
(* The end of the call. *)

\* Whether there is a child, whether it was reaped, and which ends are open.
EndInv ==
    /\ pc \in Before => child.state = "none"
    /\ child.state = "none" => pc \in Before \/ (pc = "failed" /\ fds = {} /\ spare = {})
    /\ child.state # "running" => cfds = {}
    /\ pc \in Before \cup {"mask"} => spare = fds
    /\ pc = "pipe_in" => fds = {}
    /\ pc = "pipe_out" => fds \subseteq {"in"}
    /\ pc = "pipe_err" => fds \subseteq {"in", "out"}
    /\ pc \notin Before \cup {"mask", "failed"} => spare = {}
    /\ pc = "done" => fds = {}
    /\ pc = "failed" => child.state # "running"
    /\ pc \in {"done", "failed"} /\ ~call.handler => child.state = "none" \/ reaped

\* The steps of the child, and that it runs while it does them.
LEMMA ChildRuns ==
    ASSUME TypeOK, Child
    PROVE  /\ child.state = "running" /\ UNCHANGED <<call, parent, now>>
           /\ child'.state \in {"running", "exited", "signaled"}
           /\ child'.state # "running" => cfds' = {}
           /\ cfds' \subseteq cfds
<1>1. ASSUME NEW i \in {"in", "all"}, ChildRead(i) \/ ChildReadsEnd(i)
      PROVE  /\ child.state = "running" /\ UNCHANGED <<call, parent, now>>
             /\ child'.state = "running" /\ UNCHANGED cfds
  BY <1>1, GoesType DEF ChildRead, ChildReadsEnd, Does
<1>2. ASSUME NEW c \in Output, ChildWrite(c) \/ ChildWriteNowhere(c)
      PROVE  /\ child.state = "running" /\ UNCHANGED <<call, parent, now>>
             /\ child'.state = "running" /\ UNCHANGED cfds
  BY <1>2, GoesType DEF ChildWrite, ChildWriteNowhere, Does
<1>5. ASSUME NEW c \in Output, ChildWriteBroken(c)
      PROVE  /\ child.state = "running" /\ UNCHANGED <<call, parent, now>>
             /\ \/ child'.state = "running" /\ UNCHANGED cfds
                \/ child'.state = "signaled" /\ cfds' = {}
  BY <1>5, GoesType, EndedType DEF ChildWriteBroken, Does
<1>3. ASSUME NEW c \in Chan, ChildClose(c)
      PROVE  /\ child.state = "running" /\ UNCHANGED <<call, parent, now>>
             /\ child'.state = "running" /\ cfds' \subseteq cfds
  BY <1>3, GoesType DEF ChildClose, Does
<1>4. CASE ChildEnds
  BY <1>4, EndedType DEF ChildEnds
<1> QED BY <1>1, <1>2, <1>3, <1>4, <1>5 DEF Child

\* The parent's steps in the loop, and what they leave alone.
Loop ==
    \/ PollNothing \/ Poll \/ PollTimeout \/ PollInterrupted
    \/ StdinWrite \/ StdinClose \/ WriteByte \/ WriteReturn
    \/ \E c \in Output : ReadOutput(c) \/ CloseOutput(c)
    \/ Relimit

LEMMA LoopFrame ==
    ASSUME Loop
    PROVE  /\ UNCHANGED <<call, now, spare, childVars, result>>
           /\ pc \in {"poll", "stdin", "write", "out", "err", "relimit"}
           /\ pc' \in {"poll", "grace", "stdin", "write", "out", "err", "relimit", "wait"}
           /\ fds' \subseteq fds
<1>1. CASE PollNothing \/ Poll \/ PollTimeout \/ PollInterrupted
  BY <1>1 DEF PollNothing, Poll, PollTimeout, PollInterrupted
<1>2. CASE StdinWrite \/ StdinClose \/ WriteByte \/ WriteReturn \/ Relimit
  BY <1>2 DEF StdinWrite, StdinClose, WriteByte, WriteReturn, Relimit
<1>3. ASSUME NEW c \in Output, ReadOutput(c) \/ CloseOutput(c)
      PROVE  /\ UNCHANGED <<call, now, spare, childVars, result>>
             /\ pc \in {"out", "err"} /\ pc' \in {"err", "relimit"} /\ fds' \subseteq fds
  BY <1>3 DEF ReadOutput, CloseOutput, AfterOutput, Output
<1> QED BY <1>1, <1>2, <1>3 DEF Loop

\* A pipe() is made, or fails.
Pipes == \E c \in Chan : MakePipe(c) \/ PipeFails(c)

LEMMA NextCases ==
    ASSUME [Next]_vars
    PROVE  \/ Pipes \/ Fork \/ Mask \/ MaskFails \/ Kill \/ Wait \/ WaitInterrupted
           \/ Loop \/ Child \/ Tick \/ UNCHANGED vars
BY DEF Next, Parent, Loop, Pipes

\* The arguments stay as they are.
LEMMA CallStays ==
    ASSUME TypeOK, [Next]_vars
    PROVE  call' = call
BY NextCases, PipeFrame, LoopFrame, ChildRuns
   DEF Pipes, Fork, Mask, MaskFails, Kill, Wait, WaitInterrupted, Finish, Tick, vars

\* SIGKILL ends a child that runs.
LEMMA KilledChild ==
    ASSUME TypeOK, EndInv, Killed
    PROVE  /\ child'.state # "running" /\ cfds' = {}
           /\ child'.state = "none" <=> child.state = "none"
<1>1. CASE child.state = "running"
  BY <1>1, EndedType DEF Killed
<1>2. CASE child.state # "running"
  BY <1>2 DEF Killed, EndInv
<1> QED BY <1>1, <1>2

LEMMA StepEnds ==
    ASSUME TypeOK, EndInv, [Next]_vars
    PROVE  EndInv'
<1>0. call' = call
  BY CallStays
<1>1. CASE Pipes
  <2> PICK c \in Chan : MakePipe(c) \/ PipeFails(c)
    BY <1>1 DEF Pipes
  <2>1. /\ pc \in Before /\ UNCHANGED <<call, child, cfds, reaped>>
        /\ child.state = "none" /\ spare = fds
    BY PipeFrame DEF childVars, result, EndInv
  <2>2. CASE MakePipe(c)
    <3>1. spare' = fds' /\ fds' \subseteq fds \cup {c} /\ pc = PipePc[c] /\ pc' = AfterPipe[c]
      BY <2>1, <2>2 DEF MakePipe
    <3> QED BY <2>1, <3>1 DEF EndInv, PipePc, AfterPipe, Chan, Before
  <2>3. CASE PipeFails(c)
    <3>1. /\ spare' = fds' /\ fds' = fds \ ClosedOnFailure[c] /\ pc = PipePc[c]
          /\ pc' = "failed"
      BY <2>1, <2>3 DEF PipeFails
    <3>2. fds' = {}
      BY <3>1 DEF EndInv, PipePc, ClosedOnFailure, Chan
    <3> QED BY <2>1, <3>1, <3>2 DEF EndInv, Before
  <2> QED BY <2>2, <2>3
<1>2. CASE Fork
  <2>1. /\ child'.state = "running" /\ pc = "fork" /\ pc' = "mask" /\ UNCHANGED <<fds, spare>>
    BY <1>2 DEF Fork, TypeOK
  <2> QED BY <2>1 DEF EndInv, Before
<1>8. CASE Mask
  <2>1. /\ pc = "mask" /\ pc' = "poll" /\ spare' = {} /\ UNCHANGED <<child, cfds>>
    BY <1>8 DEF Mask, childVars
  <2> QED BY <2>1 DEF EndInv, Before
<1>9. CASE MaskFails
  <2>1. /\ pc = "mask" /\ pc' = "failed" /\ Killed /\ reaped' \in {TRUE, ~call.handler}
    BY <1>9 DEF MaskFails
  <2>2. child.state # "none"
    BY <2>1 DEF EndInv, Before
  <2> QED BY <1>0, <2>1, <2>2, KilledChild DEF EndInv, Before
<1>3. CASE Kill
  <2>1. pc = "grace" /\ pc' = "wait" /\ UNCHANGED <<fds, spare>> /\ Killed
    BY <1>3 DEF Kill
  <2> QED BY <2>1, KilledChild DEF EndInv, Before
<1>4. CASE Wait \/ WaitInterrupted
  <2>1. /\ pc = "wait" /\ pc' = "done" /\ fds' = {} /\ UNCHANGED <<spare, child, cfds>>
        /\ reaped' \/ call.handler
    BY <1>4 DEF Wait, WaitInterrupted, Finish, childVars
  <2>2. child.state # "none"
    BY <2>1 DEF EndInv, Before
  <2> QED BY <1>0, <2>1, <2>2 DEF EndInv, Before
<1>5. CASE Loop
  <2>1. /\ UNCHANGED <<child, cfds, spare>> /\ pc \notin Before \cup {"mask", "failed"}
        /\ pc' \notin Before \cup {"mask", "failed", "done"}
    BY <1>5, LoopFrame DEF childVars, Before
  <2> QED BY <2>1 DEF EndInv, Before
<1>6. CASE Child
  <2>1. UNCHANGED <<pc, fds, spare, reaped>> /\ child.state = "running"
    BY <1>6, ChildRuns DEF parent, result
  <2> QED BY <1>0, <1>6, <2>1, ChildRuns DEF EndInv, Before
<1>7. CASE Tick \/ UNCHANGED vars
  BY <1>7 DEF Tick, vars, EndInv, parent, childVars, result
<1> QED BY <1>1, <1>2, <1>3, <1>4, <1>5, <1>6, <1>7, <1>8, <1>9, NextCases

LEMMA EndInvariant == Spec => [](TypeOK /\ EndInv)
<1>1. Init => EndInv
  BY DEF Init, EndInv, Before
<1>2. TypeOK /\ EndInv /\ [Next]_vars => EndInv'
  BY StepEnds
<1> QED BY <1>1, <1>2, TypeCorrect, PTL DEF Spec

\* Whichever pipe() fails and however the loop ends, no end of a pipe is left open
\* when the call returns, and without a handler the child, if there is one, is reaped;
\* the pipes are left to a failing sigprocmask() only.
THEOREM NothingIsLeft == Spec => []NothingLeft
<1>1. TypeOK /\ EndInv => NothingLeft
  BY DEF EndInv, NothingLeft, Before
<1> QED BY <1>1, EndInvariant, PTL

-----------------------------------------------------------------------------
(* The outputs. *)

\* The child has closed output c, and what it wrote was read.
Drained(c) == c \notin cfds /\ pipe[c] = << >>

\* b and p are the first s bytes, in order.
Streams(b, p, s) == Numbered(b, p) /\ Len(b) + Len(p) = s

LEMMA StreamRead ==
    ASSUME NEW b \in Seq(Nat), NEW p \in Seq(Nat), NEW s \in Nat, NEW n \in 1..Len(p),
           Streams(b, p, s)
    PROVE  Streams(b \o SubSeq(p, 1, n), SubSeq(p, n + 1, Len(p)), s)
<1>1. Numbered(b \o SubSeq(p, 1, n), SubSeq(p, n + 1, Len(p)))
  BY NumberedRead DEF Streams
<1>2. /\ Len(b \o SubSeq(p, 1, n)) = Len(b) + n
      /\ Len(SubSeq(p, n + 1, Len(p))) = Len(p) - n
  BY ReadType
<1>3. Len(b) \in Nat /\ Len(p) \in Nat /\ n \in Nat /\ Len(b) + Len(p) = s
  BY DEF Streams
<1>4. \A i, j, k \in Nat : (i + k) + (j - k) = i + j
  OBVIOUS
<1>5. (Len(b) + n) + (Len(p) - n) = s
  BY <1>3, <1>4
<1> QED BY <1>1, <1>2, <1>5 DEF Streams

LEMMA StreamWritten ==
    ASSUME NEW b \in Seq(Nat), NEW p \in Seq(Nat), NEW s \in Nat, Streams(b, p, s)
    PROVE  Streams(b, Append(p, s + 1), s + 1)
<1>1. Len(b) \in Nat /\ Len(p) \in Nat /\ Len(b) + Len(p) = s
  BY DEF Streams
<1>2. Len(Append(p, s + 1)) = Len(p) + 1
  BY AppendType
<1>3. Numbered(b, Append(p, Len(b) + Len(p) + 1))
  BY NumberedAppend DEF Streams
<1>4. Len(b) + (Len(p) + 1) = s + 1
  BY <1>1
<1> QED BY <1>1, <1>2, <1>3, <1>4 DEF Streams

LEMMA StreamConcat ==
    ASSUME NEW b \in Seq(Nat), NEW p \in Seq(Nat), NEW s, Streams(b, p, s)
    PROVE  b \o p = Bytes(s)
BY NumberedConcat DEF Streams

\* What was read and what the pipe holds are the bytes the child wrote, in order.
OutputData(c) == Streams(buf[c], pipe[c], said[c])

\* The parent gives an output up when it is drained: a hangup that poll() reported
\* is still one when the parent acts on it, and nothing was written in between.
OutputClosed(c) ==
    /\ pc \in Before => revents[c] = {} /\ pipe[c] = << >>
    /\ "HUP" \in revents[c] => c \notin cfds /\ ("IN" \in revents[c] \/ pipe[c] = << >>)
    /\ c \notin fds => pc \in Before \cup {"failed", "done"} \/ Drained(c)
    /\ pc \in {"wait", "done"} => status.timed_out \/ call.handler \/ Drained(c)

OutputInv == \A c \in Output : OutputData(c) /\ OutputClosed(c)

\* The steps that move bytes of output c.
LEMMA OutputMoves ==
    ASSUME TypeOK, [Next]_vars, NEW c \in Output
    PROVE  \/ ReadOutput(c) \/ ChildWrite(c)
           \/ buf'[c] = buf[c] /\ pipe'[c] = pipe[c] /\ said'[c] = said[c]
<1>0. c \in Chan /\ c # "in" /\ pipe \in [Chan -> Seq(Nat)] /\ buf \in [Output -> Seq(Nat)]
      /\ said \in [Output -> Nat]
  BY DEF TypeOK, Chan, Output
<1>1. CASE WriteByte
  BY <1>0, <1>1 DEF WriteByte, childVars
<1>2. ASSUME NEW d \in Output, ReadOutput(d), d # c
      PROVE  buf'[c] = buf[c] /\ pipe'[c] = pipe[c] /\ said'[c] = said[c]
  BY <1>0, <1>2 DEF ReadOutput, childVars
<1>3. ASSUME NEW d \in Output, ChildWrite(d), d # c
      PROVE  buf'[c] = buf[c] /\ pipe'[c] = pipe[c] /\ said'[c] = said[c]
  BY <1>0, <1>3 DEF ChildWrite, parent
<1>4. ASSUME NEW i \in {"in", "all"}, ChildRead(i) \/ ChildReadsEnd(i)
      PROVE  buf'[c] = buf[c] /\ pipe'[c] = pipe[c] /\ said'[c] = said[c]
  BY <1>0, <1>4 DEF ChildRead, ChildReadsEnd, parent
<1>5. ASSUME NEW d \in Output, ChildWriteNowhere(d) \/ ChildWriteBroken(d) \/ CloseOutput(d)
      PROVE  buf' = buf /\ pipe' = pipe /\ said' = said
  BY <1>5 DEF ChildWriteNowhere, ChildWriteBroken, CloseOutput, parent, childVars
<1>6. ASSUME NEW d \in Chan, ChildClose(d)
      PROVE  buf' = buf /\ pipe' = pipe /\ said' = said
  BY <1>6 DEF ChildClose, parent
<1>7. CASE ChildEnds \/ Tick \/ UNCHANGED vars
  BY <1>7 DEF ChildEnds, Tick, vars, parent, childVars
<1>8. CASE Pipes \/ Fork \/ Mask \/ MaskFails \/ Kill \/ Wait \/ WaitInterrupted
  BY <1>8, PipeFrame DEF Pipes, Fork, Mask, MaskFails, Kill, Wait, WaitInterrupted, Finish,
                         childVars
<1>9. CASE \/ PollNothing \/ Poll \/ PollTimeout \/ PollInterrupted
           \/ StdinWrite \/ StdinClose \/ WriteReturn \/ Relimit
  BY <1>9 DEF PollNothing, Poll, PollTimeout, PollInterrupted, StdinWrite, StdinClose,
              WriteReturn, Relimit, childVars
<1> QED BY <1>1, <1>2, <1>3, <1>4, <1>5, <1>6, <1>7, <1>8, <1>9 DEF Next, Parent, Child, Pipes

LEMMA StepOutputData ==
    ASSUME TypeOK, [Next]_vars, NEW c \in Output, OutputData(c)
    PROVE  OutputData(c)'
<1>0. buf[c] \in Seq(Nat) /\ pipe[c] \in Seq(Nat) /\ said[c] \in Nat /\ c \in Chan
      /\ Len(buf[c]) \in Nat /\ Len(pipe[c]) \in Nat
  BY DEF TypeOK, Chan, Output
<1>1. CASE ReadOutput(c)
  <2> PICK n \in 1..Len(pipe[c]) :
          /\ buf' = [buf EXCEPT ![c] = Appended(@, SubSeq(pipe[c], 1, n))]
          /\ pipe' = [pipe EXCEPT ![c] = SubSeq(@, n + 1, Len(@))]
    BY <1>1 DEF ReadOutput
  <2>1. /\ buf'[c] = buf[c] \o SubSeq(pipe[c], 1, n)
        /\ pipe'[c] = SubSeq(pipe[c], n + 1, Len(pipe[c]))
    BY <1>0 DEF Appended, TypeOK
  <2>2. Streams(buf'[c], pipe'[c], said[c])
    BY <1>0, <2>1, StreamRead DEF OutputData
  <2>3. said' = said
    BY <1>1 DEF ReadOutput, childVars
  <2> QED BY <2>2, <2>3 DEF OutputData
<1>2. CASE ChildWrite(c)
  <2>1. /\ buf' = buf /\ pipe'[c] = Append(pipe[c], said[c] + 1) /\ said'[c] = said[c] + 1
    BY <1>0, <1>2 DEF ChildWrite, TypeOK, parent
  <2>2. Streams(buf[c], Append(pipe[c], said[c] + 1), said[c] + 1)
    BY <1>0, StreamWritten DEF OutputData
  <2> QED BY <2>1, <2>2 DEF OutputData
<1>3. CASE buf'[c] = buf[c] /\ pipe'[c] = pipe[c] /\ said'[c] = said[c]
  BY <1>3 DEF OutputData
<1> QED BY <1>1, <1>2, <1>3, OutputMoves

\* After the fork the child opens nothing.
LEMMA OpenShrinks ==
    ASSUME TypeOK, [Next]_vars, ~Fork
    PROVE  cfds' \subseteq cfds
<1>1. CASE \/ Pipes \/ Mask \/ Wait \/ WaitInterrupted \/ Loop \/ Tick
           \/ UNCHANGED vars
  BY <1>1, PipeFrame, LoopFrame
  DEF Pipes, Mask, Wait, WaitInterrupted, Finish, Tick, vars, childVars
<1>2. CASE Kill \/ MaskFails
  BY <1>2 DEF Kill, MaskFails, Killed
<1> QED BY <1>1, <1>2, ChildRuns, NextCases

LEMMA DrainedStays ==
    ASSUME TypeOK, [Next]_vars, ~Fork, NEW c \in Output, Drained(c)
    PROVE  Drained(c)'
<1>1. ~ReadOutput(c)
  BY DEF Drained, ReadOutput
<1>2. ~ChildWrite(c)
  BY DEF Drained, ChildWrite
<1> QED BY <1>1, <1>2, OutputMoves, OpenShrinks DEF Drained

LEMMA StepOutputClosed ==
    ASSUME TypeOK, EndInv, [Next]_vars, NEW c \in Output, OutputClosed(c)
    PROVE  OutputClosed(c)'
<1>0. c \in Chan /\ c # "in" /\ pipe[c] \in Seq(Nat)
  BY DEF TypeOK, Chan, Output
<1>1. CASE Fork
  <2>1. /\ pc = "fork" /\ pc' = "mask" /\ fds' = cfds' /\ revents' = revents /\ pipe' = pipe
    BY <1>1 DEF Fork
  <2> QED BY <2>1 DEF OutputClosed, Drained, Before
<1>2. CASE Pipes
  <2>1. /\ pc \in Before /\ pc' \in Before \cup {"failed"}
        /\ UNCHANGED <<revents, pipe, cfds>>
    BY <1>2, PipeFrame DEF Pipes, childVars
  <2> QED BY <2>1 DEF OutputClosed, Before
<1> SUFFICES ASSUME ~Fork, ~Pipes PROVE OutputClosed(c)'
  BY <1>1, <1>2
<1>3. Drained(c) => Drained(c)'
  BY DrainedStays
<1>4. cfds' \subseteq cfds
  BY OpenShrinks
<1>5. "HUP" \in revents[c] => c \notin cfds' /\ ("IN" \in revents[c] \/ pipe'[c] = << >>)
  <2>1. SUFFICES ASSUME "HUP" \in revents[c], "IN" \notin revents[c]
                 PROVE  pipe'[c] = << >>
    BY <1>4 DEF OutputClosed
  <2> QED BY <1>3, <2>1 DEF OutputClosed, Drained
<1>6. CASE Kill
  <2>1. /\ pc = "grace" /\ pc' = "wait" /\ UNCHANGED <<call, fds, revents>>
        /\ status'.timed_out
    BY <1>6 DEF Kill, TypeOK
  <2> QED BY <1>3, <1>5, <2>1 DEF OutputClosed, Before
<1>9. CASE Wait \/ WaitInterrupted
  <2>1. /\ pc = "wait" /\ pc' = "done" /\ UNCHANGED <<call, revents>>
        /\ status'.timed_out = status.timed_out
    BY <1>9 DEF Wait, WaitInterrupted, Finish, TypeOK
  <2> QED BY <1>3, <1>5, <2>1 DEF OutputClosed, Before
<1>10. CASE Mask \/ MaskFails
  <2>1. /\ pc = "mask" /\ pc' \in {"poll", "failed"} /\ UNCHANGED <<fds, revents>>
    BY <1>10 DEF Mask, MaskFails
  <2> QED BY <1>3, <1>5, <2>1 DEF OutputClosed, Before
<1>7. CASE Child \/ Tick \/ UNCHANGED vars
  <2>1. UNCHANGED <<pc, fds, revents, status, call>>
    BY <1>7, ChildRuns DEF Tick, vars, parent, result
  <2>2. pc \in Before => pipe'[c] = pipe[c]
    <3>1. pc \in Before => ~Child
      BY ChildRuns DEF EndInv
    <3> QED BY <1>7, <3>1 DEF Tick, vars
  <2> QED BY <1>3, <1>5, <2>1, <2>2 DEF OutputClosed
<1>8. CASE Loop
  <2>1. /\ UNCHANGED <<call, status, cfds>>
        /\ pc \notin Before \cup {"failed", "done", "wait"}
        /\ pc' \notin Before \cup {"failed", "done"}
    BY <1>8, LoopFrame DEF childVars, result, Before
  <2>2. c \notin fds => Drained(c)
    BY <2>1 DEF OutputClosed
  <2>3. "HUP" \in revents'[c] => c \notin cfds' /\ ("IN" \in revents'[c] \/ pipe'[c] = << >>)
    <3>1. CASE Poll
      <4>1. revents'[c] = IF c \in fds THEN Events(c) ELSE {}
        BY <1>0, <3>1 DEF Poll
      <4>2. pipe' = pipe
        BY <3>1 DEF Poll
      <4> QED BY <1>0, <2>1, <4>1, <4>2 DEF Events
    <3>2. CASE ~Poll
      <4>1. revents' = revents
        BY <1>8, <3>2 DEF Loop, PollNothing, PollTimeout, PollInterrupted, StdinWrite,
           StdinClose, WriteByte, WriteReturn, ReadOutput, CloseOutput, Relimit
      <4> QED BY <1>5, <4>1
    <3> QED BY <3>1, <3>2
  <2>4. c \notin fds' => Drained(c)
    <3>1. SUFFICES ASSUME c \in fds, c \notin fds' PROVE Drained(c)
      BY <2>2
    <3>2. CASE CloseOutput(c)
      BY <3>1, <3>2 DEF CloseOutput, HasInput, HungUp, OutputClosed, Drained
    <3>3. ASSUME NEW d \in Output, CloseOutput(d), d # c
          PROVE  FALSE
      BY <3>1, <3>3 DEF CloseOutput
    <3>4. CASE StdinClose \/ WriteReturn
      BY <1>0, <3>1, <3>4 DEF StdinClose, WriteReturn
    <3>5. CASE \/ PollNothing \/ Poll \/ PollTimeout \/ PollInterrupted \/ StdinWrite
               \/ WriteByte \/ Relimit \/ \E d \in Output : ReadOutput(d)
      BY <3>1, <3>5 DEF PollNothing, Poll, PollTimeout, PollInterrupted, StdinWrite,
         WriteByte, Relimit, ReadOutput
    <3> QED BY <1>8, <3>2, <3>3, <3>4, <3>5 DEF Loop
  <2>5. pc' = "wait" => call.handler \/ Drained(c)
    <3>1. CASE PollNothing
      BY <2>2, <3>1 DEF PollNothing
    <3>2. CASE PollInterrupted
      BY <3>2 DEF PollInterrupted
    <3>3. CASE ~PollNothing /\ ~PollInterrupted
      BY <1>8, <3>3 DEF Loop, Poll, PollTimeout, StdinWrite, StdinClose, WriteByte,
         WriteReturn, ReadOutput, CloseOutput, Relimit, AfterOutput
    <3> QED BY <3>1, <3>2, <3>3
  <2> QED BY <1>3, <2>1, <2>3, <2>4, <2>5 DEF OutputClosed
<1> QED BY <1>6, <1>7, <1>8, <1>9, <1>10, NextCases

LEMMA OutputInvariant == Spec => [](TypeOK /\ EndInv /\ OutputInv)
<1>1. Init => OutputInv
  <2> SUFFICES ASSUME Init, NEW c \in Output PROVE OutputData(c) /\ OutputClosed(c)
    BY DEF OutputInv
  <2>1. buf[c] = << >> /\ pipe[c] = << >> /\ said[c] = 0 /\ revents[c] = {} /\ pc = "pipe_in"
    BY DEF Init, Chan, Output
  <2> QED BY <2>1 DEF OutputData, OutputClosed, Streams, Numbered, Before
<1>2. (TypeOK /\ EndInv) /\ OutputInv /\ [Next]_vars => OutputInv'
  BY StepOutputData, StepOutputClosed DEF OutputInv
<1> QED BY <1>1, <1>2, EndInvariant, PTL DEF Spec

\* Whatever the order of poll(), the child's writes and the reads, what was read and
\* what the pipe holds are the child's bytes, each once and in order.
THEOREM OutputsInOrder == Spec => []OutputInOrder
<1>1. TypeOK /\ OutputInv => OutputInOrder
  <2> SUFFICES ASSUME TypeOK, OutputInv, NEW c \in Output
               PROVE  buf[c] \o pipe[c] = Bytes(said[c])
    BY DEF OutputInOrder
  <2>1. buf[c] \in Seq(Nat) /\ pipe[c] \in Seq(Nat)
    BY DEF TypeOK, Chan, Output
  <2> QED BY <2>1, StreamConcat DEF OutputInv, OutputData
<1> QED BY <1>1, OutputInvariant, PTL

\* Unless the time limit or a signal handler ended the loop, all the child wrote is
\* there when the call returns.
THEOREM OutputsComplete == Spec => []OutputComplete
<1>1. TypeOK /\ OutputInv => OutputComplete
  <2> SUFFICES ASSUME TypeOK, OutputInv, pc = "done", ~status.timed_out, ~call.handler,
                      NEW c \in Output
               PROVE  buf[c] = Bytes(said[c])
    BY DEF OutputComplete
  <2>1. buf[c] \in Seq(Nat) /\ pipe[c] \in Seq(Nat) /\ pipe[c] = << >>
    BY DEF TypeOK, Chan, Output, OutputInv, OutputClosed, Drained
  <2>2. buf[c] \o pipe[c] = Bytes(said[c])
    BY <2>1, StreamConcat DEF OutputInv, OutputData
  <2>3. buf[c] \o << >> = buf[c]
    BY <2>1
  <2> QED BY <2>1, <2>2, <2>3
<1> QED BY <1>1, OutputInvariant, PTL

-----------------------------------------------------------------------------
(* The time limit. *)

Crashes == "crash" \in Range(call.prog)

\* The time limit has passed.
Late == call.limit > 0 /\ now >= call.limit

\* A timeout that is not negative ends no sooner than the limit, so the signals come
\* after it; what is left of the program is a part of it.
LimitInv ==
    /\ timelimit >= 0 => call.limit > 0 /\ polled + 2 * timelimit >= call.limit
    /\ pc = "grace" \/ status.timed_out => Late
    /\ Range(child.prog) \subseteq Range(call.prog)
    /\ child.state = "signaled" =>
          pc \in {"grace", "failed", "done"} \/ status.timed_out \/ Crashes
    /\ status.signaled => status.timed_out \/ Crashes \/ call.handler

LEMMA GoesOn ==
    ASSUME TypeOK, NEW i, Does(i), Goes
    PROVE  Range(child'.prog) \subseteq Range(child.prog)
<1>1. child.prog \in Seq(Instr) /\ child.prog # << >> /\ child'.prog = Tail(child.prog)
  BY GoesType DEF TypeOK, Does
<1>2. /\ Len(child.prog) \in Nat \ {0} /\ Len(Tail(child.prog)) = Len(child.prog) - 1
      /\ Tail(child.prog) \in Seq(Instr)
      /\ \A j \in 1..(Len(child.prog) - 1) : Tail(child.prog)[j] = child.prog[j + 1]
  BY <1>1, TailType
<1>3. ASSUME NEW j \in DOMAIN Tail(child.prog)
      PROVE  \E k \in DOMAIN child.prog : Tail(child.prog)[j] = child.prog[k]
  <2>1. j \in 1..(Len(child.prog) - 1) /\ DOMAIN child.prog = 1..Len(child.prog)
    BY <1>1, <1>2
  <2>2. j + 1 \in 1..Len(child.prog)
    BY <1>2, <2>1
  <2> QED BY <1>2, <2>1, <2>2
<1> QED BY <1>1, <1>3 DEF Range

\* A running child writes to an output nobody reads only after the call.
LEMMA BrokenLate ==
    ASSUME TypeOK, EndInv, OutputInv, NEW c \in Output, ChildWriteBroken(c)
    PROVE  pc = "done"
<1>1. child.state = "running" /\ c \in cfds /\ c \notin fds
  BY DEF ChildWriteBroken, Does
<1>2. pc \in Before \cup {"failed", "done"}
  BY <1>1 DEF OutputInv, OutputClosed, Drained
<1> QED BY <1>1, <1>2 DEF EndInv

LEMMA ChildGoesOn ==
    ASSUME TypeOK, EndInv, OutputInv, LimitInv, Child
    PROVE  /\ Range(child'.prog) \subseteq Range(call.prog)
           /\ child'.state = "signaled" => pc \in {"grace", "done"} \/ Crashes
<1>1. ASSUME NEW i, Does(i), Goes
      PROVE  /\ Range(child'.prog) \subseteq Range(call.prog)
             /\ child'.state # "signaled"
  BY <1>1, GoesOn, GoesType DEF LimitInv, Does
<1>2. ASSUME UNCHANGED child, child.state = "running"
      PROVE  /\ Range(child'.prog) \subseteq Range(call.prog)
             /\ child'.state # "signaled"
  BY <1>2 DEF LimitInv
<1>3. ASSUME NEW how \in {"exited", "signaled"}, child' = Ended(how)
      PROVE  Range(child'.prog) \subseteq Range(call.prog) /\ child'.state = how
  BY <1>3, EndedType DEF Range
<1>4. CASE \E i \in {"in", "all"} : ChildRead(i) \/ ChildReadsEnd(i)
  BY <1>1, <1>2, <1>4 DEF ChildRead, ChildReadsEnd, Does
<1>5. CASE \E c \in Output : ChildWrite(c) \/ ChildWriteNowhere(c)
  BY <1>1, <1>5 DEF ChildWrite, ChildWriteNowhere
<1>8. CASE \E c \in Output : ChildWriteBroken(c)
  BY <1>1, <1>3, <1>8, BrokenLate DEF ChildWriteBroken
<1>6. CASE \E c \in Chan : ChildClose(c)
  BY <1>1, <1>6 DEF ChildClose
<1>7. CASE ChildEnds
  <2>1. Does("crash") => Crashes
    <3>1. SUFFICES ASSUME Does("crash") PROVE "crash" \in Range(child.prog)
      BY DEF Crashes, LimitInv
    <3>2. child.prog \in Seq(Instr) /\ child.prog # << >> /\ Head(child.prog) = "crash"
      BY <3>1 DEF Does, TypeOK
    <3>3. 1 \in DOMAIN child.prog /\ child.prog[1] = "crash"
      BY <3>2, TailType
    <3> QED BY <3>3 DEF Range
  <2> QED BY <1>3, <1>7, <2>1 DEF ChildEnds
<1> QED BY <1>4, <1>5, <1>6, <1>7, <1>8 DEF Child

\* What the clock, the limit and a timeout are, and the limit passes once.
LEMMA TimesType ==
    ASSUME TypeOK
    PROVE  /\ call.limit \in Nat /\ now \in Nat /\ timelimit \in Int /\ polled \in Nat
           /\ call.limit - now \in Int
<1>1. call.limit \in Nat /\ Horizon \in Nat
  BY DEF TypeOK, IsCall, Horizon
<1> QED BY <1>1 DEF TypeOK

LEMMA LateStays ==
    ASSUME TypeOK, [Next]_vars, Late
    PROVE  Late'
<1>1. now' \in {now, now + 1}
  BY NextCases, PipeFrame, LoopFrame, ChildRuns
     DEF Pipes, Fork, Mask, MaskFails, Kill, Wait, WaitInterrupted, Finish, Tick, vars
<1> QED BY <1>1, CallStays, TimesType DEF Late

\* The timeout computed anew is rounded up.
LEMMA StepTimelimit ==
    ASSUME TypeOK, LimitInv, SetTimelimit
    PROVE  timelimit' >= 0 => call.limit > 0 /\ polled' + 2 * timelimit' >= call.limit
<1>1. CASE call.limit > 0
  <2>1. /\ timelimit' = Ceil(call.limit - now) /\ polled' = now
        /\ Ceil(call.limit - now) \in Int
        /\ 2 * Ceil(call.limit - now) >= call.limit - now
    BY <1>1, TimesType, CeilBound DEF SetTimelimit
  <2> QED BY <1>1, <2>1, TimesType
<1>2. CASE ~(call.limit > 0)
  BY <1>2 DEF SetTimelimit, LimitInv
<1> QED BY <1>1, <1>2

\* poll() returns 0 after the limit.
LEMMA ExpiresLate ==
    ASSUME TypeOK, LimitInv, PollExpires
    PROVE  Late
BY TimesType DEF LimitInv, PollExpires, Late

LEMMA KilledProg ==
    ASSUME TypeOK, LimitInv, Killed
    PROVE  Range(child'.prog) \subseteq Range(call.prog)
<1>1. CASE child.state = "running"
  BY <1>1, EndedType DEF Killed, Range
<1>2. CASE child.state # "running"
  BY <1>2 DEF Killed, LimitInv
<1> QED BY <1>1, <1>2

LEMMA StepLimit ==
    ASSUME TypeOK, EndInv, OutputInv, LimitInv, [Next]_vars
    PROVE  LimitInv'
<1>0. call' = call /\ (Late => Late') /\ (Crashes' <=> Crashes)
  BY CallStays, LateStays DEF Crashes
<1>1. CASE Pipes
  <2>1. /\ UNCHANGED <<timelimit, polled, status, child>>
        /\ pc \notin {"grace", "failed", "done"} /\ pc' # "grace"
    BY <1>1, PipeFrame DEF Pipes, Before, childVars, limits, result
  <2> QED BY <1>0, <2>1 DEF LimitInv
<1>2. CASE Fork
  <2>1. /\ child'.state = "running" /\ child'.prog = child.prog /\ pc' = "mask"
        /\ UNCHANGED <<status, timelimit, polled>>
    BY <1>2 DEF Fork, TypeOK, limits, result
  <2> QED BY <1>0, <2>1 DEF LimitInv
<1>8. CASE Mask
  <2>1. /\ UNCHANGED <<status, child>> /\ SetTimelimit /\ pc = "mask" /\ pc' = "poll"
    BY <1>8 DEF Mask, childVars, result
  <2> QED BY <1>0, <2>1, StepTimelimit DEF LimitInv
<1>9. CASE MaskFails
  <2>1. /\ UNCHANGED <<status, timelimit, polled>> /\ Killed /\ pc' = "failed"
    BY <1>9 DEF MaskFails, limits
  <2> QED BY <1>0, <2>1, KilledProg DEF LimitInv
<1>3. CASE Kill
  <2>1. /\ pc = "grace" /\ pc' = "wait" /\ status'.timed_out /\ Killed
        /\ UNCHANGED <<timelimit, polled>>
    BY <1>3 DEF Kill, TypeOK, limits
  <2>2. Late'
    BY <1>0, <2>1 DEF LimitInv
  <2> QED BY <1>0, <2>1, <2>2, KilledProg DEF LimitInv
<1>4. CASE Wait
  <2>1. /\ pc = "wait" /\ pc' = "done" /\ UNCHANGED <<timelimit, polled, child>>
        /\ status'.timed_out = status.timed_out
        /\ status'.signaled = (child.state = "signaled")
    BY <1>4 DEF Wait, Finish, TypeOK, limits, childVars
  <2> QED BY <1>0, <2>1 DEF LimitInv
<1>10. CASE WaitInterrupted
  <2>1. /\ pc = "wait" /\ pc' = "done" /\ UNCHANGED <<timelimit, polled, child>>
        /\ status'.timed_out = status.timed_out /\ call.handler
    BY <1>10 DEF WaitInterrupted, Finish, TypeOK, limits, childVars
  <2> QED BY <1>0, <2>1 DEF LimitInv
<1>5. CASE Loop
  <2>1. /\ UNCHANGED <<child, status>> /\ pc \notin {"grace", "failed", "done"}
    BY <1>5, LoopFrame DEF childVars, result
  <2>2. pc' = "grace" => Late
    <3>1. CASE PollTimeout
      BY <3>1, ExpiresLate DEF PollTimeout
    <3>2. CASE \E c \in Output : ReadOutput(c) \/ CloseOutput(c)
      BY <3>2 DEF ReadOutput, CloseOutput, AfterOutput
    <3> QED
      BY <1>5, <3>1, <3>2 DEF Loop, PollNothing, Poll, PollInterrupted, StdinWrite,
         StdinClose, WriteByte, WriteReturn, Relimit
  <2>3. timelimit' >= 0 => call.limit > 0 /\ polled' + 2 * timelimit' >= call.limit
    <3>1. CASE Relimit
      BY <3>1, StepTimelimit DEF Relimit
    <3>2. CASE ~Relimit
      <4>1. UNCHANGED <<timelimit, polled>>
        BY <1>5, <3>2 DEF Loop, PollNothing, Poll, PollTimeout, PollInterrupted, StdinWrite,
           StdinClose, WriteByte, WriteReturn, ReadOutput, CloseOutput, limits
      <4> QED BY <4>1 DEF LimitInv
    <3> QED BY <3>1, <3>2
  <2> QED BY <1>0, <2>1, <2>2, <2>3 DEF LimitInv
<1>6. CASE Child
  <2>1. UNCHANGED <<pc, timelimit, polled, status>>
    BY <1>6, ChildRuns DEF parent, limits, result
  <2> QED BY <1>0, <1>6, <2>1, ChildGoesOn DEF LimitInv
<1>7. CASE Tick \/ UNCHANGED vars
  <2>1. UNCHANGED <<pc, timelimit, polled, status, child>>
    BY <1>7 DEF Tick, vars, parent, childVars, limits, result
  <2> QED BY <1>0, <2>1 DEF LimitInv
<1> QED BY <1>1, <1>2, <1>3, <1>4, <1>5, <1>6, <1>7, <1>8, <1>9, <1>10, NextCases

\* However the clock interleaves with poll() and with the rest of the loop, the
\* timeouts computed anew and rounded never end before the limit, and a child that does
\* not crash is not killed by then.
THEOREM KilledLate == Spec => []KilledOnlyLate
<1>1. Init => LimitInv
  BY DEF Init, LimitInv, NoStatus
<1>2. (TypeOK /\ EndInv /\ OutputInv) /\ LimitInv /\ [Next]_vars => LimitInv'
  BY StepLimit
<1>3. LimitInv => KilledOnlyLate
  BY DEF LimitInv, KilledOnlyLate, Crashes, Late
<1> QED BY <1>1, <1>2, <1>3, OutputInvariant, PTL DEF Spec

-----------------------------------------------------------------------------
(* The input, if neither a stop nor a handler cuts write() short: then every  *)
(* write() the child does not end gets all of the buffer into the pipe.       *)

\* A write() may be cut short.
MayCut == call.stops \/ call.handler

\* Bytes that got into the pipe.
Given == Len(got) + Len(pipe["in"])

\* While the child has its end open there is one write() of the whole buffer: it
\* has not begun, has left what was not given, or is over.
InputOpen ==
    /\ pc = "write" => /\ "in" \in fds /\ written = 0
                       /\ Given + Len(rest) = call.size
                       /\ \A i \in 1..Len(rest) : rest[i] = Given + i
    /\ pc # "write" /\ "in" \in fds => written = 0 /\ Given = 0
    /\ "in" \notin fds => Given = call.size

InputInv ==
    /\ Numbered(got, pipe["in"])
    /\ Given <= call.size
    /\ eof => Len(got) = call.size
    /\ pc \in Before => revents["in"] = {} /\ written = 0 /\ Given = 0
    /\ "ERR" \in revents["in"] => "in" \notin cfds
    /\ "in" \in cfds => InputOpen

LEMMA GivenType ==
    ASSUME TypeOK
    PROVE  /\ got \in Seq(Nat) /\ pipe["in"] \in Seq(Nat) /\ rest \in Seq(Nat)
           /\ Len(got) \in Nat /\ Len(pipe["in"]) \in Nat /\ Len(rest) \in Nat
           /\ Given \in Nat /\ call.size \in Nat /\ written \in Nat
<1>1. got \in Seq(Nat) /\ pipe["in"] \in Seq(Nat) /\ rest \in Seq(Nat)
  BY DEF TypeOK, Chan
<1>2. Len(got) \in Nat /\ Len(pipe["in"]) \in Nat /\ Len(rest) \in Nat
  BY <1>1
<1>3. Given \in Nat
  BY <1>2 DEF Given
<1>4. call.size \in Nat
  BY DEF TypeOK, IsCall
<1>5. written \in Nat
  BY <1>4 DEF TypeOK
<1> QED BY <1>1, <1>2, <1>3, <1>4, <1>5

\* A byte goes from the buffer into the pipe.
LEMMA StepWriteByte ==
    ASSUME TypeOK, InputInv, WriteByte
    PROVE  InputInv'
<1>0. /\ pc = "write" /\ rest # << >> /\ "in" \in cfds /\ rest' = Tail(rest)
      /\ UNCHANGED <<call, pc, fds, revents, written, cfds, got, eof>>
  BY DEF WriteByte, childVars
<1>1. pipe'["in"] = Append(pipe["in"], Head(rest))
  BY DEF WriteByte, TypeOK, Chan
<1>2. /\ "in" \in fds /\ written = 0 /\ Given + Len(rest) = call.size
      /\ \A i \in 1..Len(rest) : rest[i] = Given + i
  BY <1>0 DEF InputInv, InputOpen
<1>3. /\ Head(rest) = rest[1] /\ Len(rest) \in Nat \ {0} /\ Len(Tail(rest)) = Len(rest) - 1
      /\ Head(rest) \in Nat /\ \A i \in 1..(Len(rest) - 1) : Tail(rest)[i] = rest[i + 1]
  BY <1>0, GivenType, TailType
<1>4. Head(rest) = Given + 1
  BY <1>2, <1>3
<1>5. Head(rest) = Len(got) + Len(pipe["in"]) + 1
  BY <1>4 DEF Given
<1>6. Numbered(got, pipe'["in"])
  BY <1>1, <1>5, GivenType, NumberedAppend DEF InputInv
<1>7. Given' = Given + 1
  <2>1. Len(pipe'["in"]) = Len(pipe["in"]) + 1
    BY <1>1, <1>3, GivenType, AppendType
  <2>2. Len(got) + (Len(pipe["in"]) + 1) = Len(got) + Len(pipe["in"]) + 1
    BY GivenType
  <2> QED BY <1>0, <2>1, <2>2 DEF Given
<1>8. Given' + Len(rest') = call'.size /\ Given' <= call'.size
  <2>1. \A m, k \in Nat, n \in Nat \ {0} :
           m + n = k => (m + 1) + (n - 1) = k /\ m + 1 <= k
    OBVIOUS
  <2>2. (Given + 1) + (Len(rest) - 1) = call.size /\ Given + 1 <= call.size
    BY <1>2, <1>3, <2>1, GivenType
  <2> QED BY <1>0, <1>3, <1>7, <2>2
<1>9. ASSUME NEW i \in 1..Len(rest') PROVE rest'[i] = Given' + i
  <2>1. i \in 1..(Len(rest) - 1) /\ i + 1 \in 1..Len(rest)
    BY <1>0, <1>3, <1>9
  <2>2. rest'[i] = Given + (i + 1)
    BY <1>0, <1>2, <1>3, <2>1
  <2> QED BY <1>7, <2>1, <2>2, GivenType
<1>10. ~eof
  <2>1. Len(got) < call.size
    <3>1. Len(got) <= Given
      BY GivenType DEF Given
    <3> QED BY <1>2, <1>3, <3>1, GivenType
  <2> QED BY <2>1, GivenType DEF InputInv
<1>11. InputOpen'
  BY <1>0, <1>2, <1>8, <1>9 DEF InputOpen
<1> QED BY <1>0, <1>6, <1>8, <1>10, <1>11 DEF InputInv, Before

\* A byte goes from the pipe to the child.
LEMMA StepChildRead ==
    ASSUME TypeOK, InputInv, NEW i \in {"in", "all"}, ChildRead(i)
    PROVE  InputInv'
<1>0. /\ "in" \in cfds /\ pipe["in"] # << >> /\ got' = Append(got, Head(pipe["in"]))
      /\ UNCHANGED <<call, pc, fds, revents, written, rest, cfds, eof>>
  BY DEF ChildRead, parent
<1>1. pipe'["in"] = Tail(pipe["in"])
  BY DEF ChildRead, TypeOK, Chan
<1>2. /\ Len(pipe["in"]) \in Nat \ {0} /\ Len(pipe'["in"]) = Len(pipe["in"]) - 1
      /\ Head(pipe["in"]) \in Nat
  BY <1>0, <1>1, GivenType, TailType
<1>3. Len(got') = Len(got) + 1
  BY <1>0, <1>2, GivenType, AppendType
<1>4. Numbered(got', pipe'["in"])
  BY <1>0, <1>1, GivenType, NumberedMove DEF InputInv
<1>5. Given' = Given
  <2>1. \A m, n \in Nat : (m + 1) + (n - 1) = m + n
    OBVIOUS
  <2>2. Len(got) \in Nat /\ Len(pipe["in"]) \in Nat
    BY GivenType
  <2>3. Len(got') + Len(pipe'["in"]) = (Len(got) + 1) + (Len(pipe["in"]) - 1)
    BY <1>2, <1>3
  <2>4. Len(got') + Len(pipe'["in"]) = Len(got) + Len(pipe["in"])
    BY <2>1, <2>2, <2>3
  <2> QED BY <2>4 DEF Given
<1>6. ~eof
  <2>1. Len(got) < Given
    BY <1>2, GivenType DEF Given
  <2> QED BY <2>1, GivenType DEF InputInv
<1> QED BY <1>0, <1>4, <1>5, <1>6 DEF InputInv, InputOpen

\* The child sees the end of its input.
LEMMA StepReadsEnd ==
    ASSUME TypeOK, InputInv, NEW i \in {"in", "all"}, ChildReadsEnd(i)
    PROVE  InputInv'
<1>0. /\ "in" \notin cfds \/ (pipe["in"] = << >> /\ "in" \notin fds)
      /\ eof' = (eof \/ "in" \in cfds)
      /\ UNCHANGED <<call, pc, fds, revents, written, rest, cfds, pipe, got>>
  BY DEF ChildReadsEnd, parent
<1>1. eof' => Len(got) = call.size
  <2>1. CASE "in" \in cfds
    <3>1. Given = call.size /\ Len(pipe["in"]) = 0
      BY <1>0, <2>1, GivenType DEF InputInv, InputOpen
    <3> QED BY <3>1, GivenType DEF Given
  <2>2. CASE "in" \notin cfds
    BY <1>0, <2>2 DEF InputInv
  <2> QED BY <2>1, <2>2
<1>2. Given' = Given
  BY <1>0 DEF Given
<1> QED BY <1>0, <1>1, <1>2 DEF InputInv, InputOpen

\* The steps that leave the input and the child's end of it alone.
InputSame ==
    UNCHANGED <<call, got, eof, written, rest>> /\ pipe'["in"] = pipe["in"]

LEMMA StepInputParent ==
    ASSUME TypeOK, EndInv, InputInv, ~MayCut, Loop \/ Fork \/ Mask, ~WriteByte
    PROVE  InputInv'
<1>0. "in" \in Chan /\ "in" \notin Output
  BY DEF Chan, Output
<1>1. CASE Fork
  <2>1. /\ pc = "fork" /\ pc' = "mask" /\ fds' = cfds' /\ InputSame /\ revents' = revents
    BY <1>1 DEF Fork, InputSame
  <2> QED BY <2>1 DEF InputInv, InputOpen, InputSame, Given, Before
<1>8. CASE Mask
  <2>1. /\ pc = "mask" /\ pc' = "poll" /\ UNCHANGED <<fds, cfds, revents>> /\ InputSame
    BY <1>8 DEF Mask, InputSame, childVars
  <2> QED BY <2>1 DEF InputInv, InputOpen, InputSame, Given, Before
<1>2. CASE Poll
  <2>1. /\ pc = "poll" /\ pc' = "stdin" /\ UNCHANGED <<fds, cfds>> /\ InputSame
    BY <1>2 DEF Poll, InputSame, childVars
  <2>2. "ERR" \in revents'["in"] => "in" \notin cfds
    BY <1>0, <1>2 DEF Poll, Events
  <2> QED BY <2>1, <2>2 DEF InputInv, InputOpen, InputSame, Given, Before
<1>3. CASE StdinWrite
  <2>1. /\ pc = "stdin" /\ pc' = "write" /\ "in" \in fds /\ rest' = Bytes(call.size - written)
        /\ UNCHANGED <<call, fds, cfds, pipe, got, eof, written, revents>>
    BY <1>3 DEF StdinWrite, childVars
  <2>2. "in" \in cfds => written = 0 /\ Given = 0
    BY <2>1 DEF InputInv, InputOpen
  <2>3. Given' = Given
    BY <2>1 DEF Given
  <2>4. "in" \in cfds => InputOpen'
    <3>1. SUFFICES ASSUME "in" \in cfds PROVE InputOpen'
      OBVIOUS
    <3>2. call.size - written = call.size
      BY <2>2, <3>1, GivenType
    <3>3. Len(rest') = call.size /\ \A i \in 1..Len(rest') : rest'[i] = i
      BY <2>1, <3>2, GivenType, BytesType
    <3>4. Given + Len(rest') = call.size /\ \A i \in 1..Len(rest') : rest'[i] = Given + i
      BY <2>2, <3>1, <3>3, GivenType
    <3> QED BY <2>1, <2>2, <2>3, <3>1, <3>4 DEF InputOpen
  <2> QED BY <2>1, <2>3, <2>4 DEF InputInv, Before
<1>4. CASE StdinClose
  <2>1. /\ pc = "stdin" /\ pc' = "out" /\ UNCHANGED <<cfds, revents>> /\ InputSame
        /\ "ERR" \notin revents["in"] => fds' = fds
    BY <1>4 DEF StdinClose, InputSame, childVars
  <2> QED BY <2>1 DEF InputInv, InputOpen, InputSame, Given, Before
<1>5. CASE WriteReturn
  <2>1. /\ pc = "write" /\ pc' = "out" /\ (rest = << >> \/ "in" \notin cfds)
        /\ UNCHANGED <<call, cfds, pipe, got, eof, revents>>
        /\ Counted = call.size => "in" \notin fds'
    BY <1>5 DEF WriteReturn, WriteEnds, MayCut, childVars
  <2>2. Given' = Given
    BY <2>1 DEF Given
  <2>3. "in" \in cfds => "in" \notin fds' /\ Given = call.size
    <3>1. SUFFICES ASSUME "in" \in cfds PROVE "in" \notin fds' /\ Given = call.size
      OBVIOUS
    <3>2. rest = << >> /\ written = 0 /\ Given + Len(rest) = call.size
      BY <2>1, <3>1 DEF InputInv, InputOpen
    <3>3. Len(rest) = 0
      BY <3>2
    <3>4. Counted = call.size /\ Given = call.size
      BY <3>2, <3>3, GivenType DEF Counted, Copied
    <3> QED BY <2>1, <3>4
  <2> QED BY <2>1, <2>2, <2>3 DEF InputInv, InputOpen, Before
<1>6. CASE PollNothing \/ PollTimeout \/ PollInterrupted \/ Relimit
  <2>1. /\ pc \in {"poll", "relimit"} /\ pc' \in {"poll", "wait", "grace"}
        /\ UNCHANGED <<fds, cfds, revents>> /\ InputSame
    BY <1>6 DEF PollNothing, PollTimeout, PollInterrupted, Relimit, InputSame, childVars
  <2> QED BY <2>1 DEF InputInv, InputOpen, InputSame, Given, Before
<1>7. ASSUME NEW c \in Output, ReadOutput(c) \/ CloseOutput(c)
      PROVE  InputInv'
  <2>1. c # "in" /\ c \in Chan
    BY DEF Output, Chan
  <2>2. pc \in {"out", "err"} /\ pc' \in {"err", "relimit"} /\ UNCHANGED <<cfds, revents>>
    BY <1>7 DEF ReadOutput, CloseOutput, AfterOutput, Output, childVars
  <2>3. "in" \in fds' <=> "in" \in fds
    BY <1>7, <2>1 DEF ReadOutput, CloseOutput
  <2>4. InputSame
    BY <1>0, <1>7, <2>1 DEF ReadOutput, CloseOutput, InputSame, TypeOK, childVars
  <2> QED BY <2>2, <2>3, <2>4 DEF InputInv, InputOpen, InputSame, Given, Before
<1> QED BY <1>1, <1>2, <1>3, <1>4, <1>5, <1>6, <1>7, <1>8 DEF Loop

LEMMA StepInputOther ==
    ASSUME TypeOK, EndInv, InputInv, ~MayCut, ~Loop, ~Fork, ~Mask, [Next]_vars
    PROVE  InputInv'
<1>0. "in" \in Chan /\ "in" \notin Output
  BY DEF Chan, Output
<1>1. CASE Pipes
  <2>1. /\ "in" \notin cfds' /\ InputSame /\ revents' = revents /\ pc \in Before
    BY <1>1, PipeFrame DEF Pipes, InputSame, EndInv, childVars
  <2> QED BY <2>1 DEF InputInv, InputSame, Given
<1>5. CASE MaskFails \/ Kill \/ Wait
  <2>1. "in" \notin cfds'
    BY <1>5, KilledChild DEF MaskFails, Kill, Wait, Finish, EndInv, childVars
  <2>2. InputSame /\ revents' = revents /\ pc' \notin Before
    BY <1>5 DEF MaskFails, Kill, Wait, Finish, InputSame, Before, childVars
  <2> QED BY <2>1, <2>2 DEF InputInv, InputSame, Given
<1>6. ASSUME NEW c \in Output, ChildWriteBroken(c)
      PROVE  InputInv'
  <2>1. InputSame /\ UNCHANGED <<pc, fds, revents>> /\ cfds' \subseteq cfds
    BY <1>6 DEF ChildWriteBroken, InputSame, parent
  <2> QED BY <2>1 DEF InputInv, InputOpen, InputSame, Given
<1>2. ASSUME NEW c \in Output, ChildWrite(c) \/ ChildWriteNowhere(c)
      PROVE  InputInv'
  <2>1. c # "in" /\ c \in Chan
    BY DEF Output, Chan
  <2>2. InputSame /\ UNCHANGED <<pc, fds, cfds, revents>>
    BY <1>0, <1>2, <2>1 DEF ChildWrite, ChildWriteNowhere, InputSame, TypeOK, parent
  <2> QED BY <2>2 DEF InputInv, InputOpen, InputSame, Given
<1>3. CASE ChildEnds \/ \E c \in Chan : ChildClose(c)
  <2>1. InputSame /\ UNCHANGED <<pc, fds, revents>> /\ cfds' \subseteq cfds
    BY <1>3 DEF ChildEnds, ChildClose, InputSame, parent
  <2> QED BY <2>1 DEF InputInv, InputOpen, InputSame, Given
<1>4. CASE Tick \/ UNCHANGED vars
  <2>1. InputSame /\ UNCHANGED <<pc, fds, cfds, revents>>
    BY <1>4 DEF Tick, vars, InputSame, parent, childVars
  <2> QED BY <2>1 DEF InputInv, InputOpen, InputSame, Given
<1> QED
  BY <1>1, <1>2, <1>3, <1>4, <1>5, <1>6, StepChildRead, StepReadsEnd, NextCases
  DEF Child, WaitInterrupted, MayCut

LEMMA InputInvariant == Spec => [](TypeOK /\ EndInv /\ (MayCut \/ InputInv))
<1>1. Init => InputInv
  <2> SUFFICES ASSUME Init PROVE InputInv
    OBVIOUS
  <2>1. TypeOK
    BY InitTypes
  <2>2. /\ got = << >> /\ pipe["in"] = << >> /\ ~eof /\ revents["in"] = {} /\ written = 0
        /\ cfds = {}
    BY DEF Init, Chan
  <2>3. Given = 0 /\ Numbered(got, pipe["in"])
    BY <2>2 DEF Given, Numbered
  <2> QED BY <2>1, <2>2, <2>3, GivenType DEF InputInv
<1>2. (TypeOK /\ EndInv) /\ (MayCut \/ InputInv) /\ [Next]_vars => (MayCut \/ InputInv)'
  <2> SUFFICES ASSUME TypeOK, EndInv, MayCut \/ InputInv, [Next]_vars, ~MayCut'
               PROVE  InputInv'
    OBVIOUS
  <2>1. ~MayCut /\ InputInv
    BY CallStays DEF MayCut
  <2> QED BY <2>1, StepWriteByte, StepInputParent, StepInputOther
<1> QED BY <1>1, <1>2, EndInvariant, PTL DEF Spec

\* Unless a stop or a handler may cut a write() short, the process gives the child
\* the buffer from its start, each byte once and in order, and the end of the input
\* after all of it, however slowly it reads and whenever it stops or is killed.
THEOREM InputsInOrder == Spec => []InputKept
<1>1. TypeOK /\ (MayCut \/ InputInv) => InputKept
  <2> SUFFICES ASSUME TypeOK, InputInv PROVE InputInOrder
    BY DEF InputKept, MayCut
  <2>1. got \o pipe["in"] = Bytes(Given) /\ Given \in Nat /\ call.size \in Nat /\ Given <= call.size
    BY GivenType, NumberedConcat DEF InputInv, Given
  <2>2. IsPrefix(Bytes(Given), Bytes(call.size))
    BY <2>1, BytesPrefix
  <2>3. ASSUME eof PROVE got = Bytes(call.size)
    <3>1. Len(got) = call.size /\ Given = Len(got) + Len(pipe["in"])
      BY <2>3 DEF InputInv, Given
    <3>2. Len(pipe["in"]) = 0
      BY <2>1, <3>1, GivenType
    <3>3. pipe["in"] = << >>
      BY <3>2, GivenType, EmptySeq
    <3>4. got \o << >> = got
      BY GivenType
    <3> QED BY <2>1, <3>1, <3>2, <3>3, <3>4, GivenType
  <2> QED BY <2>1, <2>2, <2>3 DEF InputInOrder
<1> QED BY <1>1, InputInvariant, PTL
=============================================================================
