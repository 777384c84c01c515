----------------------------- MODULE Subprocess -----------------------------
(***************************************************************************)
(* pddlExecvpLimits (subprocess.c): an external program is run with its    *)
(* standard input, output and error output on pipes, and a loop over       *)
(* poll() feeds the first and drains the others, within a time limit.      *)
(*                                                                         *)
(* The parent is the code.  The child, the pipes, signals and the clock    *)
(* are the environment: the child runs a program, drawn with the call, of  *)
(* reads, writes and closes; a pipe holds at most Capacity bytes; a        *)
(* blocking call ends when the pipe or the child lets it, or a signal      *)
(* handler runs.  Bytes of the input and of either output are numbered, so *)
(* that a lost, repeated or reordered byte shows.  The clock counts half   *)
(* milliseconds, so that a timeout in milliseconds has to be rounded.      *)
(*                                                                         *)
(* A pipe that reports POLLERR to its reader does not exist, so the        *)
(* branches for it (subprocess.c:356-360, 390-394) are left out.           *)
(*                                                                         *)
(* A definition marked "Mutant" is the one that follows it with a bug a    *)
(* programmer could make; nothing uses it.                                 *)
(***************************************************************************)
EXTENDS Integers, Sequences, FiniteSets, SequencesExt

CONSTANTS Calls,     \* calls of pddlExecvpLimits and the programs they run
          Capacity   \* bytes a pipe holds

Chan == {"in", "out", "err"}
Output == {"out", "err"}

\* Steps of a program: read a byte, read to the end of the input, write a
\* byte, close a descriptor, crash, or do nothing for ever.
Instr == {"in", "all", "out", "err", "close in", "close out", "close err", "crash", "hang"}

\* pipes: the arguments that are not NULL; size: write_stdin_size; limit: the
\* time limit by the clock, 0 if there is none; stops: the process may be stopped
\* and continued while it blocks; handler: signals may be handled meanwhile, and
\* the calls they interrupt are not restarted.
IsCall(c) ==
    /\ c.pipes \subseteq Chan
    /\ c.size \in Nat
    /\ c.limit \in Nat /\ c.stops \in BOOLEAN /\ c.handler \in BOOLEAN
    /\ c.prog \in Seq(Instr)

ASSUME SubprocessAssumption ==
    /\ Capacity \in Nat \ {0}
    /\ \A c \in Calls : IsCall(c)

VARIABLES
    call,      \* the arguments, and the program
    pc,        \* where pddlExecvpLimits is
    fds,       \* the pipes the parent has its end of open
    spare,     \* the pipes the parent has the child's end of open
    revents,   \* what poll() returned for each pipe
    written,   \* bytes of the input counted as written
    rest,      \* what the write() in progress has left
    buf,       \* what was read from either output
    timelimit, \* the timeout of poll() in milliseconds, negative: none
    polled,    \* the clock when it was computed
    now,       \* the clock
    status,    \* pddl_exec_status_t
    reaped,    \* waitpid() has returned for the child
    child,     \* the child: its state, what is left of its program
    cfds,      \* the pipes the child has its end of open
    pipe,      \* what every pipe holds
    got,       \* what the child has read
    eof,       \* the child has read to the end of its input
    said       \* bytes the child has written to either output

limits == <<timelimit, polled>>
result == <<status, reaped>>
parent == <<pc, fds, spare, revents, written, rest, buf, limits, result>>
childVars == <<child, cfds, got, eof, said>>
vars == <<call, parent, now, childVars, pipe>>

NoStatus == [exited |-> FALSE, signaled |-> FALSE, timed_out |-> FALSE]

Bytes(n) == [i \in 1..n |-> i]

Init ==
    /\ call \in Calls
    /\ pc = "pipe_in"
    /\ fds = {} /\ spare = {}
    /\ revents = [c \in Chan |-> {}]
    /\ written = 0
    /\ rest = << >>
    /\ buf = [c \in Output |-> << >>]
    /\ timelimit = -1
    /\ polled = 0 /\ now = 0
    /\ status = NoStatus
    /\ reaped = FALSE
    /\ child = [state |-> "none", prog |-> call.prog]
    /\ cfds = {}
    /\ pipe = [c \in Chan |-> << >>]
    /\ got = << >>
    /\ eof = FALSE
    /\ said = [c \in Output |-> 0]

-----------------------------------------------------------------------------
(* Before the loop. *)

\* The calls of pipe() come one after the other.
PipePc == [in |-> "pipe_in", out |-> "pipe_out", err |-> "pipe_err"]
AfterPipe == [in |-> "pipe_out", out |-> "pipe_err", err |-> "fork"]

\* Mutant: an argument that is NULL gets a pipe as well.
PipesMadeAlways == Chan

PipesMade == call.pipes

\* pipe(), for an argument that is not NULL.
MakePipe(c) ==
    /\ pc = PipePc[c]
    /\ fds' = fds \cup ({c} \cap PipesMade)
    /\ spare' = spare \cup ({c} \cap PipesMade)
    /\ pc' = AfterPipe[c]
    /\ UNCHANGED <<call, revents, written, rest, buf, limits, result, now,
                   childVars, pipe>>

\* Mutant: the branch of the third pipe() is a copy of the second's.
ClosedOnFailureFirst == [in |-> {}, out |-> {"in"}, err |-> {"in"}]

ClosedOnFailure == [in |-> {}, out |-> {"in"}, err |-> {"in", "out"}]

\* pipe() fails; both ends of the pipes made before it are closed.
PipeFails(c) ==
    /\ pc = PipePc[c]
    /\ c \in PipesMade
    /\ fds' = fds \ ClosedOnFailure[c]
    /\ spare' = spare \ ClosedOnFailure[c]
    /\ pc' = "failed"
    /\ UNCHANGED <<call, revents, written, rest, buf, limits, result, now,
                   childVars, pipe>>

\* fork(): the child has its end of every pipe.
Fork ==
    /\ pc = "fork"
    /\ cfds' = fds
    /\ child' = [child EXCEPT !.state = "running"]
    /\ pc' = "mask"
    /\ UNCHANGED <<call, fds, spare, revents, written, rest, buf, limits, result,
                   now, pipe, got, eof, said>>

\* Mutant: the conversion to int cuts the fraction off.
CeilDown(t) == t \div 2

\* ceil() of a time in milliseconds.
Ceil(t) == -((-t) \div 2)

\* The timeout of the next poll() is what is left of the time limit.
SetTimelimit ==
    /\ timelimit' = IF call.limit > 0 THEN Ceil(call.limit - now) ELSE timelimit
    /\ polled' = now

\* SIGPIPE is blocked, so that a write() to a pipe without a reader fails; the
\* child's ends are closed, the loop begins.
Mask ==
    /\ pc = "mask"
    /\ spare' = {}
    /\ SetTimelimit
    /\ pc' = "poll"
    /\ UNCHANGED <<call, fds, revents, written, rest, buf, result, now, childVars, pipe>>

\* The child as it is when it ends.
Ended(how) == [child EXCEPT !.state = how, !.prog = << >>]

\* SIGKILL, which does nothing to a child that has ended.
Killed ==
    IF child.state = "running"
    THEN child' = Ended("signaled") /\ cfds' = {}
    ELSE UNCHANGED <<child, cfds>>

\* sigprocmask() fails: the child is killed and waited for, and every pipe left
\* open.  A handler may interrupt the wait.
MaskFails ==
    /\ pc = "mask"
    /\ Killed
    /\ reaped' \in {TRUE, ~call.handler}
    /\ pc' = "failed"
    /\ UNCHANGED <<call, fds, spare, revents, written, rest, buf, limits, status,
                   now, pipe, got, eof, said>>

-----------------------------------------------------------------------------
(* poll().  What it reports is a snapshot: the child goes on meanwhile.    *)

Events(c) ==
    IF c = "in"
    THEN (IF Len(pipe[c]) < Capacity THEN {"OUT"} ELSE {})
         \cup (IF c \notin cfds THEN {"ERR"} ELSE {})
    ELSE (IF pipe[c] # << >> THEN {"IN"} ELSE {})
         \cup (IF c \notin cfds THEN {"HUP"} ELSE {})

Ready == {c \in fds : Events(c) # {}}

\* Every descriptor is closed: the loop ends.
PollNothing ==
    /\ pc = "poll"
    /\ fds = {}
    /\ pc' = "wait"
    /\ UNCHANGED <<call, fds, spare, revents, written, rest, buf, limits, result,
                   now, childVars, pipe>>

Poll ==
    /\ pc = "poll"
    /\ Ready # {}
    /\ revents' = [c \in Chan |-> IF c \in fds THEN Events(c) ELSE {}]
    /\ pc' = "stdin"
    /\ UNCHANGED <<call, fds, spare, written, rest, buf, limits, result,
                   now, childVars, pipe>>

\* poll() waits for its timeout at least, and for ever if it is negative.
PollExpires == timelimit >= 0 /\ now >= polled + 2 * timelimit

\* poll() returns 0: SIGALRM is sent, and SIGKILL after a while.
PollTimeout ==
    /\ pc = "poll"
    /\ fds # {} /\ Ready = {}
    /\ PollExpires
    /\ pc' = "grace"
    /\ UNCHANGED <<call, fds, spare, revents, written, rest, buf, limits, result,
                   now, childVars, pipe>>

\* poll() returns -1 (EINTR): the loop ends as well.
PollInterrupted ==
    /\ pc = "poll"
    /\ call.handler
    /\ fds # {} /\ Ready = {}
    /\ pc' = "wait"
    /\ UNCHANGED <<call, fds, spare, revents, written, rest, buf, limits, result,
                   now, childVars, pipe>>

Kill ==
    /\ pc = "grace"
    /\ pc' = "wait"
    /\ Killed
    /\ status' = [status EXCEPT !.timed_out = TRUE]
    /\ UNCHANGED <<call, fds, spare, revents, written, rest, buf, limits, reaped,
                   now, pipe, got, eof, said>>

-----------------------------------------------------------------------------
(* The body of the loop: standard input, then either output. *)

\* write() of what remains starts; its bytes are the first of the buffer,
\* however many were written before.
StdinWrite ==
    /\ pc = "stdin"
    /\ "in" \in fds
    /\ "OUT" \in revents["in"]
    /\ rest' = Bytes(call.size - written)
    /\ pc' = "write"
    /\ UNCHANGED <<call, fds, spare, revents, written, buf, limits, result,
                   now, childVars, pipe>>

\* Standard input is closed, or not ready: the loop turns to the outputs.
StdinClose ==
    /\ pc = "stdin"
    /\ "OUT" \notin revents["in"]
    /\ fds' = IF "ERR" \in revents["in"] THEN fds \ {"in"} ELSE fds
    /\ pc' = "out"
    /\ UNCHANGED <<call, spare, revents, written, rest, buf, limits, result,
                   now, childVars, pipe>>

Copied == call.size - written - Len(rest)

\* Mutant: what write() returns is not added up.
CountedNot == written

Counted == written + Copied

\* One byte gets into the pipe.
WriteByte ==
    /\ pc = "write"
    /\ rest # << >>
    /\ "in" \in cfds
    /\ Len(pipe["in"]) < Capacity
    /\ pipe' = [pipe EXCEPT !["in"] = Append(@, Head(rest))]
    /\ rest' = Tail(rest)
    /\ UNCHANGED <<call, pc, fds, spare, revents, written, buf, limits, result,
                   now, childVars>>

\* write() has copied everything, nobody reads any more, or it is cut short: the
\* process was stopped and continued while it blocked, or a signal was handled.
WriteEnds ==
    \/ rest = << >>
    \/ "in" \notin cfds
    \/ call.stops /\ Copied > 0 /\ Len(pipe["in"]) = Capacity
    \/ call.handler

\* write() returns what it copied, or an error if that is nothing (EPIPE, EINTR):
\* then standard input is closed.
WriteReturn ==
    /\ pc = "write"
    /\ WriteEnds
    /\ written' = Counted
    /\ fds' = IF Counted = call.size \/ (Copied = 0 /\ rest # << >>)
              THEN fds \ {"in"} ELSE fds
    /\ rest' = << >>
    /\ pc' = "out"
    /\ UNCHANGED <<call, spare, revents, buf, limits, result, now, childVars, pipe>>

AfterOutput(c) == IF c = "out" THEN "err" ELSE "relimit"

\* Mutant: a hangup closes the output though there is something to read.
HasInputNoHup(c) == "IN" \in revents[c] /\ "HUP" \notin revents[c]

HasInput(c) == "IN" \in revents[c]

\* Mutant: read() is given the start of the buffer.
AppendedAtStart(b, bytes) == bytes

Appended(b, bytes) == b \o bytes

\* bufRead: read() returns some of what the pipe holds.
ReadOutput(c) ==
    /\ pc = c
    /\ c \in fds
    /\ HasInput(c)
    /\ \E n \in 1..Len(pipe[c]) :
          /\ buf' = [buf EXCEPT ![c] = Appended(@, SubSeq(pipe[c], 1, n))]
          /\ pipe' = [pipe EXCEPT ![c] = SubSeq(@, n + 1, Len(@))]
    /\ pc' = AfterOutput(c)
    /\ UNCHANGED <<call, fds, spare, revents, written, rest, limits, result,
                   now, childVars>>

\* Mutant: a hangup goes unnoticed.
HungUpNever(c) == FALSE

HungUp(c) == "HUP" \in revents[c]

\* The child has closed the output, or nothing has happened to it.
CloseOutput(c) ==
    /\ pc = c
    /\ c \notin fds \/ ~HasInput(c)
    /\ fds' = IF HungUp(c) THEN fds \ {c} ELSE fds
    /\ pc' = AfterOutput(c)
    /\ UNCHANGED <<call, spare, revents, written, rest, buf, limits, result,
                   now, childVars, pipe>>

\* The timeout is computed anew: negative, if the limit has passed meanwhile.
Relimit ==
    /\ pc = "relimit"
    /\ SetTimelimit
    /\ pc' = "poll"
    /\ UNCHANGED <<call, fds, spare, revents, written, rest, buf, result,
                   now, childVars, pipe>>

-----------------------------------------------------------------------------
\* What is open is closed.
Finish ==
    /\ pc = "wait"
    /\ fds' = {}
    /\ pc' = "done"
    /\ UNCHANGED <<call, spare, revents, written, rest, buf, limits, now, childVars,
                   pipe>>

\* waitpid() returns how the child ended.
Wait ==
    /\ child.state \in {"exited", "signaled"}
    /\ status' = [status EXCEPT !.exited = (child.state = "exited"),
                                !.signaled = (child.state = "signaled")]
    /\ reaped' = TRUE
    /\ Finish

\* A handler interrupts waitpid(): wstatus is read as it was, uninitialised.
WaitInterrupted ==
    /\ child.state = "running" /\ call.handler
    /\ \E e, g \in BOOLEAN :
          /\ ~(e /\ g)
          /\ status' = [status EXCEPT !.exited = e, !.signaled = g]
    /\ reaped' = reaped
    /\ Finish

-----------------------------------------------------------------------------
(* The environment: the child, and the clock. *)

Does(i) == child.state = "running" /\ child.prog # << >> /\ Head(child.prog) = i

Goes == child' = [child EXCEPT !.prog = Tail(@)]

ChildRead(i) ==
    /\ i \in {"in", "all"} /\ Does(i)
    /\ "in" \in cfds /\ pipe["in"] # << >>
    /\ got' = Append(got, Head(pipe["in"]))
    /\ pipe' = [pipe EXCEPT !["in"] = Tail(@)]
    /\ IF i = "in" THEN Goes ELSE UNCHANGED child
    /\ UNCHANGED <<call, parent, now, cfds, eof, said>>

ChildReadsEnd(i) ==
    /\ i \in {"in", "all"} /\ Does(i)
    /\ "in" \notin cfds \/ (pipe["in"] = << >> /\ "in" \notin fds)
    /\ eof' = (eof \/ "in" \in cfds)
    /\ Goes
    /\ UNCHANGED <<call, parent, now, cfds, pipe, got, said>>

ChildWrite(c) ==
    /\ Does(c)
    /\ c \in cfds /\ c \in fds /\ Len(pipe[c]) < Capacity
    /\ said' = [said EXCEPT ![c] = @ + 1]
    /\ pipe' = [pipe EXCEPT ![c] = Append(@, said[c] + 1)]
    /\ Goes
    /\ UNCHANGED <<call, parent, now, cfds, got, eof>>

\* The output is /dev/null, or was closed by the child.
ChildWriteNowhere(c) ==
    /\ Does(c)
    /\ c \notin cfds
    /\ Goes
    /\ UNCHANGED <<call, parent, now, cfds, pipe, got, eof, said>>

\* Nobody will read the output: SIGPIPE, or an error the program goes on after.
ChildWriteBroken(c) ==
    /\ Does(c)
    /\ c \in cfds /\ c \notin fds
    /\ \/ Goes /\ UNCHANGED cfds
       \/ child' = Ended("signaled") /\ cfds' = {}
    /\ UNCHANGED <<call, parent, now, pipe, got, eof, said>>

ChildClose(c) ==
    /\ Does("close " \o c)
    /\ cfds' = cfds \ {c}
    /\ Goes
    /\ UNCHANGED <<call, parent, now, pipe, got, eof, said>>

\* The end of the program, a crash, or SIGALRM.
ChildEnds ==
    /\ child.state = "running"
    /\ \/ child.prog = << >> /\ child' = Ended("exited")
       \/ Does("crash") /\ child' = Ended("signaled")
       \/ pc = "grace" /\ child' = Ended("signaled")
    /\ cfds' = {}
    /\ UNCHANGED <<call, parent, now, pipe, got, eof, said>>

\* Later than that the time does not matter: no timeout is left to end, and a new
\* one is negative.
Horizon == call.limit + 2

\* Half a millisecond passes.
Tick ==
    /\ pc \notin {"failed", "done"}
    /\ call.limit > 0 /\ now < Horizon
    /\ now' = now + 1
    /\ UNCHANGED <<call, parent, childVars, pipe>>

Parent ==
    \/ \E c \in Chan : MakePipe(c) \/ PipeFails(c)
    \/ Fork \/ Mask \/ MaskFails
    \/ PollNothing \/ Poll \/ PollTimeout \/ PollInterrupted \/ Kill
    \/ StdinWrite \/ StdinClose \/ WriteByte \/ WriteReturn
    \/ \E c \in Output : ReadOutput(c) \/ CloseOutput(c)
    \/ Relimit \/ Wait \/ WaitInterrupted

Child ==
    \/ \E i \in {"in", "all"} : ChildRead(i) \/ ChildReadsEnd(i)
    \/ \E c \in Output : ChildWrite(c) \/ ChildWriteNowhere(c) \/ ChildWriteBroken(c)
    \/ \E c \in Chan : ChildClose(c)
    \/ ChildEnds

Next == Parent \/ Child \/ Tick

Spec == Init /\ [][Next]_vars

\* The parent and the child are scheduled, and time passes.
FairSpec == Spec /\ WF_vars(Parent) /\ WF_vars(Child) /\ WF_vars(Tick)
-----------------------------------------------------------------------------
(* Properties. *)

\* Every variable has its type, and a pipe never holds more than it can.
TypeOK ==
    /\ IsCall(call)
    /\ pc \in {"pipe_in", "pipe_out", "pipe_err", "fork", "mask", "failed", "poll", "grace",
               "stdin", "write", "out", "err", "relimit", "wait", "done"}
    /\ fds \subseteq call.pipes /\ spare \subseteq call.pipes /\ cfds \subseteq call.pipes
    /\ revents \in [Chan -> SUBSET {"IN", "OUT", "HUP", "ERR"}]
    /\ written \in 0..call.size
    /\ rest \in Seq(Nat) /\ Len(rest) <= call.size - written
    /\ buf \in [Output -> Seq(Nat)]
    /\ timelimit \in Int /\ polled \in Nat /\ now \in 0..Horizon
    /\ reaped \in BOOLEAN /\ eof \in BOOLEAN
    /\ status \in [exited : BOOLEAN, signaled : BOOLEAN, timed_out : BOOLEAN]
    /\ child \in [state : {"none", "running", "exited", "signaled"}, prog : Seq(Instr)]
    /\ pipe \in [Chan -> Seq(Nat)] /\ \A c \in Chan : Len(pipe[c]) <= Capacity
    /\ got \in Seq(Nat)
    /\ said \in [Output -> Nat]

\* "The buffer write_stdin is written to the standard input of the sub-process"
\* (pddl/subprocess.h:44): from its start, no byte lost, repeated or out of order,
\* and the child sees the end of its input only after all of it.
InputInOrder ==
    /\ IsPrefix(got \o pipe["in"], Bytes(call.size))
    /\ eof => got = Bytes(call.size)

\* That is so unless something cuts a write() short: neither a child that reads
\* slowly, stops reading or dies nor the time limit does (subprocess.c:297-333).
InputKept == ~call.stops /\ ~call.handler => InputInOrder

\* What the child writes is read once and in order (subprocess.c:336-401, with
\* the events poll() reported before the child went on), ...
OutputInOrder ==
    \A c \in call.pipes \cap Output : buf[c] \o pipe[c] = Bytes(said[c])

\* ... and all of it is there when the call returns, unless the time limit or a
\* signal handler ended the loop.
OutputComplete ==
    pc = "done" /\ ~status.timed_out /\ ~call.handler =>
        \A c \in call.pipes \cap Output : buf[c] = Bytes(said[c])

\* A child that does not crash is not killed before its time limit: the timeouts,
\* computed anew in every round and rounded to milliseconds, never add up to less
\* (subprocess.c:273-295, 403-407).
KilledOnlyLate ==
    /\ status.timed_out => call.limit > 0 /\ now >= call.limit
    /\ status.signaled => status.timed_out \/ "crash" \in Range(call.prog) \/ call.handler

\* However the call returns, its child ended or not and whichever pipe() failed, both
\* ends of every pipe are closed (subprocess.c:154-184, 249-271, 412-417), and the
\* child is reaped unless a handler interrupts waitpid().  A failing sigprocmask() is
\* excepted: subprocess.c:239-244 leaves the pipes open.
NothingLeft ==
    /\ pc = "done" \/ (pc = "failed" /\ child.state = "none") => fds = {} /\ spare = {}
    /\ pc \in {"done", "failed"} /\ ~call.handler => child.state = "none" \/ reaped

Writes(c) == Cardinality({i \in DOMAIN call.prog : call.prog[i] = c})

\* The call returns if the program ends by itself and its outputs, or else the
\* input, fit the pipes; if signals are handled both have to, as an interrupted
\* poll() ends the loop.
Returns ==
    LET outputs == \A c \in Output : Writes(c) <= Capacity
        input == call.size <= Capacity
    IN
    /\ "hang" \notin Range(call.prog)
    /\ IF call.handler THEN outputs /\ input ELSE outputs \/ input
    => <>(pc \in {"done", "failed"})

\* "The buffer write_stdin is written to the standard input of the sub-process,
\* and buffers read_stdout and read_stderr are [...] filled" (pddl/subprocess.h:44):
\* the call returns if the program ends by itself.
ReturnsAlways == "hang" \notin Range(call.prog) => <>(pc \in {"done", "failed"})

\* pddl/subprocess.h: the call "allows to set time and memory limit".
TimeLimitKept ==
    call.limit > 0 /\ now >= call.limit ~> pc \in {"done", "failed"}

\* "The status struct is filled with the exit status of the sub-process"
\* (pddl/subprocess.h:43): it says how the child has ended.
StatusRight ==
    pc = "done" =>
        /\ status.exited <=> child.state = "exited"
        /\ status.signaled <=> child.state = "signaled"
=============================================================================
