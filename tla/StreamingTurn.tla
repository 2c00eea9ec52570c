---------------------------- MODULE StreamingTurn ----------------------------
(***************************************************************************)
(* One streaming CLI turn: the orchestrator and its child process around   *)
(* three pipes of bounded capacity (backends/base.py: _StreamingReader,    *)
(* _StreamingInput, _wait_for_streams, _run_streaming_cli_turn).           *)
(*                                                                         *)
(* The child writes a text to stdout and some bytes to stderr, and reads   *)
(* stdin, in an order of its own; each of those blocks it while the pipe   *)
(* is full or empty.  The orchestrator selects on the pipes until all are  *)
(* done or the deadline passes.                                            *)
(*                                                                         *)
(* Only stdout is decoded here; stderr goes through the same code, and it  *)
(* and the prompt on stdin are counted in pipefuls.  A read takes all the  *)
(* pipe holds: 65536 is the capacity of a pipe too.                        *)
(***************************************************************************)
EXTENDS Naturals, SequencesExt

CONSTANTS
  Texts,     \* what a child may write to stdout, sequences of Byte
  Noise,     \* how many pipefuls it may write to stderr
  Prompts,   \* pipefuls of prompt on stdin; 0 is a turn without one
  Capacity   \* bytes stdout's pipe holds

(* A plain character, the two bytes of a character that needs two, and the *)
(* line ends.                                                              *)
Byte == {"c", "h1", "h2", "cr", "lf"}

ASSUME StreamAssumption ==
  /\ \A t \in Texts : t \in Seq(Byte)
  /\ Noise \subseteq Nat
  /\ Prompts \subseteq Nat
  /\ Capacity \in Nat \ {0}

VARIABLES
  child,     \* "running", "silent" (its outputs closed), "exited", "reaped"
  holder,    \* does a descendant of the child keep the pipes open?
  want,      \* the pipe the child is committed to use, or "none"
  script,    \* the text it is to write
  said,      \* how many bytes of that it has written
  noise,     \* pipefuls it has still to write to stderr
  out,       \* the bytes in stdout's pipe
  err, inp,  \* are the pipes of stderr and stdin full?
  deaf,      \* has nobody stdin open for reading any more?
  pc,        \* where the orchestrator is
  late,      \* has the deadline passed?
  readers,   \* output pipes it still reads
  stdin,     \* does it have stdin open for writing?
  prompt,    \* pipefuls of the prompt it has still to write
  readable,  \* output pipes the last select reported
  writable,  \* did the last select report stdin?
  half,      \* the decoder holds the first byte of a character
  heldCr,    \* the decoder holds a carriage return back
  text,      \* the decoded stdout so far
  shown      \* lines of it displayed

childVars == <<child, holder, want, script, said, noise>>
pipeVars  == <<out, err, inp, deaf>>
loopVars  == <<readers, stdin, prompt, readable, writable>>
decoder   == <<half, heldCr, text, shown>>
vars      == <<childVars, pipeVars, pc, late, loopVars, decoder>>

Ended == {"returned", "timed_out", "raised"}
PCs   == {"select", "read", "write", "wait", "kill", "raise"} \cup Ended

Goto(l) == pc' = l

Alive == child \in {"running", "silent"}

(* Has everyone who could write to an output pipe closed it? *)
Closed == child # "running" /\ ~holder

Init ==
  /\ child = "running" /\ want = "none" /\ said = 0
  /\ holder \in BOOLEAN
  /\ script \in Texts
  /\ noise \in Noise
  /\ prompt \in Prompts
  /\ out = <<>> /\ err = FALSE /\ inp = FALSE
  /\ deaf = FALSE
  /\ stdin = (prompt > 0)
  /\ pc = "select" /\ late = FALSE
  /\ readers = {"out", "err"} /\ readable = {} /\ writable = FALSE
  /\ half = FALSE /\ heldCr = FALSE /\ text = <<>> /\ shown = 0

-----------------------------------------------------------------------------
(* The decoder: an incremental character decoder under an incremental      *)
(* newline decoder.  An undecodable byte makes it raise.                   *)

(* A text is the sequence of what each byte adds to it: the first byte of  *)
(* a character, and a line feed behind a carriage return, add nothing.     *)
Plain == {"", "c", "h", "lf"}

(* Does the last character of some bytes want its second byte? *)
Cut(bytes) == bytes # <<>> /\ Last(bytes) = "h1"

Malformed(bytes) ==
  \E i \in DOMAIN bytes :
    \/ bytes[i] = "h1" /\ i < Len(bytes) /\ bytes[i + 1] # "h2"
    \/ bytes[i] = "h2" /\ (i = 1 \/ bytes[i - 1] # "h1")

(* Bytes to characters, as far as those are complete. *)
Character == [b \in Byte |-> CASE b = "h1" -> "" [] b = "h2" -> "h" [] OTHER -> b]

Characters(bytes) ==
  [i \in 1 .. (Len(bytes) - IF Cut(bytes) THEN 1 ELSE 0) |->
     Character[bytes[i]]]

(* Universal newlines: CR LF and CR become LF. *)
Newlines(s) ==
  [i \in DOMAIN s |->
     CASE s[i] = "cr"                                -> "lf"
       [] s[i] = "lf" /\ i > 1 /\ s[i - 1] = "cr"    -> ""
       [] OTHER                                      -> s[i]]

LineEnds(s) == Cardinality({i \in DOMAIN s : s[i] = "lf"})

(* IncrementalNewlineDecoder.decode, and what _decode does with its result.*)
(* (The faulty variant holds no carriage return back.)                     *)
AcceptEagerly(chars, final) ==
  LET s == Newlines(chars)
  IN  /\ heldCr' = FALSE
      /\ text' = text \o s
      /\ shown' = shown + LineEnds(s)

Accept(chars, final) ==
  LET all  == IF heldCr /\ (chars # <<>> \/ final) THEN <<"cr">> \o chars
              ELSE chars
      hold == ~final /\ all # <<>> /\ Last(all) = "cr"
      s    == Newlines(IF hold THEN Front(all) ELSE all)
  IN  /\ heldCr' = (hold \/ (heldCr /\ all = <<>> /\ ~final))
      /\ text' = text \o s
      /\ shown' = shown + LineEnds(s)

(* What subprocess.run would return for the same bytes, and when it raises. *)
Undecodable(bytes) == Malformed(bytes) \/ Cut(bytes)

Decoded(bytes) == Newlines(Characters(bytes))

Said == SubSeq(script, 1, said)

-----------------------------------------------------------------------------
(* The child.  It commits to one pipe at a time, and blocks there. *)

Choose ==
  /\ Alive /\ want = "none"
  /\ \/ child = "running" /\ said < Len(script) /\ want' = "out"
     \/ child = "running" /\ noise > 0 /\ want' = "err"
     \/ ~deaf /\ (stdin \/ inp) /\ want' = "in"
  /\ UNCHANGED <<child, holder, script, said, noise, pipeVars, pc, late,
                 loopVars, decoder>>

WriteOut ==
  /\ Alive /\ want = "out"
  /\ Len(out) < Capacity
  /\ out' = Append(out, script[said + 1])
  /\ said' = said + 1
  /\ want' = "none"
  /\ UNCHANGED <<child, holder, script, noise, err, inp, deaf, pc, late,
                 loopVars, decoder>>

WriteErr ==
  /\ Alive /\ want = "err"
  /\ ~err
  /\ err' = TRUE
  /\ noise' = noise - 1
  /\ want' = "none"
  /\ UNCHANGED <<child, holder, script, said, out, inp, deaf, pc, late,
                 loopVars, decoder>>

(* A read of an empty stdin returns when the orchestrator has closed it. *)
ReadIn ==
  /\ Alive /\ want = "in"
  /\ inp \/ ~stdin
  /\ inp' = FALSE
  /\ want' = "none"
  /\ UNCHANGED <<child, holder, script, said, noise, out, err, deaf, pc, late,
                 loopVars, decoder>>

CloseIn ==
  /\ Alive /\ want = "none" /\ ~deaf /\ ~holder
  /\ deaf' = TRUE
  /\ UNCHANGED <<childVars, out, err, inp, pc, late, loopVars, decoder>>

CloseOutputs ==
  /\ child = "running" /\ want = "none"
  /\ child' = "silent"
  /\ UNCHANGED <<holder, want, script, said, noise, pipeVars, pc, late,
                 loopVars, decoder>>

(* It exits when it likes, but not while it is blocked; it may be killed   *)
(* anywhere.                                                               *)
Gone ==
  /\ Alive
  /\ child' = "exited"
  /\ want' = "none"
  /\ deaf' = (deaf \/ ~holder)
  /\ UNCHANGED <<holder, script, said, noise, out, err, inp, pc, late,
                 loopVars, decoder>>

Exit == want = "none" /\ Gone
Die  == want # "none" /\ Gone

HolderEnds ==
  /\ holder
  /\ holder' = FALSE
  /\ deaf' = (deaf \/ ~Alive)
  /\ UNCHANGED <<child, want, script, said, noise, out, err, inp, pc, late,
                 loopVars, decoder>>

Tick ==
  /\ ~late /\ pc \notin Ended
  /\ late' = TRUE
  /\ UNCHANGED <<childVars, pipeVars, pc, loopVars, decoder>>

-----------------------------------------------------------------------------
(* The orchestrator. *)

Readable(r) == Closed \/ (IF r = "out" THEN out # <<>> ELSE err)

(* (The faulty variant keeps selecting on pipes that reached their end.)   *)
ReadyToReadAny == {r \in {"out", "err"} : Readable(r)}
ReadyToRead == {r \in readers : Readable(r)}
ReadyToWrite == stdin /\ (deaf \/ ~inp)

(* All pipes are done; or the deadline has passed; or something is ready.  *)
(* (Faulty variants: stdin is written before anything is read; the clock   *)
(* is not read as long as a pipe is ready.)                                *)
SelectWriteFirst ==
  /\ pc = "select"
  /\ \/ readers = {} /\ ~stdin /\ Goto("wait") /\ UNCHANGED <<readable, writable>>
     \/ /\ readers # {} \/ stdin
        /\ late
        /\ Goto("kill")
        /\ UNCHANGED <<readable, writable>>
     \/ /\ ~late
        /\ readable' = IF stdin THEN {} ELSE ReadyToRead
        /\ writable' = ReadyToWrite
        /\ readable' # {} \/ writable'
        /\ Goto("read")
  /\ UNCHANGED <<childVars, pipeVars, late, readers, stdin, prompt, decoder>>

SelectUntimed ==
  /\ pc = "select"
  /\ \/ readers = {} /\ ~stdin /\ Goto("wait") /\ UNCHANGED <<readable, writable>>
     \/ /\ readers # {} \/ stdin
        /\ late /\ ReadyToRead # {} /\ ~ReadyToWrite
        /\ Goto("kill")
        /\ UNCHANGED <<readable, writable>>
     \/ /\ readable' = ReadyToRead
        /\ writable' = ReadyToWrite
        /\ readable' # {} \/ writable'
        /\ Goto("read")
  /\ UNCHANGED <<childVars, pipeVars, late, readers, stdin, prompt, decoder>>

Select ==
  /\ pc = "select"
  /\ \/ readers = {} /\ ~stdin /\ Goto("wait") /\ UNCHANGED <<readable, writable>>
     \/ /\ readers # {} \/ stdin
        /\ late
        /\ Goto("kill")
        /\ UNCHANGED <<readable, writable>>
     \/ /\ ~late
        /\ readable' = ReadyToRead
        /\ writable' = ReadyToWrite
        /\ readable' # {} \/ writable'
        /\ Goto("read")
  /\ UNCHANGED <<childVars, pipeVars, late, readers, stdin, prompt, decoder>>

(* One chunk of stdout, or its end, which flushes the decoder. *)
ReadOut ==
  /\ pc = "read" /\ "out" \in readable
  /\ LET bytes == IF half THEN <<"h1">> \o out ELSE out
         final == out = <<>>
         bad   == Malformed(bytes) \/ (final /\ half)
     IN  \/ /\ bad
            /\ Goto("raise")
            /\ UNCHANGED <<readers, readable, decoder>>
         \/ /\ ~bad
            /\ Accept(Characters(bytes), final)
            /\ half' = Cut(bytes)
            /\ readers' = IF final THEN readers \ {"out"} ELSE readers
            /\ readable' = readable \ {"out"}
            /\ UNCHANGED pc
  /\ out' = <<>>
  /\ UNCHANGED <<childVars, err, inp, deaf, late, stdin, prompt, writable>>

ReadErr ==
  /\ pc = "read" /\ readable = {"err"}
  /\ err' = FALSE
  /\ readers' = IF err THEN readers ELSE readers \ {"err"}
  /\ readable' = {}
  /\ UNCHANGED <<childVars, out, inp, deaf, pc, late, stdin, prompt, writable,
                 decoder>>

(* As much of the prompt as fits; stdin is closed behind its last byte, or *)
(* when nobody reads it any more.                                          *)
Write ==
  /\ pc = "read" /\ readable = {}
  /\ Goto("select")
  /\ IF writable /\ ~deaf
     THEN inp' = TRUE /\ prompt' = prompt - 1
     ELSE UNCHANGED <<inp, prompt>>
  /\ stdin' = (stdin /\ ~(writable /\ (deaf \/ prompt' = 0)))
  /\ writable' = FALSE
  /\ UNCHANGED <<childVars, out, err, deaf, late, readers, readable, decoder>>

(* process.wait against what is left of the same deadline. *)
Wait ==
  /\ pc = "wait"
  /\ \/ child = "exited" /\ child' = "reaped" /\ Goto("returned")
     \/ Alive /\ late /\ Goto("kill") /\ UNCHANGED child
  /\ UNCHANGED <<holder, want, script, said, noise, pipeVars, late, loopVars,
                 decoder>>

(* TimeoutExpired kills and reaps the child; any other exception does so   *)
(* in the finally clause, which also closes the pipes.  A descendant is    *)
(* left alone.  (Faulty variant: only a timeout kills.)                    *)
CleanUp(l) ==
  /\ Goto(l)
  /\ child' = "reaped"
  /\ want' = "none"
  /\ stdin' = FALSE
  /\ readers' = {} /\ readable' = {} /\ writable' = FALSE
  /\ deaf' = (deaf \/ ~holder)
  /\ UNCHANGED <<holder, script, said, noise, out, err, inp, late, prompt,
                 decoder>>

KillOnTimeoutOnly ==
  \/ pc = "kill" /\ CleanUp("timed_out")
  \/ pc = "raise" /\ Goto("raised")
       /\ UNCHANGED <<childVars, pipeVars, late, loopVars, decoder>>

KillAndReap ==
  \/ pc = "kill" /\ CleanUp("timed_out")
  \/ pc = "raise" /\ CleanUp("raised")

Loop  == Select \/ ReadOut \/ ReadErr \/ Write \/ Wait \/ KillAndReap
Child == Choose \/ WriteOut \/ WriteErr \/ ReadIn \/ CloseIn \/ CloseOutputs \/ Exit

Done == pc \in Ended /\ UNCHANGED vars

Next == Loop \/ Child \/ Die \/ HolderEnds \/ Tick \/ Done

(* The orchestrator is not suspended for ever.  Neither the child nor the  *)
(* clock is taken to move.                                                 *)
Spec == Init /\ [][Next]_vars /\ WF_vars(Loop)

-----------------------------------------------------------------------------
TypeOK ==
  /\ child \in {"running", "silent", "exited", "reaped"}
  /\ holder \in BOOLEAN /\ deaf \in BOOLEAN /\ stdin \in BOOLEAN
  /\ late \in BOOLEAN /\ writable \in BOOLEAN
  /\ half \in BOOLEAN /\ heldCr \in BOOLEAN
  /\ want \in {"none", "out", "err", "in"}
  /\ script \in Texts
  /\ said \in 0 .. Len(script)
  /\ noise \in Nat /\ prompt \in Nat /\ shown \in Nat
  /\ out \in Seq(Byte) /\ Len(out) <= Capacity
  /\ err \in BOOLEAN /\ inp \in BOOLEAN
  /\ pc \in PCs
  /\ readers \subseteq {"out", "err"} /\ readable \subseteq readers
  /\ text \in Seq(Plain)

(* A turn that returns has the whole output, decoded as subprocess.run     *)
(* would decode it, wherever the reads cut it: inside a character, between *)
(* CR and LF, or before the end, and only if all of it can be decoded.     *)
(* Every complete line of it was displayed.                                *)
ResultIsWhole ==
  pc = "returned" =>
     /\ ~Undecodable(Said)
     /\ text = Decoded(Said)
     /\ shown = LineEnds(text)

(* No way out of a turn leaves a child running or a zombie behind. *)
ChildIsReaped == pc \in Ended => child = "reaped"

(* Whatever the child does or does not do, the turn ends once the deadline *)
(* has passed.                                                             *)
DeadlineEnforced == late ~> pc \in Ended

(* A child that goes on, and leaves no descendant with the pipes, is       *)
(* served to its end even if the deadline never comes.                     *)
WillingChildIsServed ==
  WF_vars(Child) /\ WF_vars(HolderEnds) => <>(pc \in Ended)
=============================================================================
