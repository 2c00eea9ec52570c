------------------------------ MODULE BackendTurn ------------------------------
(***************************************************************************)
(* A `talk` through the four CLI adapters: the argv and prompt a CLI is    *)
(* given, what each adapter reads out of its exit and stdout, what         *)
(* Agent.talk keeps of it, and the validate-and-repair loop on top         *)
(* (backends/*.py, orchestrator/schema.py, orchestrator/core.py).          *)
(*                                                                         *)
(* The loop, its counts and its clock are ValidatedTurn's, whose free      *)
(* choices are made here: a run fails or replies by what its adapter       *)
(* reads, a reply is rejected for what it says.  A talk without a schema   *)
(* is one turn that is always satisfied.                                   *)
(*                                                                         *)
(* The CLI is external.  It works in the conversation `at`, says `said`,   *)
(* may publish an object of its own beside the text, and writes lines to   *)
(* stdout; the adapters see the lines and the exit only, and the           *)
(* properties compare what they return with what the CLI did.  A text is   *)
(* one of four kinds: prose, a JSON object that satisfies the schema       *)
(* ("good") or breaks it ("bad"), and a good object with something around  *)
(* it, a fence or prose ("fenced").  A model may say any of them, whether  *)
(* its CLI was handed the schema or not.                                   *)
(* A reply, and what was said, is a function from positions to texts: an   *)
(* envelope's only text is at 1, a message at the line that first had it.  *)
(***************************************************************************)
EXTENDS ValidatedTurn, Sequences, FiniteSetsExt

CONSTANTS
  Backends,   \* among "claude", "grok", "codex", "opencode"
  Sessions,   \* conversation ids
  Parts,      \* ids of opencode's text parts
  Reasons,    \* what a CLI says of a failure
  MaxLines,   \* bound: stdout lines of a run
  None

Texts == {"prose", "good", "bad", "fenced"}

(* The errors that carry no word of the CLI's own. *)
Unusable == "exit code and pipes"
NoFork   == "the source's own session id"
Invalid  == "reply rejected"
TimedOut == "timeout"
Gone     == "no such agent"
Errors   == Reasons \cup {Unusable, NoFork, Invalid, TimedOut, Gone}

ASSUME BackendAssumption ==
  /\ Backends \subseteq {"claude", "grok", "codex", "opencode"}
  /\ MaxLines \in Nat
  /\ None \notin Sessions \cup Parts \cup Texts \cup Errors
  /\ None \notin {0, 1}

VARIABLES
  backend,   \* the agent's backend
  session,   \* the agent's session_id
  pending,   \* the agent's pending_fork_from
  schema,    \* whether the call has --schema
  argv,      \* what the current run was given
  out,       \* its stdout
  exit,      \* its exit code, None before it exits
  at,        \* the conversation it works in
  names,     \* ids it put where its conversation's id belongs
  said,      \* the completed texts of its model, in order
  published, \* the object its envelope carries beside the text, or None
  failed,    \* whether it reported that the turn failed
  why,       \* the last reason it gave
  result,    \* the TurnResult, or None
  error      \* what the call raised, or None

agent    == <<backend, session, pending>>
given    == <<schema, argv>>
facts    == <<exit, at, names, said, published, failed, why>>
turnVars == <<vars, agent, given, out, facts, result, error>>

Lines ==
  [type: {"noise", "tip", "start", "message", "result", "failure", "degraded"},
   session: Sessions \cup {None},
   part: Parts \cup {None},
   text: Texts \cup Reasons \cup {None},
   object: {"good", "bad", None}]

Line(type, s, part, text, object) ==
  [type |-> type, session |-> s, part |-> part, text |-> text,
   object |-> object]

NoLine == Line("noise", None, None, None, None)

enforces_schema == backend # "opencode"

-----------------------------------------------------------------------------
(* The prompt and the argv.  A prompt is the set of things it tells.       *)

instruction ==
  {"conform"} \cup IF enforces_schema THEN {} ELSE {"document"}

compose_schema_prompt == {"user"} \cup instruction

(* Faulty variant: the session holds the schema, so do not repeat it. *)
RepairWithoutDocument == {"correction", "conform"}

repair_prompt == {"correction"} \cup instruction

(* Resume is --resume or the CLI's spelling of it, with the fork flag or   *)
(* command when the agent has yet to be forked from its source; the schema *)
(* goes into a flag on the CLIs that have one.                             *)
Argv(prompt) ==
  [resume   |-> IF pending # None THEN pending ELSE session,
   fork     |-> pending # None,
   document |-> schema /\ (enforces_schema \/ "document" \in prompt)]

-----------------------------------------------------------------------------
(* Envelope helpers.  Lines are known by their numbers. *)

json_objects(lines) == {i \in DOMAIN lines : lines[i].type # "noise"}

OfType(lines, types) == {i \in DOMAIN lines : lines[i].type \in types}

LastLine(lines, S) == IF S = {} THEN NoLine ELSE lines[Max(S)]

reply_text(line) == IF line.text = None THEN <<>> ELSE <<line.text>>

(* json.loads of the reply, when that is an object. *)
Whole(reply) ==
  IF \E i \in DOMAIN reply : DOMAIN reply = {i} /\ reply[i] \in {"good", "bad"}
  THEN reply[Max(DOMAIN reply)] ELSE None

ObjectOf(text) == IF text = "fenced" THEN "good" ELSE text

(* The last object the reply holds, in a fence or bare. *)
embedded_object(reply) ==
  LET holding == {i \in DOMAIN reply : reply[i] # "prose"}
  IN  IF holding = {} THEN None ELSE ObjectOf(reply[Max(holding)])

(* The object of a reply: the CLI's own where it published one, else the   *)
(* reply.  (Faulty variant: the text comes first.)                         *)
TextBeforeObject(reply, preParsed) ==
  IF ~schema THEN None
  ELSE IF Whole(reply) # None THEN Whole(reply)
  ELSE preParsed

structured_reply(reply, preParsed) ==
  IF ~schema THEN None
  ELSE IF preParsed # None THEN preParsed
  ELSE Whole(reply)

Raised(e) == [error |-> e, session |-> None, reply |-> <<>>, structured |-> None]

Turned(s, reply, preParsed) ==
  [error |-> None, session |-> s, reply |-> reply,
   structured |-> structured_reply(reply, preParsed)]

(* Codex's and opencode's own words: the last reason the events give.      *)
(* (Faulty variant: the first.)                                            *)
Reasoned(lines) == {i \in OfType(lines, {"failure"}) : lines[i].text # None}

FirstReason(lines) ==
  IF Reasoned(lines) = {} THEN Unusable ELSE lines[Min(Reasoned(lines))].text

reported_error(lines) ==
  IF Reasoned(lines) = {} THEN Unusable ELSE lines[Max(Reasoned(lines))].text

-----------------------------------------------------------------------------
(* The adapters: what run_turn returns for a stdout and an exit code. *)

Envelopes == {"result", "failure", "degraded"}

(* Claude: the last event of type "result", an error or not, else the last *)
(* object.                                                                 *)
pick_result_object(lines) ==
  LET results == OfType(lines, Envelopes)
  IN  LastLine(lines, IF results # {} THEN results ELSE json_objects(lines))

(* Grok: an object with a session id or of type "error", else one with a   *)
(* text, else the last.  (Faulty variant: a text is as good a sign.)       *)
PickByText(lines) ==
  LET marked == {i \in json_objects(lines) :
                   lines[i].type = "failure" \/ lines[i].text # None}
  IN  LastLine(lines, IF marked # {} THEN marked ELSE json_objects(lines))

pick_grok_object(lines) ==
  LET objects == json_objects(lines)
      strong  == {i \in objects :
                    lines[i].session # None \/ lines[i].type = "failure"}
      weak    == {i \in objects : lines[i].text # None}
  IN  LastLine(lines, IF strong # {} THEN strong
                      ELSE IF weak # {} THEN weak ELSE objects)

(* Both publish one envelope: an error in it has the say whatever the exit *)
(* code, and an envelope that names no session is no turn.                 *)
EnvelopeTurn(envelope, code) ==
  IF envelope.type = "failure" THEN Raised(envelope.text)
  ELSE IF code # 0 \/ envelope.type = "degraded" \/ envelope.session = None
    THEN Raised(Unusable)
  ELSE Turned(envelope.session, reply_text(envelope), envelope.object)

claude(lines, code) == EnvelopeTurn(pick_result_object(lines), code)

grok(lines, code) == EnvelopeTurn(pick_grok_object(lines), code)

(* Codex: the thread it started and every agent message; errors count only *)
(* when the exit code says the turn failed.                                *)
codex(lines, code) ==
  LET started == OfType(lines, {"start"})
  IN  IF code # 0 THEN Raised(reported_error(lines))
      ELSE IF started = {} THEN Raised(Unusable)
      ELSE Turned(lines[Max(started)].session,
                  [i \in OfType(lines, {"message"}) |-> lines[i].text], None)

(* Opencode: any error event fails the turn, every event has to name the   *)
(* session, and a text part printed again replaces what it said before.    *)
PartsOf(lines, p) ==
  {i \in OfType(lines, {"message"}) : lines[i].part = p}

FirstOfPart(lines) ==
  {i \in OfType(lines, {"message"}) :
     \A j \in PartsOf(lines, lines[i].part) : i <= j}

Concluded(lines) ==
  [i \in FirstOfPart(lines) |-> lines[Max(PartsOf(lines, lines[i].part))].text]

opencode(lines, code) ==
  LET events == json_objects(lines)
      reply  == Concluded(lines)
  IN  IF code # 0 \/ OfType(lines, {"failure"}) # {}
        THEN Raised(reported_error(lines))
      ELSE IF events = {} \/ \E i \in events : lines[i].session = None
        THEN Raised(Unusable)
      ELSE Turned(lines[Max(events)].session, reply, embedded_object(reply))

run_turn ==
  CASE backend = "claude"   -> claude(out, exit)
    [] backend = "grok"     -> grok(out, exit)
    [] backend = "codex"    -> codex(out, exit)
    [] backend = "opencode" -> opencode(out, exit)

-----------------------------------------------------------------------------
(* A new agent, one forked from the conversation of another and not run    *)
(* since, and one with a conversation of its own.                          *)
TurnInit ==
  /\ Init
  /\ backend \in Backends
  /\ \/ session = None /\ pending \in Sessions \cup {None}
     \/ session \in Sessions /\ pending = None
  /\ schema \in BOOLEAN
  /\ argv = [resume |-> None, fork |-> FALSE, document |-> FALSE]
  /\ out = <<>>
  /\ exit = None
  /\ at = None
  /\ names = {}
  /\ said = <<>>
  /\ published = None
  /\ failed = FALSE
  /\ why = None
  /\ result = None
  /\ error = None

(* A CLI run: it starts a conversation, or goes on with the one it is told *)
(* to resume, under that id or one of its own.  Told to fork it may yet    *)
(* continue the source.                                                    *)
Start(prompt) ==
  LET args == Argv(prompt)
  IN  /\ Launch
      /\ argv' = args
      /\ at' \in (Sessions \ {session, pending}) \cup ({args.resume} \ {None})
      /\ out' = <<>>
      /\ exit' = None
      /\ names' = {}
      /\ said' = <<>>
      /\ published' = None
      /\ failed' = FALSE
      /\ why' = None
      /\ result' = None
      /\ error' = None
      /\ UNCHANGED <<agent, schema>>

Talk ==
  /\ pc = "start"
  /\ Start(IF schema THEN compose_schema_prompt ELSE {"user"})

(* Another attempt, told what was wrong with the last. *)
Repair ==
  /\ pc = "repair"
  /\ Start(repair_prompt)

-----------------------------------------------------------------------------
(* The CLI, while it runs. *)

Running == pc = "run" /\ exit = None

(* The number of the line being printed. *)
here == Len(out) + 1

Emit(line) ==
  /\ Running
  /\ Len(out) < MaxLines
  /\ out' = Append(out, line)
  /\ UNCHANGED <<vars, agent, given, exit, at, result, error>>

(* Claude and grok print their envelope once. *)
Enveloped == OfType(out, Envelopes) # {}

(* A line that is no JSON, and a JSON object that is no part of the answer *)
(* (opencode's with or without its session id).                            *)
Noise ==
  /\ Emit(NoLine)
  /\ UNCHANGED <<names, said, published, failed, why>>

Tip ==
  /\ \E s \in {None, at} :
       /\ backend \in {"grok", "codex"} => s = None
       /\ Emit(Line("tip", s, None,
                     IF backend = "grok" THEN "prose" ELSE None, None))
       /\ names' = IF backend = "opencode" THEN names \cup {s} ELSE names
  /\ UNCHANGED <<said, published, failed, why>>

(* thread.started *)
Name ==
  /\ backend = "codex"
  /\ names = {}
  /\ Emit(Line("start", at, None, None, None))
  /\ names' = {at}
  /\ UNCHANGED <<said, published, failed, why>>

(* What is said at the line being printed, and all that was said with it.  *)
Say(p, t) == [part |-> p, text |-> t]

SaidNow(words) ==
  [i \in DOMAIN said \cup {here} |-> IF i = here THEN words ELSE said[i]]

(* A message of codex's agent. *)
Message ==
  /\ backend = "codex"
  /\ \E t \in Texts :
       /\ Emit(Line("message", None, None, t, None))
       /\ said' = SaidNow(Say(None, t))
  /\ UNCHANGED <<names, published, failed, why>>

(* A completed text part of opencode's, new or printed once more. *)
TextPart ==
  /\ backend = "opencode"
  /\ \E p \in Parts, t \in Texts :
       /\ Emit(Line("message", at, p, t, None))
       /\ said' = IF \E i \in DOMAIN said : said[i].part = p
                  THEN [i \in DOMAIN said |->
                          IF said[i].part = p THEN Say(p, t) ELSE said[i]]
                  ELSE SaidNow(Say(p, t))
  /\ names' = names \cup {at}
  /\ UNCHANGED <<published, failed, why>>

(* The envelope of an answer, with or without its session id, the text     *)
(* (null when the model said nothing), and, under a schema, the object the *)
(* CLI makes of the answer, whatever the text is, or none.                 *)
Envelope ==
  /\ backend \in {"claude", "grok"}
  /\ ~Enveloped
  /\ \E s \in {None, at}, t \in Texts \cup {None},
        o \in {"good", "bad", None} :
       /\ o # None => schema
       /\ Emit(Line("result", s, None, t, o))
       /\ said' = IF t = None THEN <<>> ELSE <<Say(None, t)>>
       /\ published' = o
       /\ names' = {s}
  /\ UNCHANGED <<failed, why>>

(* A failure, with a reason; codex and opencode may give none.  Codex's    *)
(* `error` may be a warning it recovers from, its `turn.failed` is not.    *)
ReportFailure ==
  /\ backend \in {"claude", "grok"} => ~Enveloped
  /\ \E r \in Reasons \cup {None} :
       /\ backend \in {"claude", "grok"} => r # None
       /\ Emit(Line("failure", IF backend = "opencode" THEN at ELSE None,
                     None, r, None))
       /\ why' = IF r = None THEN why ELSE r
  /\ failed' \in IF backend = "codex" THEN {failed, TRUE} ELSE {TRUE}
  /\ UNCHANGED <<names, said, published>>

(* Claude runs without the tools its permission mode asked for. *)
RunWithoutTools ==
  /\ backend = "claude"
  /\ ~Enveloped
  /\ Emit(Line("degraded", at, None, "prose", None))
  /\ failed' = TRUE
  /\ UNCHANGED <<names, said, published, why>>

(* Taken of codex: after a `turn.failed` its exit code is not zero.  The   *)
(* other CLIs may report a failure and exit with zero.                     *)
Exit ==
  /\ Running
  /\ exit' \in IF backend = "codex" /\ failed THEN {1} ELSE {0, 1}
  /\ UNCHANGED <<vars, agent, given, out, at, names, said, published, failed, why,
                 result, error>>

-----------------------------------------------------------------------------
(* Time passes while a CLI runs, and while the state lock is waited for. *)
PassTime ==
  /\ Tick
  /\ pc = "run" => exit = None
  /\ UNCHANGED <<agent, given, out, facts, result, error>>

(* The turn ends in an error and leaves the agent as it was ... *)
Raise(e) ==
  /\ Fail
  /\ error' = e
  /\ result' = None
  /\ UNCHANGED agent

(* ... or in a result, whose session id is the agent's from now on.        *)
(* (Faulty variant: the order to fork stands.)                             *)
LandUnforked(turn) ==
  /\ Reply
  /\ session' = turn.session
  /\ result' = turn
  /\ error' = None
  /\ UNCHANGED <<backend, pending>>

Land(turn) ==
  /\ Reply
  /\ session' = turn.session
  /\ pending' = None
  /\ result' = turn
  /\ error' = None
  /\ UNCHANGED backend

(* The run outlives its grant and is killed; its output goes with it. *)
Expire ==
  /\ Running
  /\ now = until
  /\ Raise(TimedOut)
  /\ out' = <<>>
  /\ UNCHANGED <<given, facts>>

(* Agent.talk: what the adapter raised, a fork that did not happen, or a   *)
(* turn.  (Faulty variant: whatever id is reported is stored.)             *)
KeepAnyId ==
  /\ pc = "run" /\ exit # None
  /\ IF run_turn.error # None THEN Raise(run_turn.error) ELSE Land(run_turn)
  /\ out' = <<>>
  /\ UNCHANGED <<given, facts>>

Collect ==
  /\ pc = "run" /\ exit # None
  /\ \/ run_turn.error # None /\ Raise(run_turn.error)
     \/ run_turn.error = None /\ run_turn.session = pending /\ Raise(NoFork)
     \/ run_turn.error = None /\ run_turn.session # pending /\ Land(run_turn)
  /\ out' = <<>>
  /\ UNCHANGED <<given, facts>>

(* The turn is recorded, unless the agent was deleted meanwhile. *)
Record ==
  /\ Persist
  /\ IF pc' = "gone" THEN error' = Gone /\ result' = None
     ELSE UNCHANGED <<result, error>>
  /\ UNCHANGED <<agent, given, out, facts>>

Valid == ~schema \/ result.structured = "good"

Return ==
  /\ Satisfied
  /\ Valid
  /\ UNCHANGED <<agent, given, out, facts, result, error>>

(* To be repaired, or the end of it: no retry or no time is left. *)
Reject ==
  /\ Rejected
  /\ ~Valid
  /\ IF pc' = "invalid" THEN error' = Invalid /\ result' = None
     ELSE UNCHANGED <<result, error>>
  /\ UNCHANGED <<agent, given, out, facts>>

CliStep ==
  \/ Noise \/ Tip \/ Name \/ Message \/ TextPart \/ Envelope \/ ReportFailure
  \/ RunWithoutTools \/ Exit

TurnDone == Done /\ UNCHANGED turnVars

TurnNext ==
  \/ Talk \/ Repair \/ CliStep \/ PassTime \/ Expire \/ Collect \/ Record
  \/ Return \/ Reject \/ TurnDone

TurnSpec == TurnInit /\ [][TurnNext]_turnVars

-----------------------------------------------------------------------------
Replies == UNION {[lines -> Texts] : lines \in SUBSET (1 .. MaxLines)}

Results ==
  [error: {None}, session: Sessions, reply: Replies,
   structured: {"good", "bad", None}]

(* Values stay in their ranges, and an agent has a session or a source     *)
(* still to be forked from but never both.                                 *)
TurnTypeOK ==
  /\ backend \in Backends
  /\ session \in Sessions \cup {None}
  /\ pending \in Sessions \cup {None}
  /\ None \in {session, pending}
  /\ schema \in BOOLEAN
  /\ argv \in [resume: Sessions \cup {None}, fork: BOOLEAN, document: BOOLEAN]
  /\ out \in Seq(Lines) /\ Len(out) <= MaxLines
  /\ exit \in {None, 0, 1}
  /\ at \in Sessions \cup {None}
  /\ names \subseteq Sessions \cup {None}
  /\ published \in {"good", "bad", None}
  /\ failed \in BOOLEAN
  /\ why \in Reasons \cup {None}
  /\ result \in Results \cup {None}
  /\ error \in Errors \cup {None}

(* The state after the CLI has ended and its turn was read. *)
Read == exit # None /\ pc # "run"

Spoken == [i \in DOMAIN said |-> said[i].text]

Forked == argv.fork => at # argv.resume

(* A turn that the CLI finished, and said under which id, comes back whole *)
(* and in order, whatever else was printed around it, and the agent goes   *)
(* on in that conversation, even if the reply is rejected.                 *)
AnswerIsKept ==
  Read /\ exit = 0 /\ ~failed /\ names = {at} /\ Forked =>
    /\ session = at
    /\ error \in {None, Invalid, Gone}
    /\ error = None => result.reply = Spoken

(* A turn that failed, by its exit code or by what the CLI reported, is    *)
(* raised and never returned as a reply, with the last reason the CLI gave *)
(* when it gave one.                                                       *)
FailuresAreRaised ==
  Read /\ (exit # 0 \/ failed) =>
    /\ result = None
    /\ error = IF why = None THEN Unusable ELSE why

(* An agent changes over to a conversation only when the CLI finished a    *)
(* turn in it, never to the one it is forked from, and is never left       *)
(* without one: a next turn would start from nothing.  The order to fork   *)
(* stands until a turn landed in a conversation of the agent's own.        *)
ConversationKept ==
  [][/\ session' # session =>
          exit = 0 /\ ~failed /\ session' = at /\ session' # pending
     /\ pending' # pending => pending' = None /\ session' = at]_turnVars

(* The last object in what was said, ...                                   *)
LastObject ==
  LET holding == {i \in DOMAIN said : said[i].text # "prose"}
  IN  IF holding = {} THEN None ELSE ObjectOf(said[Max(holding)].text)

(* ... the object that is all that was said, ...                           *)
OnlyObject ==
  IF \E i \in DOMAIN said : DOMAIN said = {i} /\ said[i].text \in {"good", "bad"}
  THEN said[Max(DOMAIN said)].text ELSE None

(* ... and the object an answer comes down to.  What the CLI published     *)
(* stands for the answer, whatever the text beside it is.  A CLI that      *)
(* enforces a schema and published nothing answers with an object or with  *)
(* none: an object in prose, or one of several messages, is no answer.     *)
(* Only opencode's may sit in prose or in a fence.                         *)
Answer ==
  IF published # None THEN published
  ELSE IF enforces_schema THEN OnlyObject ELSE LastObject

(* A reply under a schema is accepted only if the object its answer comes  *)
(* down to, in this attempt, satisfies it, and rejected only if that does  *)
(* not and the model had the document before it in this very attempt.      *)
VerdictIsEarned ==
  /\ pc = "returned" /\ schema => Answer = "good"
  /\ pc \in {"repair", "invalid"} => argv.document /\ Answer # "good"
=============================================================================
