# Specifications of agents-army

agents-army drives interactive coding CLIs (Claude Code, Codex, Grok, OpenCode) as named agents.
Every invocation of `orchestrator` is a process of its own; processes meet only in the file system: a JSON
registry, lock files, team directories, and the conversations the CLIs keep behind a session id. This
directory specifies how those processes behave together, model-checks the specifications with TLC on small
instances and proves the main results for every instance with TLAPS.

Paths below are relative to `src/`.

## Inventory

| Component | State | Operations | What is hard | Correct when |
|---|---|---|---|---|
| Agent lock files (`orchestrator/core.py` `_flock`, `_is_live`, `_agent_lock`, `_reclaim_agent_lock`, `_agent_is_busy`) | one file per agent under `<state>.locks/`, flocks held by inode | talk and chat own an agent; delete and a failed talk unlink the file; list probes it | lock is on an inode, agreement is on a path; the file is unlinked under waiters; inode numbers are reused; processes die | one owner per agent; the owner's file stays in place; waiters end |
| Registry (`core.py` `Orchestrator`, `_AgentRecord`, `Agent.talk`) | `orchestrator_state.json`, its `.tmp` and `.lock`; per agent: backend, session id, pending fork, counters | create, ensure, fork, talk, delete, chat | reload under lock, long CLI run between two lock sections, crash between write and rename, readers without lock, sessions shared by accident | no lost update, no session with two drivers, a fork happens once, no deadlock |
| Validated turn (`core.py` `_validated_turn`, `_turn`) | deadline, attempt count, position of the conversation | attempt, persist, validate, repair | the deadline races the reply, the wait for the state lock and the rounding of timeouts | bounded cost, no repair after the budget, recorded position never stale |
| Streaming turn (`backends/base.py` `_run_streaming_cli_turn`) | three pipes, two decoders, a child process | select, read, write, wait, kill | full pipes both ways, split characters and line ends, hanging or closing child, descendants that keep pipes | whole text, no pipe deadlock, deadline kept, child reaped |
| Teams (`orchestrator/cli.py` `_resolve_team`, `_team_locked`, `_teardown_team`, `main`; `teams.py`) | `<team>/agents/`, `<team>/worktree/`, `<team>/.lock` | every command under a shared lock, teardown under an exclusive one | checks before the lock, crash half way through rmtree, fabricated directories | no teardown around a command, everything left can be torn down, no stray team |
| Team discovery and naming (`teams.py` `discover`, `resolve`; `cli.py` `_resolve_team_root`, `_print_teams`) | none (reads a tree that git, commands and users change) | walk, reach by name, list | two walks with different stops, half made teams, overlapping roots, teams in checkouts | finds what it documents, a name is never redirected, what is reachable is listed |
| Runtime paths (`paths.py`) | none | environment ladders | precedence | documented precedence |
| Reply schema (`schema.py`) | none | load, enforce, validate, repair prompt | strict subset of JSON schema | a reply is rejected only for cause |
| Skills (`skills.py`) | none | find and attach skill texts | duplicates, missing files | wording |
| Backend adapters (`backends/{claude,codex,grok,opencode,registry}.py`) | none | build argv, parse envelopes | event order, missing ids, error envelopes, tips and repeated parts around the answer | the answer comes back whole, a failure is raised in the CLI's words, the agent stays in its conversation |
| CLI front end (`cli.py`), doctor (`doctor.py`) | none | parse, print | usage errors | wording |
| Mutation cache (`tools/mutation_cache.py`, the `mutation` recipe and job) | `mutants/`, its stats, the recorded digest, the caches hosted jobs publish | check, drop, measure, gate, record, restore, publish | runs stopped anywhere, edits and reverts between and during runs, caches of other commits | a gate counts only verdicts of the tree it is about |
| Other quality gates (`tools/*.py`) | baselines on disk | compare, record | bypassed baselines | never accept what was not measured |
| Workflow driver (`examples/gabriels_workflow_v5/go.py` `plan`; older shell versions in v3, v4) | labels, splits and briefs on the issues, the queue, the agents forked for one issue | triage, split, debate, brief, discard | labels set by agents and by earlier calls, trees with repeated or cyclic children, refused forks, crashes | the whole tree is settled and briefed, no agent carries one issue into the next |
| Workflow driver (`go.py` `build`) | the pull request, its head and label, a clone, the CI lock, the last CI run | implement, bring up to date, gate, review, respond | agents and other runs act between two reads, master moves, crashes and further calls | CI and the reviewer see the pushed commit, exit 0 means gated |

The interactions: `cli.main` resolves a team and takes the team lock, then builds an `Orchestrator`, which
takes agent lock before state lock and calls a backend adapter; the adapter runs its CLI through
`backends/base.py`; the workflow driver calls the `orchestrator` command.

PROJECT.json lists every component with its status, every hazard at its line with the properties that cover
it, and for each definition the lines it stands for.

## The modules

In the order in which they were written, the most important behaviour first:

| Module | Abstracts to | Proofs | Runs |
|---|---|---|---|
| AgentLock | TurnOwner | AgentLockProofs | agent_lock |
| Registry | AtomicRegistry | RegistryProofs | registry, deleted_during_turn |
| ValidatedTurn | | TurnProofs | validated_turn |
| StreamingTurn | | StreamingTurnProofs | streaming_turn |
| TeamTeardown | | TeamProofs | team_teardown |
| MutationCache | | MutationCacheProofs | mutation_cache, reverted_inputs |
| TeamSearch | | TeamProofs | team_search |
| WorkflowBuild | | WorkflowBuildProofs | workflow_build |
| WorkflowPlan | | WorkflowPlanProofs | workflow_plan |
| BackendTurn | ValidatedTurn | TurnProofs | backend_turn |

`MC<Module>` gives a module its values for TLC. The layers meet at their promises: AgentLock shows that an
agent's lock file gives the agent one owner at a time, and Registry takes that as its `owner`. Registry lets
a turn report or fail at any time; StreamingTurn shows that a turn returns the whole reply or raises, and
ends by its deadline; BackendTurn takes what it returned and shows what the adapters make of it, and what
Agent.talk keeps; it is composed with ValidatedTurn, which bounds the turns of one call and leaves to chance what
BackendTurn says of a reply. TeamTeardown's `agents/` is the directory
that holds Registry's file and AgentLock's lock files, which is why a teardown around a running command would
break both; TeamSearch shows how a command comes to that directory. The workflow driver is a client of all of
this: WorkflowPlan's agents are Registry's entries and its forks Registry's pending forks, and a turn of
WorkflowBuild or WorkflowPlan, which ends or fails, is what StreamingTurn shows a turn to be.

Definitions whose comment calls them a *faulty variant* are the mistakes the properties are meant to catch.
No specification uses them; PROJECT.json names, for every property, the variant that breaks it.

### AgentLock and TurnOwner

One agent name and its lock file. `path` is the inode the file name stands for, `fd[p]` the inode a process
has open; which process holds a flock follows from its program counter. `open`, `flock`, the stat of
`_is_live`, `unlink` and `close` are steps of their own: `Open`, `Grant`/`Refuse`, `Validate`, `Unlink`,
`Unlock`. `Retry` is the loop of `_flock` that closes a dead inode and opens the path again. `Pop`, `Check`,
`Unlink` are `delete` with `_reclaim_agent_lock`; `Lookup`, `Launch`, `EndRun`, `Record` are what `talk` and `chat`
do with the lock, with their `AgentNotFoundError` branches that reclaim the file; `Probe` is
`_agent_is_busy`. `Lookup` and `Record` are sections under the state lock; the CLI run they clear starts after it
has been released, in the step `Launch`, and a delete may come in between. An inode number is reused as soon as no process has it open. `Crash` kills a process
anywhere.

TurnOwner is the promise: an agent has at most one owner, the owner changes only through nobody, and a CLI
run starts only under an owner and uses up one lookup, made in that ownership, that found the agent registered.
It does not say that the agent still is when the run starts: `delete` asks no owner, so an agent deleted after
the lookup gets that one run, whose result is refused by `Record`, and no other.

### Registry and AtomicRegistry

The registry file, its temporary file, the state lock and the agent locks, and for each process its own copy
of the registry (`mem`) and the `Agent` object it keeps over a CLI run (`agent`). A command is
`Begin`, its locks (`TakeAgent`, `TakeState`), its decision on the reloaded file (`Create`, `Fork`, `Delete`,
`Lookup`, `Record`), `_persist` in two steps (`WriteTmp`, `Swap`), and `Free`. `EndTurn` is what `Agent.talk`
makes of the session id the CLI reports: none, the resumed one, one of its own, or, after a fork, the id it
was to copy, which is refused. `orphan` is a history variable: it only records that the agent a process works
on was deleted. A record's model, effort, timestamps and turn counter do not enter a decision and are left
out; so is `_load_state_file`'s refusal of a registry that does not parse, which no step here produces.

AtomicRegistry is the promise to readers, who take no lock: the file goes from one whole registry to the
next, one entry at a time, by a rule of what it held right before.

### ValidatedTurn

One `talk --schema` call. The clock has `R` ticks a second; `Launch` grants what is left of the budget rounded
up to whole seconds and at least one, as `core.py:681` does. Time passes while the CLI runs and while the
state lock is waited for. What a reply must satisfy is a free choice here (`Satisfied` or `Rejected`), which
BackendTurn makes.

### StreamingTurn

The orchestrator's select loop and a child that uses its pipes in any order, blocks on them, closes them,
exits, dies or hangs, and may leave a descendant with the pipes. stdout is modelled to the byte, since the
decoder's state crosses reads; stderr runs through the same code and is counted in pipefuls, like the prompt.
The decoder is Python's incremental character decoder under its newline decoder. A text is kept as the sequence of
what each byte adds to it, the empty string for the first byte of a character and for the line feed of a CR LF:
`Characters` and `Newlines` then work position by position, and only a carriage return or half a character
at the end of a chunk crosses to the next. Two things that the model
shows and that nobody promised otherwise: the loop waits for the end of the pipes, not of the child, so a
descendant that keeps them holds a finished turn to its deadline and is not killed; and a last line without a
line end is in the result but is never displayed.

### TeamTeardown

One team directory. `Begin` is the gate of `_resolve_team`, with the two ways to find a team, `Lock` is
`_team_locked` (shared for all verbs but teardown, exclusive without waiting for teardown), `Read` the constructor,
`TakeLock` and `Persist` what a command does inside, `RemoveEntry` the `rmtree` of `agents/`, entry by entry.
Not covered, because nothing in the code guards it: the worktree may go between the check and the run, a user
may `rm -rf` the directory, `AGENTS_ARMY_STATE_FILE` reaches a team's registry without its lock, and
`list teams` reads without any.

### TeamSearch

A directory tree, paths being sequences of segments. `Walk` is `_walk`, which reads the directories of `Entered`,
level by level down to SEARCH_DEPTH and none below a stop (the code goes depth first, and sorts what it finds); `Discover` and `Resolve` its two uses
with their different rules of what is a hit and what ends the descent, `Reached` is how `--team` comes to a
directory with and without `AGENTS_ARMY_TEAMS_DIR`, `Listed` what `list teams` prints. `Create`,
`DeleteAgent` and `Teardown` change the tree the way the commands do, and only where a name reaches. A walk
is one step: it holds no lock in the code and so may miss what changes while it runs. Symbolic links, which
the walk never enters, and unreadable directories, which it skips, are left out.

### MutationCache

`make mutation`: the tree (files, functions, the frame of everything else that is hashed, and the three lists
of `mutation_cache.py`), mutmut's copy of it, its verdict per function with what it was measured under, the
exported stats, the recorded digest, and the caches published by hosted jobs. `RefuseTree`, `Check`, `Drop`
and `Record` are `main()`; `Copy`, `Measure` and `Export` are mutmut as the recipe uses it, and external. A
verdict is current when the body, the tests that decide it and the rest of the hashed inputs are those of
the tree at hand. Check C (two lists of `pyproject.toml` agree) does not interact with the rest and is left
out; an exclusion's reason is taken to be true (`Harmless`); that mutmut also keeps a function that produced
no mutants is documented in the tool and not modelled.

### WorkflowBuild

One call of the driver on an issue that planning has converged, up to an approved pull request
(`go.py` `build`). GitHub is `pr`, `approved`, `head`; the clone is `tree` (its HEAD), `dirty` and `fetched`
(its origin/master). A commit is its number and the master it contains, which is all that the stale-base gate
tells apart. The driver's program counter follows the code:

- `Call`: the run lock, the routing on labels, the fresh clone (exit 5 when it cannot be set up).
- `FindDraft`, `OpenDraft`, `Poll`, `Checkout`: the draft pull request, found or made by spectacle (exit 2).
- `Implement`, `SelfReview`, `IsDraft`: devin's two turns; exit 6 when the pull request is still a draft, exit 8
  when work is uncommitted or unpushed (`require_pushed`).
- `IsCurrent`, `MergeMaster`, `Conflict`, `Resolve`, `Resolved`: `sync_with_master`, called from four places; `site`
  says from which, `AfterCurrent` and `AfterMoved` where build goes on (exit 10 when master moved once more).
- `ReadHead`, `TakeLock`, `MakeCi` with `Green` and `Red`, `Repair`, `Repaired`: `run_make_ci` and `ci_gate`: the
  head is read before the machine-wide lock is waited for; one repair, then exit 7.
- `Review`, `Respond`, `Responded`: three rounds (exit 3); a pushback without a commit goes straight back.
- `UserNote`, `Cleanup`: exit 0.

What devin's turn leaves (`DevinWorks`) is a free choice: a commit or none, with or without master, pushed or not,
a clean tree or not. `MasterMoves`, `OtherTakes` and `OtherReleases` are other runs and people; `Redraft` is the human who
sends a ready pull request back, without which the next call finds no draft. `Crash` is a failing command or
a kill at any point.

### WorkflowPlan

One call of the driver on an issue that has not converged (`go.py` `plan`, `debate_issue`, `fork_primer`,
`discard_forks`). The labels of every issue are all that outlives a call. `Take` and `QueueEmpty` are the walk
with its cap, `Triage` and `Split` owen's verdict and the CHILDREN line it comes with, `Debate`, `RejectReview`,
`Proposal`, `Stance`, `Critique`, `Rebuttal`, `Final`, `Brief` the debate, each branching on the labels as it reads them
after the turn. `Turn` is `fork_primer` with the talk that follows: it keeps the names it has handed out
(`forks`) apart from the agents that exist (`team`), since the code deletes by the one and talks by the
other; an agent is a fork, a fresh one, or one made by a talk that gave no backend. `Discard` ends the
driver when a name it handed out has no agent. A turn sets a label its prompt allows, or none; `Unblock` is
the human between two calls.

### BackendTurn

One agent and a `talk` command through each of the four adapters, composed with ValidatedTurn: the loop, its
counts and its clock are that module's, and each action here that moves the call is one of its actions with its
free choice made (`Launch` is `Talk` or `Repair` with a prompt, `Fail` and `Reply` are what `Collect` reads,
`Persist` is `Record`, `Satisfied` and `Rejected` are `Return` and `Reject`). A call without a schema is the one
turn that always satisfies. The CLI is external: it works in a
conversation (`at`), its model says things (`said`), it may report failures (`failed`, `why`), and it prints
lines, `Noise` and `Tip`s among them, and exits. The adapters see the lines and the exit code only; the properties
compare what comes out of `claude`, `grok`, `codex` and `opencode` (one operator for each `run_turn`) with what
the CLI did. `Collect` is Agent.talk: the id it keeps, the fork it refuses; `Expire` is a run killed at its grant. `compose_schema_prompt` and
`repair_prompt` are the prompts, as sets of the things they tell.
A reply, and what was said, is a function from positions to texts: an envelope's only text is at 1, a message's at
the number of the line that first had it, which keeps the order and lets the properties compare the two.
A text is prose, a JSON object that satisfies the schema or breaks it, or a good object with a fence or prose around
it; what the adapters do with it (parse it whole, find the last object in it) is modelled for those four. Each line
is printed and read whole.

Any CLI may say any of these under a schema, in any number of messages, and claude and grok may publish any object
beside any text (`published`): the adapters meet an object in prose (`tests/test_backend_codex.py:300-310`) and prose
beside an object (`tests/test_backend_claude.py:391-422`, `tests/test_backend_grok.py:364-393`). `Answer` says what
such a reply comes down to by the comments of `structured_reply` and `_embedded_object`: the published object
has the say, whatever the text is; without one the reply is an object or is no answer, so that prose around
an object, or a second codex message, gets the reply rejected; only of opencode does the last object count wherever it
sits. VerdictIsEarned holds the verdict of a call against it.

Taken of the CLIs, as the comments and tests of the adapters have it: claude and grok print one envelope and, around
it, nothing that has an envelope's marks; opencode names the session in every event but a malformed one; any error
event of opencode is a failure (`tests/test_backend_opencode.py:251`), an `error` of codex may be recovered from
(`codex.py:142-144`) while its `turn.failed` is final (`codex.py:44-47`) and is followed by an exit code that is not zero
(`Exit`; so in `tests/test_backend_codex.py:361-393`). The adapter reads the exit code alone: were codex to exit
0 after a `turn.failed`, its turn would be returned. A claude run that exits 0 without a result event comes back
with an empty reply.

## The runs

| Run | Instance | Shows |
|---|---|---|
| agent_lock | 2 processes, 3 inodes, 3 attempts, fair | TurnMutex, ImplementsTurnOwner, CommandsEnd |
| registry | 2 processes, 2 names, 5 sessions, symmetric | SessionsDistinct, OneDriverPerSession, RegistryAgrees, NoWaitCycle, ImplementsAtomicRegistry, ForkKeptUntilMade |
| validated_turn | 3 ticks a second, budgets 1, 2, 4 s, retries 0, 1, 3, waits to 4 ticks | RunsWithinBudget, PositionRecorded, NoLateRepair |
| streaming_turn | 3 texts, pipe of 2 bytes, 2 pipefuls of stderr, prompt of 0 or 2 | TypeOK, ResultIsWhole, ChildIsReaped, DeadlineEnforced, WillingChildIsServed |
| team_teardown | 3 processes, symmetric | RegistryStays, AlwaysRemovable, NoStrayTeam |
| mutation_cache | 2 tests (one harmless), a helper, a fixture, 2 functions, 2 versions, 3 edits | HostedVerdictsAreCurrent, NothingLeftOut, StatsOfTheseVerdicts |
| team_search | 4 places, a team in a checkout, 3 environments, depth 3 | TreeTypeOK, DiscoverIsDocumented, ReachableIsListed, NeverRedirected |
| workflow_build | 2 calls, 2 merges to master, 5 commits, fair | CiIsAuthoritative, ReviewerReadsItsLog, DoneIsGated, CallsEnd |
| workflow_plan | 3 issues, 4 possible splits, a cap of 4, 2 calls, fair | NothingBleeds, TreeIsPlanned, AgreedIsBriefed, PlanEnds |
| backend_turn | 4 backends, 2 conversations, 1 retry, a budget of one tick, 3 lines per run, symmetric | TurnTypeOK, AnswerIsKept, FailuresAreRaised, VerdictIsEarned, ConversationKept |
| deleted_during_turn | 2 processes | violation, see below |
| reverted_inputs | one developer, 2 edits | violation |

Why the bounds are enough:

- *agent_lock*: the smallest dangerous history is an owner that unlinks the file, a waiter that has the old
  inode open, and a command that makes the new file. The owner becomes that third command after it has
  closed the file, so two processes are enough. Each has at most one inode open and the path names at most
  one more, so three inodes never run out. A waiter must survive a dead inode, meet another, and give up at
  last; the code's 100 attempts differ from 3 only in number. The safety proofs hold for every number
  of processes, inodes and attempts.
- *registry*: an update is lost between two writers. Five sessions let two entries, two Agent objects and a
  fresh report be all different; a session that nothing refers to is reused.
- *validated_turn*: a grain of a third of a second makes a grant round up by every possible fraction;
  `timeout` and `MaxWait` are large enough for three repairs and for a wait that outlasts the budget. The
  proofs cover the rest.
- *streaming_turn*: the texts put a two-byte character and a CR LF where a pipe of two bytes cuts them at
  every place, and one text cannot be decoded. Two pipefuls are one more than a pipe holds, so each side blocks.
- *team_teardown*: two commands and a teardown, or two teardowns and a command.
- *mutation_cache*: a verdict goes wrong through an edit, a run, and the edit's revert; a third edit lets two
  different inputs change in one history.
- *team_search*: a flat team, a namespace that becomes a team itself, a team below it, and one outside the
  root; SEARCH_DEPTH is 4 in the code and 3 here, where a team in the checkout of the namespaced one is one
  level too deep and those in the other checkouts are not. The configured directory is above the root or in
  it; one elsewhere shares nothing with the walk of the root.
- *workflow_build*: master must move once to make a branch stale and once more to make the merged branch stale
  again (exit 10). The second call meets what the first left: a label, a draft, a head that is not gated.
  MaxCommits ends what devin adds once five commits are on the branch, the empty one of the draft and the driver's
  merges counted; the merges themselves are bounded by MaxMaster.
- *workflow_plan*: a child list may name two leaves, one leaf twice, the root (a cycle), or be unreadable. The cap
  of 4 is reached by repeated children and not by a tree of three issues; the code's is 12. The second
  call starts from whatever labels the first left at its crash. Deadlock is not checked in this run: a root
  that has converged, or the last call, is where planning really stops.
- *backend_turn*: three lines are an answer with something before and after it, a text part, another and the first
  again, two failures and an answer. Two conversations tell the agent's own from another, or a fork from its
  source; the call starts from every kind of agent a call before it may have left: new, to be forked, with a conversation.
  One tick is enough for a run to be killed at its grant and for a repair to come too late; the clock's own
  questions are those of validated_turn. VerdictIsEarned has two mutants, a repair prompt without the document and a text
  preferred to the published object. The proofs cover every number of lines, conversations and retries.

### Fairness

Safety properties use none. `AgentLock.FairSpec` assumes that a running command goes on (every CLI run
is killed at its timeout, retries run out, a chat ends when its user leaves), that the kernel does not pass
over a blocked flock for ever, and that a validated turn is not rejected for ever; nobody is made to start a
command. That is not enough by itself: `list` probes with a shared lock, and with two other processes
whose probes overlap without end a blocked talk is never granted the exclusive one. `CommandsEnd` therefore has as
its premise that again and again nobody holds the file shared. The run has two processes, where one
other process cannot overlap with itself; the premise is what the property needs beyond them. `StreamingTurn.Spec` assumes only that the orchestrator's own loop is scheduled: the child and the
clock need not move. `WillingChildIsServed` has the child's fairness, and that no descendant keeps the pipes
for ever, as its premise. `WorkflowBuild.FairSpec` lets the driver go on (a turn is killed at its timeout, the polls
and `make ci` end), the other holder release `ci.lock`, and the kernel grant it in turn; nobody has to call, to
merge or to send a pull request back. `WorkflowPlan.FairSpec` lets the driver go on.

### What the code does not do

Two runs state what the documentation, a comment or a test says, and TLC finds a behaviour of the code
that breaks it:

- `deleted_during_turn` (TurnLandsOnItsAgent): a turn whose agent is deleted during the run fails only if
  the name is still free at its end; if the name was created anew, the turn's session is written onto the
  new agent.
- `reverted_inputs` (VerdictsAreCurrent): `mutation_cache.py` drops `mutants/` on changed inputs but keeps the
  old digest. If that run does not pass and the change is reverted, the digest matches again and the verdicts
  of the reverted inputs count. No concurrent edit is needed (`EditWhileRunning` is FALSE in this run). Hosted
  jobs, which start from a checkout, are safe: `HostedVerdictsAreCurrent`. With `EditWhileRunning`, the
  second hash taken by `--record` after the run breaks the same property in another way.

Read off the models while they were written, with no run of their own because each is certain rather than
a matter of interleaving, or breaks no promise:

- A lock file that delete leaves to the turn in flight (`core.py:749-759`, `docs/cli-reference.md:346-348`) stays
  for good when that turn fails, times out or is killed: only the branches that meet `AgentNotFoundError` reclaim
  it, and no later delete of the missing name gets that far.
- `resolve` compares tails and has no preference for a whole path (`teams.py:166`), so a flat team `issue-1` beside
  `repo/wf/issue-1` has no name that reaches it, and the refusal suggests the refused name again
  (`cli.py:760-766`).
- `list agents` takes any exclusive holder of an agent's lock file for a turn, and a delete that is reclaiming the file
  is one for a moment (`core.py:756`), against the comment at `core.py:818-822`.
- "A validated turn can never cost more than a plain turn" (`README.md:219-221`) holds up to the rounding of the
  last grant, less than a second (RunsWithinBudget).
- A planning call that dies between an issue's agreement and its brief loses the brief: the next call
  skips what has converged (`go.py:307`). AgreedIsBriefed is therefore about one call.
- Planning exits 0 whatever came of the debates; `flow.md:82` has exit 1 for issues that did not converge.
- Spectacle's veto of a rejection is the removal of a label; when the call dies before the debate that follows
  has begun, the next one triages the issue anew and nothing remembers the veto (`go.py:249-254`).
- `make ci` runs on the master of the last fetch. Master that moves while it waits for the machine-wide lock, or
  runs, is not looked at again, while `flow.md:79` has the stale-base gate guarantee a branch with the current
  `origin/master` and `go.py:424` calls the gate authoritative for that. CiIsAuthoritative and DoneIsGated are about
  `fetched`, the last fetch.
- A label `reviewer-approves` of an earlier call is taken for this call's approval, whatever has been pushed since
  (`go.py:470-475`); DoneIsGated asks for a gated head, not for an approval of it.
- An agent that is deleted between talk's lookup and its CLI run (`core.py:541-547`), or between two attempts
  (`core.py:628-644`), still gets that run, on the session it had; the result is dropped.
- `flow.md:64-68` puts the label `reviewer-approves` behind the second stale-base gate. The reviewer's turn sets it
  before that gate (`go.py:485-498`) and nothing takes it off, so a call that the gate ends (exit 7, 8, 10: in
  WorkflowBuild, `pc = "ended"` with `approved`) leaves an approved head on which no `make ci` has passed, and the
  approval meets the next call's first review. What exit 0 promises does hold: DoneIsGated.
- An issue whose pull request has left its draft state cannot be built again: `find_draft_pr` sees drafts only
  (`go.py:336`), GitHub refuses a second pull request of the branch, and the call ends with exit 2, against the
  reuse described at `flow.md:76`.
- `list agents` looks for the lock file and then opens it with `a+` (`core.py:829`): a reclaim in between makes the probe
  create the file again. An empty file that nobody locks is all that is left, and the next command reuses it.
- A fork records the source's session id when it is made and resumes it at its first turn (`core.py:489`), when the
  source may have another id; whether the old one still names a conversation is the backend's business.
- The run lock of the workflow driver is the called issue's (`go.py:549`), while planning walks its children: a call on
  a child can debate it at the same time. `flow.md` leaves it to the caller to call independent issues only.
- codex's parser calls `event.get` on whatever a line of JSON is (`backends/codex.py:213-226`): a line that is
  JSON but no object raises AttributeError and not the TurnError of the other adapters.

## The proofs

TLAPS proves the following for every value of the constants that satisfies the modules' assumptions. Each
proof shows that `Init` implies an inductive invariant `IInv`, that every action keeps it, and that it implies
the property.

- **AgentLockProofs**: TypeOK, TurnMutex, OwnerKeepsPath, and that AgentLock implements TurnOwner. Mutual
  exclusion is not inductive. It follows from what flock guarantees on one inode (FlockCompatible) and from
  OwnerKeepsPath: all owners have the inode that the path names. OwnerKeepsPath survives an unlink because the
  unlinker is an owner, hence the only one; it survives a re-creation because a path that names nothing has no
  owner. OpenFiles and Roles say what a program counter implies.
- **RegistryProofs**: TypeOK, SessionsDistinct, OneDriverPerSession, RegistryAgrees, ForkKeptUntilMade,
  NoWaitCycle, and that Registry implements AtomicRegistry. IInv has the two locks read both ways (StateLock,
  AgentLocks), what a writer prepared (Prepared: its copy is one command away from the file of this moment,
  which only it may change), Agrees, ForksSound, Moved (a turn about to be recorded has the
  conversation it found or made the fork it found pending), and OneClaim: a session
  belongs to at most one name, counting the file, the copies being written and the Agent objects at work.
- **TurnProofs**, of ValidatedTurn: TypeOK, RunsWithinBudget, CallBounded, PositionRecorded, NoLateRepair. The kernel is
  GrantRoundsUp: a grant rounded up to seconds ends less than a second after what is left of the budget. NoLateRepair
  follows from what IInv says of a repair that is due (Counts, Clock): it still has a retry and some of the budget.
- **TurnProofs**, of BackendTurn: TurnTypeOK, AnswerIsKept, FailuresAreRaised, VerdictIsEarned, ConversationKept, and
  that BackendTurn implements ValidatedTurn, so that every theorem of that module holds of it (TalkKeepsTheBudget). None
  of the three invariants is inductive, since they speak of a run that has been read. Printed says for a run not yet
  read what its lines have to do with what the CLI did: EnvelopeFacts (at most one envelope, and it says what the
  model said), CodexFacts and OpencodeFacts (the messages among the lines are what was said, nothing is published, and the last reason among
  them is the last given). For each adapter there is one lemma that it reads well whatever satisfies those
  facts (ClaudeReadsWell, GrokReadsWell, CodexReadsWell, OpencodeReadsWell) and one that a further line keeps them
  (EnvelopeStep, CodexStep, OpencodeStep). Landed carries what was read to the verdict, Told what the prompts told.
- **TeamProofs**, of TeamTeardown: TypeOK, RegistryStays, TeardownIsComplete, AlwaysRemovable, NoStrayTeam, from
  TeamLock (a teardown that has the lock is alone) and InTheDirectory.
- **TeamProofs**, of TeamSearch: TreeTypeOK, DiscoverIsDocumented, ReachableIsListed, NeverRedirected, for every root,
  set of places, checkouts, names and depth. TreeTypeOK is inductive once it is read as IsTree (a path is there with all
  its prefixes). The lemma WalkFinds gives what a walk finds without the walk: the hits down to the depth with
  no stop between the start and them; the three properties compare such sets. WalkFinds goes over the
  levels (LevelsExist, LevelIs), by induction on their number.
- **MutationCacheProofs**: TypeOK, CachesAreMeasured, HostedVerdictsAreCurrent, NothingLeftOut,
  StatsOfTheseVerdicts. The lemma DigestDetermines says that the digest of a tree that passes the checks
  determines whatever else a verdict depends on; Sound carries that through a hosted job step by step.
- **StreamingTurnProofs**: TypeOK, ResultIsWhole, ChildIsReaped, and two facts that are not properties of a run: a turn
  that returns has read everything ever written to its child's outputs (AllIsRead), and no child is killed for its
  time before the deadline (NotBeforeDeadline). AllIsRead needs ReaderInv: what select reported is still there at the
  read, and a pipe that is no longer read is empty and has no writer left, the child's descendants included.
  ResultIsWhole adds SpeechInv (what was said is what was read, then what is in the pipe) and DecoderInv: the text
  so far, with the carriage return and the half character that the decoder holds, is what decoding all the bytes
  read so far at once would give. It is kept because decoding commutes with cutting: CharactersJoin and
  NewlinesJoin say what the two decoders make of two pieces, AcceptsWell and Chunk that the incremental decoder
  makes the same of them in turn, OpenEnd and WellFormedJoin that it refuses what the whole would be refused for.
- **WorkflowBuildProofs**: TypeOK, CiIsAuthoritative, ReviewerReadsItsLog, DoneIsGated, for any number of calls, merges
  and commits. None is inductive: IInv says for every point of build() which part of Gated holds by then
  (CloneInv: the clone is pushed and clean from the check to the next turn; CiInv: what the last CI run
  names, ran on and found; ApprovedInv: past the review the label is set).
- **WorkflowPlanProofs**: TypeOK, NothingBleeds, TreeIsPlanned, AgreedIsBriefed, for any issues, child lists, cap and number of
  calls. WalkInv and AgentInv tie the program counter to the handed-out names and the agents; LabelInv says what a
  branch may conclude from labels that any turn may set; BriefInv separates this call's agreements from earlier
  ones; TreeInv says that every issue of some set S is settled and that what the splits of S list is
  in S, queued or at hand, which closes S when the queue is empty.

Assumed, besides the named assumptions on constants: that an agent lock has one owner (Registry; AgentLock
proves it of the lock files), and what the external definitions in PROJECT.json say of the kernel, git,
mutmut and the CLIs. A CLI's session ids in particular are taken to be new when they are not the resumed one.

The library's induction theorems take an operator as a parameter, which the provers cannot instantiate. Where a
proof needs induction over data (the lines of a run, the levels of a walk) it takes the least number of a set
instead: LeastNat in TurnProofs and TeamProofs, from the library's theorem that `<` is well-founded on Nat.

Only model-checked: CommandsEnd, DeadlineEnforced, WillingChildIsServed, CallsEnd and PlanEnds (liveness is beyond
the prover). Every other property of a passing run is a theorem.
Proved and not among the runs' properties, because a proof for every value says more:
OwnedPathStable, CallTimeBounded, TeardownCompletes, PublishedCachesHold, and the type invariants of AgentLock,
Registry, ValidatedTurn, TeamTeardown, MutationCache, WorkflowBuild and WorkflowPlan.

## Not modelled

- Of the CLI adapters: the display of streamed events (`format_event`), the interactive `chat_argv`, model and effort
  flags, the table of backends; of the plain turn, `subprocess.run` itself and the wording of its errors.
- Of `schema.py`: loading a schema file and the strict subset it must keep, pure functions of a document.
- `skills.py`, `doctor.py`, the argument parser and the printing: reading and wording. `paths.py` beyond what
  TeamSearch uses of it: precedence of environment variables.
- The other gates of `tools/`: comparisons of two files by one process.
- The shell versions of the workflow driver in v3 and v4, which v5 replaces; the installer.
- A turn that outlives its orchestrator. An orchestrator killed outright leaves its CLI child running while the kernel
  drops the agent lock, so that the next turn can overlap with the orphan, and a workflow call can remove the
  team of one. AgentLock, Registry and WorkflowBuild end a CLI run with its process, which no
  document promises.

## What is left

1. **OrphanTurn**: Registry composed with a CLI child that outlives its orchestrator (`backends/base.py:347`), to say which of
   Registry's properties need the child to die with its parent.
2. **ReplySchema**: the strict subset of `schema.py` over bounded documents against a reference definition.
3. **RatchetGate**: baselines that may only improve, over a history of commits.
