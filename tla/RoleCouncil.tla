----------------------------- MODULE RoleCouncil -----------------------------
(***************************************************************************)
(* The role-separated debates of advanced_research.py and role_council.py  *)
(* beside the plain councils of scanner.py, over the one module variable   *)
(* providers.DEFENSIVE_SYSTEM_PROMPT that every provider client reads when *)
(* its task starts.  A debate asks its roles one after another; for each   *)
(* it builds a prompt from the current one, waits for _ROLE_LOCK, swaps    *)
(* the prompt in, asks the clients, and restores what it found.            *)
(*                                                                         *)
(* A prompt is the sequence of the controller directives appended to the   *)
(* base text; a directive names the debate that built it and its round.    *)
(***************************************************************************)
EXTENDS Naturals, SequencesExt

CONSTANTS
  Debates,  \* concurrent analyze_research requests
  Scans,    \* concurrent scan requests: MODEL_COUNCIL without a role
  Models,   \* the clients a council asks
  Rounds    \* roles in a debate

ASSUME RoleCouncilAssumption ==
  /\ Debates \cap Scans = {}
  /\ Rounds \in Nat \ {0}

VARIABLES
  prompt,   \* providers.DEFENSIVE_SYSTEM_PROMPT
  queue,    \* _ROLE_LOCK: its holder and, behind it, the waiters in order
  saved,    \* "original" in the holder's _trusted_prompt
  built,    \* the prompt each debate has built for its round
  round,    \* the round each debate is in
  at,       \* "idle", "waiting", "asking" or "done", of debates and scans
  unasked,  \* the clients of a council that have not yet read the prompt
  seen      \* the prompts the clients of the current council have read

roleVars == <<prompt, queue, saved, built, round, at, unasked, seen>>

Councils == Debates \cup Scans
Directive == Debates \X (1..Rounds)
Base == <<>>

RoleTypeOK ==
  /\ prompt \in Seq(Directive)
  /\ queue \in Seq(Debates)
  /\ saved \in Seq(Directive)
  /\ built \in [Debates -> Seq(Directive)]
  /\ round \in [Debates -> 1..Rounds]
  /\ at \in [Councils -> {"idle", "waiting", "asking", "done"}]
  /\ unasked \in [Councils -> SUBSET Models]
  /\ seen \in [Councils -> SUBSET Seq(Directive)]

RoleInit ==
  /\ prompt = Base /\ queue = <<>> /\ saved = Base
  /\ built = [d \in Debates |-> Base]
  /\ round = [d \in Debates |-> 1]
  /\ at = [c \in Councils |-> "idle"]
  /\ unasked = [c \in Councils |-> {}]
  /\ seen = [c \in Councils |-> {}]

\* Mutant: whoever finds the lock in use goes ahead.
LockInUse(d) == queue # <<>>

\* d holds _ROLE_LOCK.
Holds(d) == queue # <<>> /\ Head(queue) = d

-----------------------------------------------------------------------------
\* deliberate_role: _role_prompt reads the module variable before the lock.
BuildPrompt(d) ==
  /\ at[d] = "idle"
  /\ built' = [built EXCEPT ![d] = Append(prompt, <<d, round[d]>>)]
  /\ queue' = Append(queue, d)
  /\ at' = [at EXCEPT ![d] = "waiting"]
  /\ UNCHANGED <<prompt, saved, round, unasked, seen>>

\* The council has chosen its clients and created their tasks.
CreateTasks(c) ==
  /\ at' = [at EXCEPT ![c] = "asking"]
  /\ unasked' = [unasked EXCEPT ![c] = Models]
  /\ seen' = [seen EXCEPT ![c] = {}]

SwapPrompt(d) ==
  /\ at[d] = "waiting" /\ Holds(d)
  /\ saved' = prompt
  /\ prompt' = built[d]
  /\ CreateTasks(d)
  /\ UNCHANGED <<queue, built, round>>

StartScan(s) ==
  /\ at[s] = "idle"
  /\ CreateTasks(s)
  /\ UNCHANGED <<prompt, queue, saved, built, round>>

\* A client's analyze() starts: it takes the prompt as it is now.
Ask(c, m) ==
  /\ at[c] = "asking" /\ m \in unasked[c]
  /\ unasked' = [unasked EXCEPT ![c] = @ \ {m}]
  /\ seen' = [seen EXCEPT ![c] = @ \cup {prompt}]
  /\ UNCHANGED <<prompt, queue, saved, built, round, at>>

\* Mutant: the directive stays installed.
LeavePrompt == UNCHANGED prompt /\ saved' = Base /\ queue' = Tail(queue)

\* Mutant: the lock is not released.
KeepLock == prompt' = saved /\ saved' = Base /\ UNCHANGED queue

\* The "finally" of _trusted_prompt.
RestorePrompt ==
  /\ prompt' = saved
  /\ saved' = Base
  /\ queue' = Tail(queue)

NextRole(d) ==
  IF round[d] < Rounds
    THEN round' = [round EXCEPT ![d] = @ + 1] /\ at' = [at EXCEPT ![d] = "idle"]
    ELSE at' = [at EXCEPT ![d] = "done"] /\ UNCHANGED round

\* gather() has every opinion, failed ones included; the next role follows.
RoleDone(d) ==
  /\ at[d] = "asking" /\ unasked[d] = {}
  /\ RestorePrompt
  /\ built' = [built EXCEPT ![d] = Base]
  /\ seen' = [seen EXCEPT ![d] = {}]
  /\ NextRole(d)
  /\ UNCHANGED unasked

ScanDone(s) ==
  /\ at[s] = "asking" /\ unasked[s] = {}
  /\ at' = [at EXCEPT ![s] = "done"]
  /\ seen' = [seen EXCEPT ![s] = {}]
  /\ UNCHANGED <<prompt, queue, saved, built, round, unasked>>

\* deliberate() raises or is cancelled: the prompt is restored all the same.
RoundFails(d) ==
  /\ at[d] = "asking"
  /\ RestorePrompt
  /\ built' = [built EXCEPT ![d] = Base]
  /\ at' = [at EXCEPT ![d] = "done"]
  /\ unasked' = [unasked EXCEPT ![d] = {}]
  /\ seen' = [seen EXCEPT ![d] = {}]
  /\ UNCHANGED round

\* The request is cancelled while it waits for the lock.
CancelWaiting(d) ==
  /\ at[d] = "waiting"
  /\ \E i \in 1..Len(queue) : queue[i] = d /\ queue' = RemoveAt(queue, i)
  /\ built' = [built EXCEPT ![d] = Base]
  /\ at' = [at EXCEPT ![d] = "done"]
  /\ UNCHANGED <<prompt, saved, round, unasked, seen>>

\* Nothing is left to do.
Terminated == (\A c \in Councils : at[c] = "done") /\ UNCHANGED roleVars

Proceed(d) == BuildPrompt(d) \/ SwapPrompt(d) \/ RoleDone(d)

RoleNext ==
  \/ \E d \in Debates : Proceed(d) \/ RoundFails(d) \/ CancelWaiting(d)
  \/ \E s \in Scans : StartScan(s) \/ ScanDone(s)
  \/ \E c \in Councils, m \in Models : Ask(c, m)
  \/ Terminated

RoleSpec == RoleInit /\ [][RoleNext]_roleVars

\* The event loop runs every task that is ready; asyncio.Lock is first come,
\* first served; a provider call ends, by its timeout if need be.  Nothing makes a
\* council fail or a request be cancelled.
RoleFairSpec ==
  /\ RoleSpec
  /\ \A d \in Debates : WF_roleVars(Proceed(d) \/ \E m \in Models : Ask(d, m))

-----------------------------------------------------------------------------
\* Whenever nobody holds _ROLE_LOCK the clients' prompt is the base prompt:
\* debates that overlap, nest their prompts or fail leave nothing behind.
PromptRestored == (\A d \in Debates : at[d] # "asking") => prompt = Base

\* A round is answered by clients that were all given the directive of this very
\* debate and round as the last, the overriding one.
RoleReachesClients ==
  \A d \in Debates : \A p \in seen[d] :
    p # Base /\ p[Len(p)] = <<d, round[d]>>

\* Every debate ends: nobody waits for the role lock for ever.
DebatesEnd == \A d \in Debates : <>(at[d] = "done")

\* What the docstring of _trusted_prompt says: the lock "prevents one request from
\* observing another request's controller directive".
PromptIsolated ==
  \A c \in Councils : \A p \in seen[c] : \A i \in 1..Len(p) : p[i][1] = c
=============================================================================
