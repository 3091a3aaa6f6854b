----------------------------- MODULE Reminders -----------------------------
(***************************************************************************)
(* Reminders of a user: a sorted set in Redis, scanned every 30 s by every     *)
(* sub-agent, each on its own.  A due reminder is pushed to the responses      *)
(* first and taken out of the set afterwards.                                *)
(***************************************************************************)
EXTENDS Naturals, FiniteSets

CONSTANTS
  Reminders,
  Workers,    \* sub-agents
  MaxFaults   \* bound: failed pushes and removals, deaths

ConstantAssumption == MaxFaults \in Nat

VARIABLES
  added,     \* reminders made so far
  set,       \* reminders:<user>
  due,       \* those whose time has come
  hands,     \* per sub-agent: what its scan returned and it has not handled
  pushed,    \* per sub-agent: the one pushed and not yet removed
  fired,     \* history: how often a reminder was pushed
  again,     \* history: how often one was read that another held, or left pushed
  torn,      \* history: pushed, and then not removed because of a fault
  calledOff, \* history: cancelled while no sub-agent held it
  cancelled, \* history: cancelled
  faults

vars == <<added, set, due, hands, pushed, fired, again, torn, calledOff, cancelled, faults>>
history == <<fired, again, torn, calledOff, cancelled>>

TypeOK ==
  /\ added \in SUBSET Reminders /\ set \in SUBSET added /\ due \in SUBSET added
  /\ hands \in [Workers -> SUBSET Reminders] /\ pushed \in [Workers -> SUBSET Reminders]
  /\ fired \in [Reminders -> Nat] /\ again \in [Reminders -> Nat]
  /\ torn \in SUBSET Reminders /\ calledOff \in SUBSET cancelled /\ cancelled \in SUBSET Reminders
  /\ faults \in 0..MaxFaults

Init ==
  /\ added = {} /\ set = {} /\ due = {}
  /\ hands = [w \in Workers |-> {}] /\ pushed = [w \in Workers |-> {}]
  /\ fired = [r \in Reminders |-> 0] /\ again = [r \in Reminders |-> 0]
  /\ torn = {} /\ calledOff = {} /\ cancelled = {} /\ faults = 0

Fault == faults < MaxFaults /\ faults' = faults + 1
Held == UNION {hands[w] \cup pushed[w] : w \in Workers}

\* parse_remind_command refuses a time that is past.
Add(r) ==
  /\ r \notin added /\ added' = added \cup {r} /\ set' = set \cup {r}
  /\ UNCHANGED <<due, hands, pushed, history, faults>>

BecomesDue(r) ==
  /\ r \in set \ due /\ due' = due \cup {r}
  /\ UNCHANGED <<added, set, hands, pushed, history, faults>>

\* Whether due or not, and in whoever's hands.
Cancel(r) ==
  /\ r \in set /\ set' = set \ {r}
  /\ cancelled' = cancelled \cup {r}
  /\ calledOff' = IF r \in Held \/ r \in torn THEN calledOff ELSE calledOff \cup {r}
  /\ UNCHANGED <<added, due, hands, pushed, fired, again, torn, faults>>

\* reminder_delivery_loop: what is due, in one reply; it is handled one by one.
Scan(w) ==
  /\ hands[w] = {} /\ pushed[w] = {} /\ set \cap due # {}
  /\ hands' = [hands EXCEPT ![w] = set \cap due]
  /\ again' = [r \in Reminders |->
                 IF r \in set \cap due /\ (r \in Held \/ r \in torn) THEN again[r] + 1 ELSE again[r]]
  /\ UNCHANGED <<added, set, due, pushed, fired, torn, calledOff, cancelled, faults>>

Fire(w, r) ==
  /\ pushed[w] = {} /\ r \in hands[w]
  /\ fired' = [fired EXCEPT ![r] = @ + 1]
  /\ hands' = [hands EXCEPT ![w] = @ \ {r}] /\ pushed' = [pushed EXCEPT ![w] = {r}]
  /\ UNCHANGED <<added, set, due, again, torn, calledOff, cancelled, faults>>

\* Mutant: the entry stays in the set.
RemoveNothing(w) ==
  /\ pushed[w] # {} /\ pushed' = [pushed EXCEPT ![w] = {}]
  /\ UNCHANGED <<added, set, due, hands, history, faults>>

Remove(w) ==
  /\ pushed[w] # {} /\ pushed' = [pushed EXCEPT ![w] = {}]
  /\ set' = set \ pushed[w]
  /\ UNCHANGED <<added, due, hands, history, faults>>

\* The push throws, before it takes effect or after.
PushFails(w, r) ==
  /\ pushed[w] = {} /\ r \in hands[w] /\ Fault
  /\ hands' = [hands EXCEPT ![w] = @ \ {r}]
  /\ \/ fired' = [fired EXCEPT ![r] = @ + 1] /\ torn' = torn \cup {r}
     \/ UNCHANGED <<fired, torn>>
  /\ UNCHANGED <<added, set, due, pushed, again, calledOff, cancelled>>

\* The removal throws, or the sub-agent is replaced.
RemoveFails(w) ==
  /\ pushed[w] # {} /\ Fault
  /\ torn' = torn \cup pushed[w] /\ pushed' = [pushed EXCEPT ![w] = {}]
  /\ UNCHANGED <<added, set, due, hands, fired, again, calledOff, cancelled>>

Dies(w) ==
  /\ hands[w] # {} /\ Fault
  /\ hands' = [hands EXCEPT ![w] = {}] /\ pushed' = [pushed EXCEPT ![w] = {}]
  /\ torn' = torn \cup pushed[w]
  /\ UNCHANGED <<added, set, due, fired, again, calledOff, cancelled>>

Next ==
  \/ \E r \in Reminders : Add(r) \/ BecomesDue(r) \/ Cancel(r)
  \/ \E w \in Workers : Scan(w) \/ Remove(w) \/ RemoveFails(w) \/ Dies(w)
  \/ \E w \in Workers, r \in Reminders : Fire(w, r) \/ PushFails(w, r)

Spec == Init /\ [][Next]_vars

(***************************************************************************)
(* Properties.                                                             *)
(***************************************************************************)
\* A reminder is pushed once, and once more for each time a sub-agent read it
\* while another one held it or had left it behind by a fault; one that was
\* cancelled in time, or is not due, is not pushed at all; and none is lost: until
\* it was pushed or cancelled it is in the set (reminder_delivery_loop pushes, then removes).
RemindedOnce ==
  \A r \in Reminders :
    /\ fired[r] <= 1 + again[r]
    /\ r \in calledOff \/ r \notin due => fired[r] = 0
    /\ r \in added => r \in set \/ r \in cancelled \/ fired[r] > 0
=============================================================================
