--------------------------- MODULE DecisionProofs ---------------------------
(***************************************************************************)
(* Proofs about what an administrator decides: the cards (Approvals), the  *)
(* agents' ncl calls that ask for one (Cli), the dashboard (Console) and its*)
(* door (Login).  ServicesProofs concludes for the whole.                  *)
(***************************************************************************)
EXTENDS DecisionParts, WellFoundedInduction, FiniteSetTheorems, TLAPS

(***************************************************************************)
(* Approvals: the inductive invariant.                                     *)
(***************************************************************************)
\* One if the request still has its row: it may still be acted on.
Open(r) == IF r \in row THEN 1 ELSE 0

\* A change acted on has lost its row, but for the builds a crash interrupted, and
\* is configured only if a click said so; one still to be asked for was not acted on.
ChangeInv(r) ==
  /\ ask[r] = "no" => effect[r] = <<>> /\ r \notin row
  /\ Len(effect[r]) + Open(r) <= 1 + Ap!Torn(r)
  /\ r \in config => \E i \in DOMAIN effect[r] : effect[r][i] = "approve"

\* A question is acted on once per delivery of its card.
QuestionInv(r) == Len(effect[r]) + Open(r) <= cardsSent[r]

\* A credential whose card is awaited has left no trace yet; its row goes with the
\* click that is acted on, which alone can grant it; only a host that is up waits.
CredentialInv(r) ==
  /\ ask[r] # "over" =>
       /\ r \notin row /\ r \notin waiting /\ r \notin expiring /\ r \notin sweeping
       /\ effect[r] = <<>> /\ verdict[r] = "none"
  /\ r \in waiting =>
       up /\ r \in row /\ r \notin expiring /\ r \notin sweeping /\ verdict[r] = "none"
  /\ effect[r] = <<>> \/ (r \notin row /\ \E v \in Ap!Values : effect[r] = <<v>>)
  /\ verdict[r] = "approve" <=> effect[r] = <<"approve">>
  /\ ~up => ask[r] # "sending"

\* A change that is to be announced is in the configuration and the image, and
\* in what the next container is started with unless it came after that.
AnnouncedIsReady ==
  /\ image \subseteq config /\ (image # {} => tag)
  /\ onWake \subseteq (config \cap Servers) \cup image
  /\ box = "waking" =>
       onWake \ behind \subseteq snap.servers \cup (IF snap.tagged THEN image ELSE {})
  /\ box = "fresh" => onWake \ behind \subseteq has
  /\ stale \subseteq behind

ApprovalsInv ==
  /\ Ap!TypeOK
  /\ \A r \in Ap!Changes : ChangeInv(r)
  /\ \A r \in Questions : QuestionInv(r)
  /\ \A r \in Credentials : CredentialInv(r)
  /\ AnnouncedIsReady

(***************************************************************************)
(* Approvals: types.                                                       *)
(***************************************************************************)
LEMMA ApprovalsInit == ASSUME DecisionsFit, Ap!Init PROVE ApprovalsInv
<1> USE DEF Ap!Init, Ap!Requests, Ap!Changes
<1>1. Ap!TypeOK
  <2>1. ask \in [Ap!Requests -> {"no", "sending", "over"}]
    OBVIOUS
  <2>2. effect \in [Ap!Requests -> Seq(Ap!Values)]
    OBVIOUS
  <2> QED BY <2>1, <2>2 DEF Ap!TypeOK
<1>2. ASSUME NEW r \in Ap!Requests
      PROVE  effect[r] = <<>> /\ r \notin row /\ cardsSent[r] = 0
  OBVIOUS
<1>3. \A r \in Ap!Changes : ChangeInv(r)
  BY <1>2 DEF ChangeInv, Open, Ap!Torn
<1>4. \A r \in Questions : QuestionInv(r)
  BY <1>2 DEF QuestionInv, Open
<1>5. \A r \in Credentials : CredentialInv(r)
  BY <1>2 DEF CredentialInv, Ap!Values
<1>6. AnnouncedIsReady
  BY DEF AnnouncedIsReady
<1> QED BY <1>1, <1>3, <1>4, <1>5, <1>6 DEF ApprovalsInv

LEMMA ApprovalsTypes == ASSUME DecisionsFit, Ap!TypeOK, Ap!Next PROVE Ap!TypeOK'
<1> USE DEF Ap!Requests, Ap!Changes, Ap!Values, Ap!cardVars, Ap!credVars, Ap!boxVars, Ap!confVars,
            Ap!toolVars, Ap!TypeOK
<1>1. ASSUME NEW r \in Ap!Requests, Ap!Request(r) PROVE Ap!TypeOK'
  BY <1>1 DEF Ap!Request
<1>2. ASSUME NEW r \in Ap!Requests, Ap!NoApprover(r) PROVE Ap!TypeOK'
  BY <1>2 DEF Ap!NoApprover, Ap!Fault
<1>3. ASSUME NEW r \in Ap!Requests, Ap!Shown(r) PROVE Ap!TypeOK'
  BY <1>3 DEF Ap!Shown
<1>4. ASSUME NEW r \in Ap!Requests, Ap!Sent(r) PROVE Ap!TypeOK'
  BY <1>4 DEF Ap!Sent
<1>5. ASSUME NEW r \in Ap!Requests, Ap!SendFails(r) PROVE Ap!TypeOK'
  BY <1>5 DEF Ap!SendFails, Ap!Fault
<1>6. ASSUME NEW r \in Ap!Requests, NEW v \in {"approve", "reject"}, Ap!Click(r, v) PROVE Ap!TypeOK'
  BY <1>6 DEF Ap!Click
<1>7. ASSUME NEW c \in clicks, NEW edit \in BOOLEAN, Ap!Resolve(c, edit) PROVE Ap!TypeOK'
  BY <1>7 DEF Ap!Resolve, Ap!Take, Ap!ActOn
<1>8. ASSUME NEW c \in clicks, NEW edit \in BOOLEAN, Ap!Unclaimed(c, edit) PROVE Ap!TypeOK'
  BY <1>8 DEF Ap!Unclaimed, Ap!Take
<1>9. ASSUME NEW c \in clicks, NEW edit \in BOOLEAN, Ap!Answer(c, edit) PROVE Ap!TypeOK'
  BY <1>9 DEF Ap!Answer, Ap!Take, Ap!ActOn, Ap!Wake, Ap!Materialized
<1>10. ASSUME NEW c \in clicks, NEW edit \in BOOLEAN, Ap!Reject(c, edit) PROVE Ap!TypeOK'
  BY <1>10 DEF Ap!Reject, Ap!Take, Ap!ActOn, Ap!Wake, Ap!Materialized
<1>11. ASSUME NEW c \in clicks, NEW edit \in BOOLEAN, Ap!Approve(c, edit) PROVE Ap!TypeOK'
  <2>1. c[1] \in Ap!Changes /\ c[2] \in Ap!Values
    BY <1>11 DEF Ap!Approve, Ap!Take, Ap!ActOn, Ap!KillAndWake, Ap!Active, Ap!Wake, Ap!Materialized
  <2>2. effect' \in [Ap!Requests -> Seq(Ap!Values)]
    BY <1>11, <2>1 DEF Ap!Approve, Ap!Take, Ap!ActOn, Ap!KillAndWake, Ap!Active, Ap!Wake, Ap!Materialized
  <2>3. config' \in SUBSET Ap!Changes /\ image' \in SUBSET Installs /\ tag' \in BOOLEAN
    BY <1>11, <2>1 DEF Ap!Approve, Ap!Take, Ap!ActOn, Ap!KillAndWake, Ap!Active, Ap!Wake, Ap!Materialized
  <2>5. exitWake' \in BOOLEAN
    <3>1. exitWake' = TRUE \/ exitWake' = exitWake
      BY <1>11 DEF Ap!Approve, Ap!Take, Ap!ActOn, Ap!KillAndWake, Ap!Active, Ap!Wake, Ap!Materialized
    <3> QED BY <3>1, Zenon
  <2>4. snap' \in [servers : SUBSET Servers, tagged : BOOLEAN] /\ box' \in {"none", "waking", "fresh", "running", "closing"}
    BY <1>11, <2>3 DEF Ap!Approve, Ap!Take, Ap!ActOn, Ap!KillAndWake, Ap!Active, Ap!Wake, Ap!Materialized
  <2> QED BY <1>11, <2>1, <2>2, <2>3, <2>4, <2>5 DEF Ap!Approve, Ap!Take, Ap!ActOn
<1>12. ASSUME NEW c \in clicks, NEW edit \in BOOLEAN, Ap!BuildFails(c, edit) PROVE Ap!TypeOK'
  BY <1>12 DEF Ap!BuildFails, Ap!Take, Ap!Fault, Ap!Wake, Ap!Materialized
<1>13. ASSUME NEW c \in clicks, NEW edit \in BOOLEAN, Ap!CrashInBuild(c, edit) PROVE Ap!TypeOK'
  <2>0. up' \in BOOLEAN /\ exitWake' \in BOOLEAN
    BY <1>13, Zenon DEF Ap!CrashInBuild, Ap!Down, Ap!Fault
  <2>1. ask' \in [Ap!Requests -> {"no", "sending", "over"}]
    BY <1>13 DEF Ap!CrashInBuild, Ap!Down, Ap!Fault
  <2>2. verdict' \in [Credentials -> {"none", "approve", "deny", "lost"}]
    BY <1>13 DEF Ap!CrashInBuild, Ap!Down, Ap!Fault
  <2>3. c[1] \in Ap!Requests /\ c[2] \in Ap!Values /\ c[1] \in Installs
    BY <1>13 DEF Ap!CrashInBuild, Ap!Down, Ap!Fault
  <2>4. effect' \in [Ap!Requests -> Seq(Ap!Values)]
    BY <1>13, <2>3 DEF Ap!CrashInBuild, Ap!Down, Ap!Fault
  <2>5. tornBuilds' \in [Installs -> Nat] /\ card' \in [Ap!Requests -> {"none", "shown", "edited"}]
    BY <1>13, <2>3 DEF Ap!CrashInBuild, Ap!Down, Ap!Fault
  <2> QED BY <1>13, <2>0, <2>1, <2>2, <2>3, <2>4, <2>5 DEF Ap!CrashInBuild, Ap!Down, Ap!Fault
<1>14. ASSUME NEW r \in Credentials, Ap!Expire(r) PROVE Ap!TypeOK'
  BY <1>14 DEF Ap!Expire
<1>15. ASSUME NEW r \in Credentials, NEW edit \in BOOLEAN, Ap!Expired(r, edit) PROVE Ap!TypeOK'
  BY <1>15 DEF Ap!Expired
<1>16. ASSUME NEW r \in Credentials, NEW edit \in BOOLEAN, Ap!Sweep(r, edit) PROVE Ap!TypeOK'
  BY <1>16 DEF Ap!Sweep
<1>17. ASSUME NEW q \in Questions, Ap!TakeAnswer(q) PROVE Ap!TypeOK'
  BY <1>17 DEF Ap!TakeAnswer
<1>18. ASSUME NEW q \in Questions, Ap!Deadline(q) PROVE Ap!TypeOK'
  BY <1>18 DEF Ap!Deadline
<1>19. ASSUME Ap!OtherWake PROVE Ap!TypeOK'
  BY <1>19 DEF Ap!OtherWake, Ap!Wake, Ap!Materialized
<1>20. ASSUME Ap!Spawned PROVE Ap!TypeOK'
  BY <1>20 DEF Ap!Spawned
<1>21. ASSUME Ap!SpawnFails PROVE Ap!TypeOK'
  BY <1>21 DEF Ap!SpawnFails, Ap!Fault
<1>22. ASSUME Ap!FirstPoll PROVE Ap!TypeOK'
  BY <1>22 DEF Ap!FirstPoll
<1>23. ASSUME Ap!Exits PROVE Ap!TypeOK'
  BY <1>23 DEF Ap!Exits
<1>24. ASSUME Ap!Closed PROVE Ap!TypeOK'
  <2>0. exitWake' \in BOOLEAN
    BY <1>24, Zenon DEF Ap!Closed, Ap!Materialized
  <2>1. CASE exitWake = TRUE
    BY <1>24, <2>0, <2>1 DEF Ap!Closed, Ap!Materialized
  <2>2. CASE exitWake = FALSE
    BY <1>24, <2>0, <2>2 DEF Ap!Closed, Ap!Materialized
  <2> QED BY <2>1, <2>2
<1>25. ASSUME Ap!Crash PROVE Ap!TypeOK'
  <2>0. up' \in BOOLEAN /\ exitWake' \in BOOLEAN
    BY <1>25, Zenon DEF Ap!Crash, Ap!Down, Ap!Fault
  <2>1. ask' \in [Ap!Requests -> {"no", "sending", "over"}]
    BY <1>25 DEF Ap!Crash, Ap!Down, Ap!Fault
  <2>2. verdict' \in [Credentials -> {"none", "approve", "deny", "lost"}]
    BY <1>25 DEF Ap!Crash, Ap!Down, Ap!Fault
  <2> QED BY <1>25, <2>0, <2>1, <2>2 DEF Ap!Crash, Ap!Down, Ap!Fault
<1>26. ASSUME Ap!Start PROVE Ap!TypeOK'
  BY <1>26 DEF Ap!Start
<1> HIDE DEF Ap!Requests, Ap!Changes, Ap!Values, Ap!TypeOK
<1> QED BY <1>1, <1>2, <1>3, <1>4, <1>5, <1>6, <1>7, <1>8, <1>9, <1>10, <1>11, <1>12, <1>13, <1>14, <1>15, <1>16, <1>17, <1>18, <1>19, <1>20, <1>21, <1>22, <1>23, <1>24, <1>25, <1>26 DEF Ap!Next, Ap!Dispatch

(***************************************************************************)
(* Approvals: the container that is told of a change has it.               *)
(***************************************************************************)
LEMMA AnnouncedStep ==
  ASSUME DecisionsFit, Ap!TypeOK, Ap!TypeOK', AnnouncedIsReady, Ap!Next
  PROVE  AnnouncedIsReady'
<1> USE DEF AnnouncedIsReady
<1>1. CASE UNCHANGED <<Ap!boxVars, Ap!confVars>>
  BY <1>1 DEF Ap!boxVars, Ap!confVars
<1>2. ASSUME NEW c \in clicks, NEW edit \in BOOLEAN, Ap!Answer(c, edit) \/ Ap!Reject(c, edit)
      PROVE  AnnouncedIsReady'
  BY <1>2 DEF Ap!Answer, Ap!Reject, Ap!Wake, Ap!Materialized
<1>3. ASSUME NEW c \in clicks, NEW edit \in BOOLEAN, Ap!Approve(c, edit)
      PROVE  AnnouncedIsReady'
  <2>1. /\ c[1] \in Ap!Changes /\ config' = config \cup {c[1]}
        /\ onWake' = onWake \cup {c[1]}
        /\ behind' = IF box = "waking" THEN behind \cup {c[1]} ELSE behind
        /\ stale' = stale /\ has' = has
    BY <1>3 DEF Ap!Approve
  <2>2. /\ image \subseteq image' /\ image' \subseteq config' /\ (image' # {} => tag')
        /\ onWake' \subseteq (config' \cap Servers) \cup image'
    <3>1. CASE c[1] \in Installs
      BY <1>3, <2>1, <3>1 DEF Ap!Approve, Ap!TypeOK
    <3>2. CASE c[1] \notin Installs
      BY <1>3, <2>1, <3>2 DEF Ap!Approve, Ap!Changes
    <3> QED BY <3>1, <3>2
  <2>3. CASE Ap!Active
    <3>1. box' = "closing"
      BY <1>3, <2>3 DEF Ap!Approve, Ap!KillAndWake
    <3> QED BY <2>1, <2>2, <2>3, <3>1 DEF Ap!Active
  <2>4. CASE box = "none"
    <3>1. box' = "waking" /\ snap'.servers = config' \cap Servers /\ snap'.tagged = tag'
      BY <1>3, <2>4 DEF Ap!Approve, Ap!KillAndWake, Ap!Active, Ap!Wake, Ap!Materialized
    <3> QED BY <2>1, <2>2, <2>4, <3>1
  <2>5. CASE box = "waking"
    <3>1. box' = "waking" /\ snap' = snap
      BY <1>3, <2>5 DEF Ap!Approve, Ap!KillAndWake, Ap!Active, Ap!Wake
    <3> QED BY <2>1, <2>2, <2>5, <3>1
  <2> QED BY <2>3, <2>4, <2>5 DEF Ap!Active, Ap!TypeOK
<1>4. ASSUME NEW c \in clicks, NEW edit \in BOOLEAN, Ap!BuildFails(c, edit)
      PROVE  AnnouncedIsReady'
  BY <1>4 DEF Ap!BuildFails, Ap!Wake, Ap!Materialized
<1>5. ASSUME NEW c \in clicks, NEW edit \in BOOLEAN, Ap!CrashInBuild(c, edit)
      PROVE  AnnouncedIsReady'
  BY <1>5 DEF Ap!CrashInBuild, Ap!Down
<1>6. CASE Ap!OtherWake \/ Ap!Closed
  BY <1>6 DEF Ap!OtherWake, Ap!Closed, Ap!Wake, Ap!Materialized
<1>7. CASE Ap!Spawned
  BY <1>7 DEF Ap!Spawned, Ap!confVars
<1>8. CASE Ap!FirstPoll
  BY <1>8 DEF Ap!FirstPoll, Ap!confVars
<1>9. CASE Ap!SpawnFails \/ Ap!Exits
  BY <1>9 DEF Ap!SpawnFails, Ap!Exits, Ap!confVars
<1>10. CASE Ap!Crash
  BY <1>10 DEF Ap!Crash, Ap!Down
<1> HIDE DEF AnnouncedIsReady
<1>11. ASSUME NEW r \in Ap!Requests,
              \/ Ap!Request(r) \/ Ap!NoApprover(r) \/ Ap!Shown(r) \/ Ap!Sent(r) \/ Ap!SendFails(r)
              \/ Ap!Click(r, "approve") \/ Ap!Click(r, "reject")
       PROVE  AnnouncedIsReady'
  BY <1>1, <1>11 DEF Ap!Request, Ap!NoApprover, Ap!Shown, Ap!Sent, Ap!SendFails, Ap!Click
<1>12. ASSUME NEW c \in clicks, NEW edit \in BOOLEAN, Ap!Resolve(c, edit) \/ Ap!Unclaimed(c, edit)
       PROVE  AnnouncedIsReady'
  BY <1>1, <1>12 DEF Ap!Resolve, Ap!Unclaimed
<1>13. ASSUME NEW r \in Credentials, NEW edit \in BOOLEAN,
              Ap!Expire(r) \/ Ap!Expired(r, edit) \/ Ap!Sweep(r, edit)
       PROVE  AnnouncedIsReady'
  BY <1>1, <1>13 DEF Ap!Expire, Ap!Expired, Ap!Sweep
<1>14. ASSUME NEW q \in Questions, Ap!TakeAnswer(q) \/ Ap!Deadline(q)
       PROVE  AnnouncedIsReady'
  BY <1>1, <1>14 DEF Ap!TakeAnswer, Ap!Deadline
<1>15. CASE Ap!Start
  BY <1>1, <1>15 DEF Ap!Start
<1> QED
  BY <1>2, <1>3, <1>4, <1>5, <1>6, <1>7, <1>8, <1>9, <1>10, <1>11, <1>12, <1>13, <1>14, <1>15
  DEF Ap!Next, Ap!Dispatch

(***************************************************************************)
(* Approvals: rows, verdicts and what was acted on.                        *)
(***************************************************************************)
LEMMA KindsDiffer ==
  ASSUME DecisionsFit
  PROVE  /\ \A r \in Credentials : r \notin Ap!Changes /\ r \notin Questions
         /\ \A r \in Ap!Changes : r \notin Questions
BY DEF DecisionsFit, Ap!ConstantAssumption

\* What a click adds to the history of its request.
LEMMA ActedOn ==
  ASSUME Ap!TypeOK, NEW c \in clicks, effect' = [effect EXCEPT ![c[1]] = Append(@, c[2])]
  PROVE  /\ c[1] \in Ap!Requests /\ c[2] \in Ap!Values
         /\ \A r \in Ap!Requests : r # c[1] => effect'[r] = effect[r]
         /\ Len(effect'[c[1]]) = Len(effect[c[1]]) + 1
         /\ effect[c[1]] = <<>> => effect'[c[1]] = <<c[2]>>
         /\ c[2] = "approve" => \E i \in DOMAIN effect'[c[1]] : effect'[c[1]][i] = "approve"
         /\ (\E i \in DOMAIN effect[c[1]] : effect[c[1]][i] = "approve")
              => \E i \in DOMAIN effect'[c[1]] : effect'[c[1]][i] = "approve"
<1>1. c[1] \in Ap!Requests /\ c[2] \in Ap!Values /\ effect[c[1]] \in Seq(Ap!Values)
  BY DEF Ap!TypeOK
<1>2. effect'[c[1]] = Append(effect[c[1]], c[2])
      /\ \A r \in Ap!Requests : r # c[1] => effect'[r] = effect[r]
  BY <1>1 DEF Ap!TypeOK
<1> DEFINE old == effect[c[1]]
           new == effect'[c[1]]
<1>3. /\ Len(new) = Len(old) + 1 /\ DOMAIN new = 1 .. Len(new) /\ DOMAIN old = 1 .. Len(old)
      /\ new[Len(new)] = c[2] /\ \A i \in DOMAIN old : new[i] = old[i]
      /\ Len(old) \in Nat
  BY <1>1, <1>2
<1>4. old = <<>> => new = <<c[2]>>
  BY <1>1, <1>2
<1> HIDE DEF old, new
<1>5. c[2] = "approve" => \E i \in DOMAIN new : new[i] = "approve"
  BY <1>3
<1>6. (\E i \in DOMAIN old : old[i] = "approve") => \E i \in DOMAIN new : new[i] = "approve"
  BY <1>3
<1> QED BY <1>1, <1>2, <1>3, <1>4, <1>5, <1>6 DEF old, new

LEMMA ChangesStep ==
  ASSUME DecisionsFit, Ap!TypeOK, Ap!TypeOK', Ap!Next, NEW r \in Ap!Changes, ChangeInv(r)
  PROVE  ChangeInv(r)'
<1>0. r \in Ap!Requests /\ r \notin Credentials /\ r \notin Questions
  BY KindsDiffer DEF Ap!Requests
<1> DEFINE Same == /\ ask'[r] = ask[r] /\ effect'[r] = effect[r] /\ (r \in row' <=> r \in row)
                   /\ config' = config /\ tornBuilds' = tornBuilds
           Acted == /\ Len(effect'[r]) = Len(effect[r]) + 1 /\ ask'[r] = ask[r] /\ ask[r] # "no"
                    /\ r \in row
<1>1. CASE Same
  BY <1>1 DEF ChangeInv, Open, Ap!Torn
<1>2. ASSUME NEW a \in Ap!Requests, Ap!Request(a)
      PROVE  ChangeInv(r)'
  <2>1. CASE a = r
    BY <1>0, <1>2, <2>1 DEF Ap!Request, Ap!TypeOK, Ap!confVars, ChangeInv, Open, Ap!Torn
  <2>2. CASE a # r
    BY <1>0, <1>1, <1>2, <2>2 DEF Ap!Request, Ap!TypeOK, Ap!confVars
  <2> QED BY <2>1, <2>2
<1>3. ASSUME NEW a \in Ap!Requests, Ap!NoApprover(a) \/ Ap!SendFails(a)
      PROVE  ChangeInv(r)'
  <2>1. /\ effect'[r] = effect[r] /\ (r \in row' <=> r \in row) /\ config' = config
        /\ tornBuilds' = tornBuilds /\ (ask'[r] = "no" => ask[r] = "no")
    BY <1>0, <1>3 DEF Ap!NoApprover, Ap!SendFails, Ap!TypeOK, Ap!confVars
  <2> QED BY <2>1 DEF ChangeInv, Open, Ap!Torn
<1>4. ASSUME NEW a \in Ap!Requests,
             Ap!Shown(a) \/ Ap!Sent(a) \/ Ap!Click(a, "approve") \/ Ap!Click(a, "reject")
      PROVE  ChangeInv(r)'
  <2>1. CASE Ap!Shown(a) \/ Ap!Click(a, "approve") \/ Ap!Click(a, "reject")
    BY <1>1, <2>1 DEF Ap!Shown, Ap!Click, Ap!confVars
  <2>2. CASE Ap!Sent(a)
    <3>1. /\ effect'[r] = effect[r] /\ (r \in row' <=> r \in row) /\ config' = config
          /\ tornBuilds' = tornBuilds /\ (ask'[r] = "no" => ask[r] = "no")
      BY <1>0, <2>2 DEF Ap!Sent, Ap!TypeOK, Ap!confVars
    <3> QED BY <3>1 DEF ChangeInv, Open, Ap!Torn
  <2> QED BY <1>4, <2>1, <2>2
<1>5. ASSUME NEW c \in clicks, NEW edit \in BOOLEAN,
             Ap!Resolve(c, edit) \/ Ap!Unclaimed(c, edit) \/ Ap!Answer(c, edit)
      PROVE  Same
  <2>1. CASE Ap!Resolve(c, edit)
    BY <1>0, <2>1, ActedOn DEF Ap!Resolve, Ap!Take, Ap!ActOn, Ap!TypeOK, Ap!confVars
  <2>2. CASE Ap!Unclaimed(c, edit)
    BY <1>0, <2>2 DEF Ap!Unclaimed, Ap!Take, Ap!TypeOK, Ap!confVars
  <2>3. CASE Ap!Answer(c, edit)
    BY <1>0, <2>3, ActedOn DEF Ap!Answer, Ap!Take, Ap!ActOn
  <2> QED BY <1>5, <2>1, <2>2, <2>3
<1>6. ASSUME NEW c \in clicks, NEW edit \in BOOLEAN,
             \/ Ap!Reject(c, edit) \/ Ap!Approve(c, edit) \/ Ap!BuildFails(c, edit)
             \/ Ap!CrashInBuild(c, edit)
      PROVE  ChangeInv(r)'
  <2>1. /\ effect' = [effect EXCEPT ![c[1]] = Append(@, c[2])] /\ c[1] \in row \cap Ap!Changes
        /\ ask[r] # "sending" => ask'[r] = ask[r]
        /\ ask[r] = "sending" => ask'[r] # "no"
        /\ \/ row' = row \ {c[1]} /\ tornBuilds' = tornBuilds
           \/ /\ row' = row /\ c[1] \in Installs
              /\ tornBuilds' = [tornBuilds EXCEPT ![c[1]] = @ + 1]
        /\ config' = config \/ (config' = config \cup {c[1]} /\ c[2] = "approve")
    <3>1. CASE Ap!Reject(c, edit)
      BY <3>1 DEF Ap!Reject, Ap!Take, Ap!ActOn
    <3>2. CASE Ap!Approve(c, edit)
      BY <3>2 DEF Ap!Approve, Ap!Take, Ap!ActOn
    <3>3. CASE Ap!BuildFails(c, edit)
      BY <3>3 DEF Ap!BuildFails, Ap!Take, Ap!Changes
    <3>4. CASE Ap!CrashInBuild(c, edit)
      BY <1>0, <3>4 DEF Ap!CrashInBuild, Ap!Down, Ap!Changes
    <3> QED BY <1>6, <3>1, <3>2, <3>3, <3>4
  <2>2. CASE r = c[1]
    <3>1. ask'[r] # "no"
      BY <1>0, <2>1, <2>2 DEF ChangeInv
    <3>2. Len(effect'[r]) + Open(r)' <= 1 + Ap!Torn(r)'
      <4>1. Len(effect'[r]) = Len(effect[r]) + 1 /\ Len(effect[r]) \in Nat
            /\ r \in row /\ Len(effect[r]) + 1 <= 1 + Ap!Torn(r) /\ Ap!Torn(r) \in Nat
        <5>1. Len(effect'[r]) = Len(effect[r]) + 1 /\ Len(effect[r]) \in Nat
          BY <1>0, <2>1, <2>2, ActedOn DEF Ap!TypeOK
        <5>2. r \in row /\ Len(effect[r]) + 1 <= 1 + Ap!Torn(r)
          BY <2>1, <2>2 DEF ChangeInv, Open
        <5>3. Ap!Torn(r) \in Nat
          BY DEF Ap!Torn, Ap!TypeOK
        <5> QED BY <5>1, <5>2, <5>3
      <4>2. CASE row' = row \ {c[1]} /\ tornBuilds' = tornBuilds
        BY <2>2, <4>1, <4>2 DEF Open, Ap!Torn
      <4>3. CASE /\ row' = row /\ c[1] \in Installs
                 /\ tornBuilds' = [tornBuilds EXCEPT ![c[1]] = @ + 1]
        <5>1. Ap!Torn(r)' = Ap!Torn(r) + 1
          BY <2>2, <4>3 DEF Ap!Torn, Ap!TypeOK
        <5> QED BY <4>1, <4>3, <5>1 DEF Open
      <4> QED BY <2>1, <4>2, <4>3
    <3>3. r \in config' => \E i \in DOMAIN effect'[r] : effect'[r][i] = "approve"
      BY <1>0, <2>1, <2>2, ActedOn DEF ChangeInv
    <3> QED BY <3>1, <3>2, <3>3 DEF ChangeInv
  <2>3. CASE r # c[1]
    <3>1. effect'[r] = effect[r] /\ (r \in row' <=> r \in row) /\ (r \in config' <=> r \in config)
      BY <1>0, <2>1, <2>3, ActedOn
    <3>2. Ap!Torn(r)' = Ap!Torn(r)
      BY <2>1, <2>3 DEF Ap!Torn, Ap!TypeOK
    <3> QED BY <2>1, <3>1, <3>2 DEF ChangeInv, Open
  <2> QED BY <2>2, <2>3
<1>7. ASSUME NEW a \in Credentials, NEW edit \in BOOLEAN,
             Ap!Expire(a) \/ Ap!Expired(a, edit) \/ Ap!Sweep(a, edit)
      PROVE  Same
  BY <1>0, <1>7 DEF Ap!Expire, Ap!Expired, Ap!Sweep, Ap!cardVars, Ap!confVars
<1>8. ASSUME NEW q \in Questions, Ap!TakeAnswer(q) \/ Ap!Deadline(q)
      PROVE  Same
  BY <1>8 DEF Ap!TakeAnswer, Ap!Deadline, Ap!cardVars, Ap!confVars
<1>9. ASSUME \/ Ap!OtherWake \/ Ap!Spawned \/ Ap!SpawnFails \/ Ap!FirstPoll \/ Ap!Exits
             \/ Ap!Closed \/ Ap!Start
      PROVE  Same
  BY <1>9 DEF Ap!OtherWake, Ap!Spawned, Ap!SpawnFails, Ap!FirstPoll, Ap!Exits, Ap!Closed,
     Ap!Start, Ap!cardVars, Ap!confVars
<1>10. CASE Ap!Crash
  <2>1. /\ effect'[r] = effect[r] /\ (r \in row' <=> r \in row) /\ config' = config
        /\ tornBuilds' = tornBuilds /\ (ask'[r] = "no" => ask[r] = "no")
    BY <1>0, <1>10 DEF Ap!Crash, Ap!Down
  <2> QED BY <2>1 DEF ChangeInv, Open, Ap!Torn
<1> HIDE DEF Same
<1> QED BY <1>1, <1>2, <1>3, <1>4, <1>5, <1>6, <1>7, <1>8, <1>9, <1>10 DEF Ap!Next, Ap!Dispatch

LEMMA QuestionsStep ==
  ASSUME DecisionsFit, Ap!TypeOK, Ap!TypeOK', Ap!Next, NEW r \in Questions, QuestionInv(r)
  PROVE  QuestionInv(r)'
<1>0. r \in Ap!Requests /\ r \notin Credentials /\ r \notin Ap!Changes
  BY KindsDiffer DEF Ap!Requests
<1> DEFINE Same == /\ effect'[r] = effect[r] /\ (r \in row' <=> r \in row)
                   /\ cardsSent'[r] = cardsSent[r]
<1>1. CASE Same
  BY <1>1 DEF QuestionInv, Open
<1>2. ASSUME NEW a \in Ap!Requests, Ap!Request(a)
      PROVE  QuestionInv(r)'
  <2>1. CASE a = r
    BY <1>0, <1>2, <2>1 DEF Ap!Request, Ap!TypeOK, QuestionInv, Open
  <2>2. CASE a # r
    BY <1>0, <1>1, <1>2, <2>2 DEF Ap!Request, Ap!TypeOK
  <2> QED BY <2>1, <2>2
<1>3. ASSUME NEW a \in Ap!Requests,
             \/ Ap!NoApprover(a) \/ Ap!SendFails(a) \/ Ap!Shown(a) \/ Ap!Sent(a)
             \/ Ap!Click(a, "approve") \/ Ap!Click(a, "reject")
      PROVE  Same
  BY <1>0, <1>3 DEF Ap!NoApprover, Ap!SendFails, Ap!Shown, Ap!Sent, Ap!Click
<1>4. ASSUME NEW c \in clicks, NEW edit \in BOOLEAN, Ap!Unclaimed(c, edit)
      PROVE  Same
  BY <1>0, <1>4 DEF Ap!Unclaimed, Ap!Take
<1>5. ASSUME NEW c \in clicks, NEW edit \in BOOLEAN,
             \/ Ap!Resolve(c, edit) \/ Ap!Answer(c, edit) \/ Ap!Reject(c, edit)
             \/ Ap!Approve(c, edit) \/ Ap!BuildFails(c, edit) \/ Ap!CrashInBuild(c, edit)
      PROVE  QuestionInv(r)'
  <2>1. /\ effect' = [effect EXCEPT ![c[1]] = Append(@, c[2])] /\ cardsSent' = cardsSent
        /\ \/ c[1] \in row /\ row' = row \ {c[1]}
           \/ c[1] # r /\ (row' = row \ {c[1]} \/ row' = row)
    <3>1. CASE Ap!Resolve(c, edit)
      BY <1>0, <3>1 DEF Ap!Resolve, Ap!Take, Ap!ActOn, Ap!TypeOK
    <3>2. CASE Ap!Answer(c, edit)
      BY <3>2 DEF Ap!Answer, Ap!Take, Ap!ActOn
    <3>3. CASE Ap!Reject(c, edit) \/ Ap!Approve(c, edit)
      BY <3>3 DEF Ap!Reject, Ap!Approve, Ap!Take, Ap!ActOn
    <3>4. CASE Ap!BuildFails(c, edit)
      BY <3>4 DEF Ap!BuildFails, Ap!Take
    <3>5. CASE Ap!CrashInBuild(c, edit)
      BY <1>0, <3>5 DEF Ap!CrashInBuild, Ap!Down, Ap!Changes
    <3> QED BY <1>5, <3>1, <3>2, <3>3, <3>4, <3>5
  <2>2. CASE r = c[1]
    <3>1. /\ Len(effect'[r]) = Len(effect[r]) + 1 /\ Len(effect[r]) \in Nat
          /\ r \in row /\ r \notin row' /\ cardsSent[r] \in Nat
      BY <1>0, <2>1, <2>2, ActedOn DEF Ap!TypeOK
    <3> QED BY <2>1, <3>1 DEF QuestionInv, Open
  <2>3. CASE r # c[1]
    BY <1>0, <1>1, <2>1, <2>3, ActedOn
  <2> QED BY <2>2, <2>3
<1>6. ASSUME NEW a \in Credentials, NEW edit \in BOOLEAN,
             Ap!Expire(a) \/ Ap!Expired(a, edit) \/ Ap!Sweep(a, edit)
      PROVE  Same
  BY <1>0, <1>6 DEF Ap!Expire, Ap!Expired, Ap!Sweep, Ap!cardVars
<1>7. ASSUME NEW q \in Questions, Ap!TakeAnswer(q) \/ Ap!Deadline(q)
      PROVE  Same
  BY <1>7 DEF Ap!TakeAnswer, Ap!Deadline, Ap!cardVars
<1>8. ASSUME \/ Ap!OtherWake \/ Ap!Spawned \/ Ap!SpawnFails \/ Ap!FirstPoll \/ Ap!Exits
             \/ Ap!Closed \/ Ap!Start \/ Ap!Crash
      PROVE  Same
  BY <1>8 DEF Ap!OtherWake, Ap!Spawned, Ap!SpawnFails, Ap!FirstPoll, Ap!Exits, Ap!Closed,
     Ap!Start, Ap!Crash, Ap!Down, Ap!cardVars
<1> HIDE DEF Same
<1> QED BY <1>1, <1>2, <1>3, <1>4, <1>5, <1>6, <1>7, <1>8 DEF Ap!Next, Ap!Dispatch

LEMMA CredentialsStep ==
  ASSUME DecisionsFit, Ap!TypeOK, Ap!TypeOK', Ap!Next, NEW r \in Credentials, CredentialInv(r)
  PROVE  CredentialInv(r)'
<1>0. r \in Ap!Requests /\ r \notin Questions /\ r \notin Ap!Changes
  BY KindsDiffer DEF Ap!Requests
<1> DEFINE Same == /\ ask'[r] = ask[r] /\ effect'[r] = effect[r] /\ (r \in row' <=> r \in row)
                   /\ (r \in waiting' <=> r \in waiting) /\ (r \in expiring' => r \in expiring)
                   /\ (r \in sweeping' => r \in sweeping) /\ verdict'[r] = verdict[r] /\ up' = up
<1>1. CASE Same
  BY <1>1 DEF CredentialInv
<1>2. ASSUME NEW a \in Ap!Requests,
             \/ Ap!Request(a) \/ Ap!NoApprover(a) \/ Ap!Sent(a) \/ Ap!SendFails(a)
      PROVE  CredentialInv(r)'
  <2>1. CASE a = r
    <3>1. CASE Ap!Request(r)
      BY <1>0, <3>1 DEF Ap!Request, Ap!TypeOK, Ap!credVars, CredentialInv
    <3>2. CASE Ap!NoApprover(r) \/ Ap!SendFails(r)
      BY <1>0, <3>2 DEF Ap!NoApprover, Ap!SendFails, Ap!TypeOK, CredentialInv
    <3>3. CASE Ap!Sent(r)
      BY <1>0, <3>3 DEF Ap!Sent, Ap!TypeOK, CredentialInv
    <3> QED BY <1>2, <2>1, <3>1, <3>2, <3>3
  <2>2. CASE a # r
    BY <1>0, <1>1, <1>2, <2>2
    DEF Ap!Request, Ap!NoApprover, Ap!Sent, Ap!SendFails, Ap!TypeOK, Ap!credVars
  <2> QED BY <2>1, <2>2
<1>3. ASSUME NEW a \in Ap!Requests,
             Ap!Shown(a) \/ Ap!Click(a, "approve") \/ Ap!Click(a, "reject")
      PROVE  Same
  BY <1>0, <1>3 DEF Ap!Shown, Ap!Click, Ap!credVars
<1>4. ASSUME NEW c \in clicks, NEW edit \in BOOLEAN, Ap!Resolve(c, edit)
      PROVE  CredentialInv(r)'
  <2>1. CASE r = c[1]
    <3>1. /\ effect'[r] = <<c[2]>> /\ c[2] \in Ap!Values /\ r \notin row' /\ r \notin waiting'
          /\ verdict'[r] = (IF c[2] = "approve" THEN "approve" ELSE "deny")
          /\ ask'[r] = "over"
      <4>1. /\ effect' = [effect EXCEPT ![c[1]] = Append(@, c[2])] /\ r \in waiting
            /\ r \notin row' /\ r \notin waiting' /\ ask' = ask
            /\ verdict' = [verdict EXCEPT ![r] = IF c[2] = "approve" THEN "approve" ELSE "deny"]
        BY <1>4, <2>1 DEF Ap!Resolve, Ap!Take, Ap!ActOn
      <4>2. effect[r] = <<>> /\ ask[r] = "over"
        BY <1>0, <4>1 DEF CredentialInv
      <4>3. effect'[r] = <<c[2]>> /\ c[2] \in Ap!Values
        BY <2>1, <4>1, <4>2, ActedOn
      <4> QED BY <4>1, <4>2, <4>3 DEF Ap!TypeOK
    <3> QED BY <3>1 DEF CredentialInv
  <2>2. CASE r # c[1]
    BY <1>0, <1>1, <1>4, <2>2, ActedOn DEF Ap!Resolve, Ap!Take, Ap!ActOn, Ap!TypeOK
  <2> QED BY <2>1, <2>2
<1>5. ASSUME NEW c \in clicks, NEW edit \in BOOLEAN, Ap!Unclaimed(c, edit)
      PROVE  CredentialInv(r)'
  BY <1>0, <1>5 DEF Ap!Unclaimed, Ap!Take, CredentialInv
<1>6. ASSUME NEW c \in clicks, NEW edit \in BOOLEAN,
             \/ Ap!Answer(c, edit) \/ Ap!Reject(c, edit) \/ Ap!Approve(c, edit)
             \/ Ap!BuildFails(c, edit)
      PROVE  Same
  <2>1. /\ effect' = [effect EXCEPT ![c[1]] = Append(@, c[2])] /\ c[1] # r
        /\ row' = row \ {c[1]}
        /\ UNCHANGED <<ask, waiting, expiring, sweeping, verdict, up>>
    BY <1>0, <1>6 DEF Ap!Answer, Ap!Reject, Ap!Approve, Ap!BuildFails, Ap!Take, Ap!ActOn,
       Ap!Changes
  <2> QED BY <1>0, <2>1, ActedOn
<1>7. ASSUME Ap!Down, effect'[r] = effect[r], r \in row' <=> r \in row
      PROVE  CredentialInv(r)'
  BY <1>0, <1>7 DEF Ap!Down, CredentialInv, Ap!TypeOK
<1>8. ASSUME NEW c \in clicks, NEW edit \in BOOLEAN, Ap!CrashInBuild(c, edit)
      PROVE  CredentialInv(r)'
  <2>1. c[1] # r /\ Ap!Down /\ row' = row
        /\ effect' = [effect EXCEPT ![c[1]] = Append(@, c[2])]
    BY <1>0, <1>8 DEF Ap!CrashInBuild, Ap!Changes
  <2> QED BY <1>0, <1>7, <2>1, ActedOn
<1>9. CASE Ap!Crash
  BY <1>7, <1>9 DEF Ap!Crash
<1>10. ASSUME NEW a \in Credentials, NEW edit \in BOOLEAN,
              Ap!Expire(a) \/ Ap!Expired(a, edit) \/ Ap!Sweep(a, edit)
       PROVE  CredentialInv(r)'
  <2>1. CASE Ap!Expire(a)
    BY <1>0, <2>1 DEF Ap!Expire, Ap!cardVars, CredentialInv, Ap!TypeOK
  <2>2. CASE Ap!Expired(a, edit) \/ Ap!Sweep(a, edit)
    BY <1>0, <2>2 DEF Ap!Expired, Ap!Sweep, CredentialInv
  <2> QED BY <1>10, <2>1, <2>2
<1>11. ASSUME NEW q \in Questions, Ap!TakeAnswer(q) \/ Ap!Deadline(q)
       PROVE  Same
  BY <1>11 DEF Ap!TakeAnswer, Ap!Deadline, Ap!cardVars, Ap!credVars
<1>12. ASSUME \/ Ap!OtherWake \/ Ap!Spawned \/ Ap!SpawnFails \/ Ap!FirstPoll \/ Ap!Exits
              \/ Ap!Closed
       PROVE  Same
  BY <1>12 DEF Ap!OtherWake, Ap!Spawned, Ap!SpawnFails, Ap!FirstPoll, Ap!Exits, Ap!Closed,
     Ap!cardVars, Ap!credVars
<1>13. CASE Ap!Start
  BY <1>0, <1>13 DEF Ap!Start, Ap!cardVars, CredentialInv
<1> HIDE DEF Same
<1> QED
  BY <1>1, <1>2, <1>3, <1>4, <1>5, <1>6, <1>8, <1>9, <1>10, <1>11, <1>12, <1>13
  DEF Ap!Next, Ap!Dispatch

LEMMA ApprovalsStep ==
  ASSUME DecisionsFit, ApprovalsInv, [Ap!Next]_(Ap!vars)
  PROVE  ApprovalsInv'
<1>1. CASE Ap!Next
  BY <1>1, ApprovalsTypes, AnnouncedStep, ChangesStep, QuestionsStep, CredentialsStep
  DEF ApprovalsInv, Ap!Changes
<1>2. CASE UNCHANGED Ap!vars
  <2>1. UNCHANGED <<ask, row, card, clicked, clicks, cardsSent, waiting, expiring, sweeping,
                    verdict, onWake, box, snap, has, exitWake, stale, config, image, tag,
                    tornBuilds, behind, answers, tool, up, effect, cardFaults>>
    BY <1>2 DEF Ap!vars, Ap!cardVars, Ap!credVars, Ap!boxVars, Ap!confVars, Ap!toolVars
  <2>2. Ap!TypeOK'
    BY <2>1 DEF ApprovalsInv, Ap!TypeOK
  <2>3. \A r \in Ap!Changes : ChangeInv(r)'
    BY <2>1 DEF ApprovalsInv, ChangeInv, Open, Ap!Torn
  <2>4. \A r \in Questions : QuestionInv(r)'
    BY <2>1 DEF ApprovalsInv, QuestionInv, Open
  <2>5. \A r \in Credentials : CredentialInv(r)'
    BY <2>1 DEF ApprovalsInv, CredentialInv
  <2>6. AnnouncedIsReady'
    BY <2>1 DEF ApprovalsInv, AnnouncedIsReady
  <2> QED BY <2>2, <2>3, <2>4, <2>5, <2>6 DEF ApprovalsInv
<1> QED BY <1>1, <1>2

LEMMA ApprovalsHold ==
  ASSUME DecisionsFit, ApprovalsInv
  PROVE  Ap!FirstClickDecides /\ Ap!WaitingHasRow /\ Ap!AnnouncedIsConfigured
<1>1. \A r \in Ap!Changes : /\ r \in Ap!Requests \ Questions /\ r \notin Credentials
                            /\ Ap!Torn(r) \in Nat
  BY KindsDiffer DEF Ap!Requests, ApprovalsInv, Ap!TypeOK, Ap!Torn
<1>2. \A r \in Ap!Changes :
        /\ Len(effect[r]) <= 1 + Ap!Torn(r)
        /\ r \in row => Len(effect[r]) <= Ap!Torn(r)
        /\ r \in config => \E i \in DOMAIN effect[r] : effect[r][i] = "approve"
  <2> TAKE r \in Ap!Changes
  <2>1. Len(effect[r]) \in Nat /\ Ap!Torn(r) \in Nat
    BY <1>1 DEF ApprovalsInv, Ap!TypeOK
  <2>2. ChangeInv(r)
    BY DEF ApprovalsInv
  <2>3. Len(effect[r]) + Open(r) <= 1 + Ap!Torn(r) /\ Open(r) \in {0, 1}
        /\ (r \in row => Open(r) = 1)
    BY <2>2 DEF ChangeInv, Open
  <2>4. r \in config => \E i \in DOMAIN effect[r] : effect[r][i] = "approve"
    BY <2>2 DEF ChangeInv
  <2> HIDE DEF Open
  <2> QED BY <2>1, <2>3, <2>4
<1>3. \A r \in Questions : Len(effect[r]) <= cardsSent[r]
  BY DEF ApprovalsInv, QuestionInv, Open, Ap!TypeOK, Ap!Requests
<1>4. \A r \in Credentials :
        /\ Ap!Torn(r) = 0 /\ r \notin Questions
        /\ Len(effect[r]) <= 1 /\ (r \in row => Len(effect[r]) <= 0)
        /\ verdict[r] = "approve" <=> effect[r] = <<"approve">>
        /\ r \in waiting => /\ r \in row /\ r \notin expiring /\ r \notin sweeping
                            /\ verdict[r] = "none" /\ effect[r] = <<>>
  <2> TAKE r \in Credentials
  <2>1. CredentialInv(r)
    BY DEF ApprovalsInv
  <2>2. r \notin Installs /\ r \notin Questions
    BY KindsDiffer DEF Ap!Changes
  <2>3. r \in row => effect[r] = <<>>
    BY <2>1 DEF CredentialInv
  <2>4. Len(effect[r]) <= 1
    <3>1. CASE effect[r] = <<>>
      BY <3>1
    <3>2. ASSUME NEW v, effect[r] = <<v>>
          PROVE  Len(effect[r]) <= 1
      BY <3>2
    <3> QED BY <2>1, <3>1, <3>2 DEF CredentialInv
  <2>5. r \in waiting => effect[r] = <<>>
    BY <2>1 DEF CredentialInv
  <2> QED BY <2>1, <2>2, <2>3, <2>4, <2>5 DEF CredentialInv, Ap!Torn
<1>5. Ap!FirstClickDecides
  BY <1>1, <1>2, <1>3, <1>4 DEF Ap!FirstClickDecides, Ap!Requests, ApprovalsInv, Ap!TypeOK
<1>6. Ap!WaitingHasRow
  BY <1>4 DEF Ap!WaitingHasRow, ApprovalsInv, Ap!TypeOK
<1> QED BY <1>5, <1>6 DEF ApprovalsInv, AnnouncedIsReady, Ap!AnnouncedIsConfigured

(***************************************************************************)
(* The ncl calls: the inductive invariant.                                 *)
(***************************************************************************)
Stages == {"card", "answer", "mark"}

HandlesAt(c, s) == handling = {[call |-> c, at |-> s]}
Handles(c) == \E s \in Stages : HandlesAt(c, s)

\* The drain handles one call at a time.
OneByOne == handling = {} \/ \E c \in Calls : Handles(c)

\* How often the administrator may yet be asked about a call before the host
\* dies again.
AsksLeft(c) ==
  IF outcome[c] # "none" \/ HandlesAt(c, "mark") THEN 0
  ELSE IF response[c] = "none" THEN (IF HandlesAt(c, "answer") THEN 0 ELSE 1)
  ELSE DrainAttempts - attempts[c] - (IF HandlesAt(c, "answer") THEN 1 ELSE 0)

AsksAreFew(c) ==
  /\ cardsAsked[c] + AsksLeft(c) <= 1 + DrainAttempts * deaths
  /\ ran[c] + cards[c] <= cardsAsked[c]
  /\ attempts[c] < DrainAttempts

\* The drain holds calls that are not through.
DrainIsSound(c) ==
  /\ ncl[c] = "no" => number[c] = 0
  /\ c \in snapshot \/ Handles(c) => outcome[c] = "none"
  /\ c \in snapshot => ~Handles(c)

\* A call that was answered and is not through yet is about to be marked, or the
\* host died before it could be.
AnswerStands(c) ==
  /\ outcome[c] # "none" \/ HandlesAt(c, "mark") => response[c] # "none"
  /\ response[c] # "none" => outcome[c] = "delivered" \/ HandlesAt(c, "mark") \/ deaths > 0
  /\ outcome[c] = "failed" => deaths > 0

\* Whom a pending approval was promised to, or will be, was asked for or refused.
PromiseKept(c) ==
  /\ HandlesAt(c, "card") => command[c] \in Cl!Risky
  /\ response[c] = "approval-pending" \/ (HandlesAt(c, "answer") /\ command[c] \in Cl!Risky)
       => cardsAsked[c] > 0 \/ c \in refused

CallInv(c) == DrainIsSound(c) /\ AsksAreFew(c) /\ AnswerStands(c) /\ PromiseKept(c)

CliInv == Cl!TypeOK /\ OneByOne /\ \A c \in Calls : CallInv(c)

(***************************************************************************)
(* What the drain handles.                                                 *)
(***************************************************************************)
\* An instance has its own name for what its module extends.
LEMMA CliFinite ==
  \A S : Cl!Cardinality(S) = Cardinality(S) /\ (Cl!IsFiniteSet(S) <=> IsFiniteSet(S))
<1>1. \A S : Cl!Cardinality(S) = Cardinality(S)
  BY DEF Cl!Cardinality, Cardinality
<1>2. \A S : Cl!IsFiniteSet(S) <=> IsFiniteSet(S)
  BY Zenon DEF Cl!IsFiniteSet, IsFiniteSet
<1> QED BY <1>1, <1>2

LEMMA CliConstants ==
  ASSUME DecisionsFit
  PROVE  /\ IsFiniteSet(Calls) /\ DrainAttempts \in Nat /\ DrainAttempts > 0 /\ HostDeaths \in Nat
         /\ \A f \in CallScripts : f \in [Calls -> Cl!Commands]
<1>1. Cl!ConstantAssumption
  BY DEF DecisionsFit
<1> QED BY <1>1, CliFinite DEF Cl!ConstantAssumption

LEMMA OneRecord ==
  /\ \A c, s : {} # {[call |-> c, at |-> s]}
  /\ \A c, s, d, t : {[call |-> c, at |-> s]} = {[call |-> d, at |-> t]} => c = d /\ s = t
<1>1. ASSUME NEW c, NEW s, NEW d, NEW t, {[call |-> c, at |-> s]} = {[call |-> d, at |-> t]}
      PROVE  c = d /\ s = t
  <2>1. [call |-> c, at |-> s] = [call |-> d, at |-> t]
    BY <1>1
  <2>2. /\ [call |-> c, at |-> s].call = c /\ [call |-> d, at |-> t].call = d
        /\ [call |-> c, at |-> s].at = s /\ [call |-> d, at |-> t].at = t
    OBVIOUS
  <2> QED BY <2>1, <2>2
<1> QED BY <1>1

\* What is handled is handled alone and at one stage, before a step and after it.
LEMMA HandlesOne ==
  /\ handling = {} => \A c, s : ~HandlesAt(c, s)
  /\ \A c, s, d, t : HandlesAt(c, s) /\ HandlesAt(d, t) => c = d /\ s = t
BY OneRecord DEF HandlesAt

LEMMA HandlesOneNext ==
  /\ handling' = {} => \A c, s : ~HandlesAt(c, s)'
  /\ \A c, s, d, t : HandlesAt(c, s)' /\ HandlesAt(d, t)' => c = d /\ s = t
BY OneRecord DEF HandlesAt

\* A stage of the handling is a stage of one call.
LEMMA StageOfCall ==
  ASSUME OneByOne, NEW stage, Cl!At(stage)
  PROVE  \E c \in Calls : /\ HandlesAt(c, stage) /\ Cl!Handled.call = c
                          /\ \A s : Cl!Goes(s) => HandlesAt(c, s)'
<1>1. PICK c \in Calls, s \in Stages : handling = {[call |-> c, at |-> s]}
  BY DEF Cl!At, OneByOne, Handles, HandlesAt
<1>2. Cl!Handled = [call |-> c, at |-> s]
  BY <1>1 DEF Cl!Handled
<1>3. s = stage
  BY <1>2 DEF Cl!At
<1>4. \A t : [Cl!Handled EXCEPT !.at = t] = [call |-> c, at |-> t]
  BY <1>2
<1> QED BY <1>1, <1>2, <1>3, <1>4 DEF HandlesAt, Cl!Goes

\* The drain has a first row.
LEMMA FirstRow ==
  ASSUME Cl!TypeOK, snapshot # {}
  PROVE  Cl!First \in snapshot
<1> DEFINE numbers == {number[c] : c \in snapshot}
<1>1. numbers \subseteq Nat /\ numbers # {}
  BY DEF Cl!TypeOK
<1>2. PICK m \in numbers : \A n \in numbers : ~(n < m)
  <2>1. PICK m \in numbers : \A n \in numbers : <<n, m>> \notin OpToRel(<, Nat)
    BY <1>1, NatLessThanWellFounded, WFMin
  <2> QED BY <1>1, <2>1 DEF OpToRel
<1>3. PICK c \in snapshot : number[c] = m
  BY <1>2
<1>4. \A d \in snapshot : number[c] <= number[d]
  BY <1>1, <1>2, <1>3
<1> QED BY <1>3, <1>4 DEF Cl!First

(***************************************************************************)
(* The ncl calls: types.                                                   *)
(***************************************************************************)
LEMMA CliTypes ==
  ASSUME DecisionsFit, Cl!TypeOK, OneByOne, \A c \in Calls : DrainIsSound(c), Cl!Next
  PROVE  Cl!TypeOK' /\ OneByOne'
<1>1. ASSUME NEW c \in Calls, Cl!WriteRequest(c)
      PROVE  Cl!TypeOK' /\ OneByOne'
  <2> DEFINE numbered == {d \in Calls : number[d] # 0}
  <2>1. /\ ncl[c] = "no" /\ ncl' = [ncl EXCEPT ![c] = "polling"]
        /\ number' = [number EXCEPT ![c] = 1 + Cardinality(numbered)]
        /\ UNCHANGED <<command, snapshot, handling, attempts, outcome, response, cards, cardsAsked,
                       refused, ran, deaths>>
    BY <1>1, CliFinite DEF Cl!WriteRequest, Cl!drain
  <2>2. c \notin numbered /\ numbered \subseteq Calls \ {c}
    BY <2>1 DEF DrainIsSound
  <2>3. /\ IsFiniteSet(Calls \ {c}) /\ Cardinality(Calls \ {c}) = Cardinality(Calls) - 1
        /\ Cardinality(Calls) \in Nat
    BY CliConstants, FS_RemoveElement, FS_CardinalityType
  <2>4. Cardinality(numbered) <= Cardinality(Calls) - 1 /\ Cardinality(numbered) \in Nat
    BY <2>2, <2>3, FS_Subset, FS_CardinalityType
  <2> HIDE DEF numbered
  <2>5. number' \in [Calls -> 0..Cardinality(Calls)]
    <3>1. 1 + Cardinality(numbered) \in 0..Cardinality(Calls)
      BY <2>3, <2>4
    <3> QED BY <2>1, <3>1, CliFinite DEF Cl!TypeOK
  <2>6. ncl' \in [Calls -> {"no", "polling", "answered", "late", "killed"}]
    BY <2>1 DEF Cl!TypeOK
  <2> QED BY <2>1, <2>5, <2>6, CliFinite DEF Cl!TypeOK, OneByOne, Handles, HandlesAt
<1>2. ASSUME NEW c \in Calls,
             Cl!TakeResponse(c) \/ Cl!TimesOut(c) \/ Cl!Approve(c) \/ Cl!Reject(c)
      PROVE  Cl!TypeOK' /\ OneByOne'
  BY <1>2 DEF Cl!TakeResponse, Cl!TimesOut, Cl!Approve, Cl!Reject, Cl!KillContainer, Cl!rows,
     Cl!drain, Cl!TypeOK, OneByOne, Handles, HandlesAt
<1>3. CASE Cl!Drain
  BY <1>3 DEF Cl!Drain, Cl!rows, Cl!TypeOK, OneByOne, Handles, HandlesAt
\* One record is at most one element.
<1>4. ASSUME NEW c \in Calls, NEW s \in Stages, HandlesAt(c, s)'
      PROVE  /\ handling' \in SUBSET [call : Calls, at : Stages] /\ Cardinality(handling') <= 1
             /\ OneByOne'
  <2>1. Cardinality(handling') = 1
    BY <1>4, FS_Singleton DEF HandlesAt
  <2> QED BY <1>4, <2>1 DEF HandlesAt, Stages, OneByOne, Handles
<1>5. ASSUME handling' = {}
      PROVE  /\ handling' \in SUBSET [call : Calls, at : Stages] /\ Cardinality(handling') <= 1
             /\ OneByOne'
  BY <1>5, FS_EmptySet DEF OneByOne
<1>6. CASE Cl!Dispatch
  <2>1. PICK c \in Calls : c = Cl!First
    BY <1>6, FirstRow DEF Cl!Dispatch, Cl!TypeOK
  <2>2. PICK s \in Stages : s = IF command[c] \in Cl!Risky THEN "card" ELSE "answer"
    BY DEF Stages
  <2>3. HandlesAt(c, s)'
    BY <1>6, <2>1, <2>2 DEF Cl!Dispatch, HandlesAt
  <2> QED BY <1>4, <1>6, <2>1, <2>3, CliFinite DEF Cl!Dispatch, Cl!rows, Cl!TypeOK, Stages
<1>7. CASE Cl!RequestApproval
  <2>1. PICK c \in Calls : Cl!Handled.call = c /\ HandlesAt(c, "answer")'
    BY <1>7, StageOfCall DEF Cl!RequestApproval
  <2> QED BY <1>4, <1>7, <2>1, CliFinite DEF Cl!RequestApproval, Cl!rows, Cl!TypeOK, Stages
<1>8. CASE Cl!Respond
  <2>1. PICK c \in Calls :
           Cl!Handled.call = c /\ (Cl!Goes("mark") => HandlesAt(c, "mark")')
    BY <1>8, StageOfCall DEF Cl!Respond
  <2>2. Cl!Frame(c) \in {"none", "data", "error", "approval-pending"}
    BY Zenon DEF Cl!Frame
  <2>3. CASE response[c] = "none"
    BY <1>4, <1>8, <2>1, <2>2, <2>3, CliFinite DEF Cl!Respond, Cl!rows, Cl!TypeOK, Stages
  <2>4. CASE response[c] # "none"
    BY <1>5, <1>8, <2>1, <2>4, CliFinite DEF Cl!Respond, Cl!rows, Cl!TypeOK, Stages
  <2> QED BY <2>3, <2>4
<1>9. CASE Cl!MarkDelivered
  <2>1. PICK c \in Calls : Cl!Handled.call = c
    BY <1>9, StageOfCall DEF Cl!MarkDelivered
  <2> QED BY <1>5, <1>9, <2>1, CliFinite DEF Cl!MarkDelivered, Cl!rows, Cl!TypeOK, Stages
<1>10. CASE Cl!HostDies
  BY <1>5, <1>10, CliFinite, CliConstants DEF Cl!HostDies, Cl!rows, Cl!TypeOK, Stages
<1> QED BY <1>1, <1>2, <1>3, <1>6, <1>7, <1>8, <1>9, <1>10 DEF Cl!Next

(***************************************************************************)
(* The ncl calls: what a step does to one call.                            *)
(***************************************************************************)
CallAlone(c) ==
  /\ command'[c] = command[c] /\ (ncl'[c] = "no" => ncl[c] = "no" /\ number'[c] = number[c])
  /\ (c \in snapshot' <=> c \in snapshot) /\ \A s : HandlesAt(c, s)' <=> HandlesAt(c, s)
  /\ outcome'[c] = outcome[c] /\ attempts'[c] = attempts[c] /\ response'[c] = response[c]
  /\ cardsAsked'[c] = cardsAsked[c] /\ (c \in refused => c \in refused')
  /\ ran'[c] + cards'[c] <= ran[c] + cards[c] /\ deaths' = deaths

LEMMA AloneKeeps ==
  ASSUME Cl!TypeOK, Cl!TypeOK', NEW c \in Calls, CallInv(c), CallAlone(c)
  PROVE  CallInv(c)'
<1>1. /\ \A s : HandlesAt(c, s)' <=> HandlesAt(c, s)
      /\ Handles(c)' <=> Handles(c)
  BY DEF CallAlone, Handles
<1>2. AsksLeft(c)' = AsksLeft(c)
  BY <1>1 DEF CallAlone, AsksLeft
<1>3. DrainIsSound(c)'
  BY <1>1 DEF CallInv, CallAlone, DrainIsSound
<1>4. AsksAreFew(c)'
  <2>1. /\ cardsAsked'[c] = cardsAsked[c] /\ attempts'[c] = attempts[c] /\ deaths' = deaths
        /\ ran'[c] + cards'[c] <= ran[c] + cards[c]
    BY DEF CallAlone
  <2>2. /\ ran[c] \in Nat /\ cards[c] \in Nat /\ ran'[c] \in Nat /\ cards'[c] \in Nat
        /\ cardsAsked[c] \in Nat
    BY DEF Cl!TypeOK
  <2> QED BY <1>2, <2>1, <2>2 DEF CallInv, AsksAreFew
<1>5. AnswerStands(c)' /\ PromiseKept(c)'
  BY <1>1 DEF CallInv, CallAlone, AnswerStands, PromiseKept
<1> QED BY <1>3, <1>4, <1>5 DEF CallInv

\* A call is left alone by what is done for another one.
LEMMA OtherAlone ==
  ASSUME Cl!TypeOK, Cl!TypeOK', NEW c \in Calls, NEW d \in Calls, c # d,
         \/ handling = {} \/ Handles(d), \/ handling' = {} \/ Handles(d)',
         command' = command, ncl' = ncl, number' = number, deaths' = deaths,
         c \in snapshot' <=> c \in snapshot, refused \subseteq refused',
         outcome'[c] = outcome[c], attempts'[c] = attempts[c], response'[c] = response[c],
         cardsAsked'[c] = cardsAsked[c], ran'[c] = ran[c], cards'[c] = cards[c]
  PROVE  CallAlone(c)
<1>1. \A s : ~HandlesAt(c, s) /\ ~HandlesAt(c, s)'
  BY HandlesOne, HandlesOneNext DEF Handles
<1> QED BY <1>1 DEF CallAlone, Cl!TypeOK

\* The stages, told apart.
LEMMA AtStage ==
  ASSUME NEW c \in Calls, NEW s, HandlesAt(c, s)
  PROVE  /\ HandlesAt(c, "card") <=> s = "card"
         /\ HandlesAt(c, "answer") <=> s = "answer"
         /\ HandlesAt(c, "mark") <=> s = "mark"
BY HandlesOne

LEMMA AtStageNext ==
  ASSUME NEW c \in Calls, NEW s, HandlesAt(c, s)'
  PROVE  /\ HandlesAt(c, "card")' <=> s = "card"
         /\ HandlesAt(c, "answer")' <=> s = "answer"
         /\ HandlesAt(c, "mark")' <=> s = "mark"
BY HandlesOneNext

LEMMA AtNoStage ==
  ASSUME NEW c \in Calls, handling' = {}
  PROVE  ~HandlesAt(c, "card")' /\ ~HandlesAt(c, "answer")' /\ ~HandlesAt(c, "mark")'
BY HandlesOneNext

LEMMA DispatchKeeps ==
  ASSUME DecisionsFit, Cl!TypeOK, Cl!TypeOK', OneByOne, NEW c \in Calls, CallInv(c),
         Cl!Dispatch
  PROVE  CallInv(c)'
<1>1. PICK d \in Calls : d = Cl!First /\ d \in snapshot
  BY FirstRow DEF Cl!Dispatch, Cl!TypeOK
<1>2. PICK s \in Stages : s = IF command[d] \in Cl!Risky THEN "card" ELSE "answer"
  BY DEF Stages
<1>3. /\ HandlesAt(d, s)' /\ handling = {} /\ snapshot' = snapshot \ {d}
      /\ UNCHANGED <<command, number, ncl, outcome, attempts, response, cards, cardsAsked,
                     refused, ran, deaths>>
  BY <1>1, <1>2 DEF Cl!Dispatch, Cl!rows, HandlesAt
<1>4. CASE c # d
  BY <1>2, <1>3, <1>4, OtherAlone, AloneKeeps DEF Handles
<1>5. CASE c = d
  <2>1. /\ ~HandlesAt(c, "card") /\ ~HandlesAt(c, "answer") /\ ~HandlesAt(c, "mark")
        /\ HandlesAt(c, "card")' <=> s = "card"
        /\ HandlesAt(c, "answer")' <=> s = "answer"
        /\ ~HandlesAt(c, "mark")' /\ s \in {"card", "answer"}
    BY <1>2, <1>3, <1>5, HandlesOne, AtStageNext
  <2>2. outcome[c] = "none" /\ c \notin snapshot'
    BY <1>1, <1>3, <1>5 DEF CallInv, DrainIsSound
  <2>3. DrainIsSound(c)'
    BY <1>3, <2>2 DEF CallInv, DrainIsSound
  <2>4. AsksLeft(c)' <= AsksLeft(c) /\ AsksLeft(c)' \in Int /\ AsksLeft(c) \in Int
    BY <1>3, <2>1, <2>2, CliConstants DEF AsksLeft, Cl!TypeOK
  <2>5. AsksAreFew(c)'
    <3>1. cardsAsked[c] \in Nat /\ DrainAttempts * deaths \in Int
      BY CliConstants DEF Cl!TypeOK
    <3> QED BY <1>3, <2>4, <3>1 DEF CallInv, AsksAreFew
  <2>6. AnswerStands(c)'
    BY <1>3, <2>1 DEF CallInv, AnswerStands
  <2>7. PromiseKept(c)'
    BY <1>2, <1>3, <1>5, <2>1 DEF CallInv, PromiseKept
  <2> QED BY <2>3, <2>5, <2>6, <2>7 DEF CallInv
<1> QED BY <1>4, <1>5

LEMMA AskKeeps ==
  ASSUME DecisionsFit, Cl!TypeOK, Cl!TypeOK', OneByOne, NEW c \in Calls, CallInv(c),
         Cl!RequestApproval
  PROVE  CallInv(c)'
<1>1. PICK d \in Calls : /\ HandlesAt(d, "card") /\ Cl!Handled.call = d /\ HandlesAt(d, "answer")'
  BY StageOfCall DEF Cl!RequestApproval
<1>2. /\ UNCHANGED <<command, number, ncl, snapshot, attempts, outcome, response, ran, deaths>>
      /\ \/ /\ cards' = [cards EXCEPT ![d] = @ + 1]
            /\ cardsAsked' = [cardsAsked EXCEPT ![d] = @ + 1]
            /\ refused \subseteq refused'
         \/ refused' = refused \cup {d} /\ UNCHANGED <<cards, cardsAsked>>
  BY <1>1 DEF Cl!RequestApproval, Cl!rows
<1>3. CASE c # d
  <2>1. Handles(d) /\ Handles(d)'
    BY <1>1 DEF Handles, Stages
  <2>2. cards'[c] = cards[c] /\ cardsAsked'[c] = cardsAsked[c] /\ refused \subseteq refused'
    BY <1>2, <1>3 DEF Cl!TypeOK
  <2> QED BY <1>2, <1>3, <2>1, <2>2, OtherAlone, AloneKeeps
<1>4. CASE c = d
  <2>1. /\ HandlesAt(c, "card") /\ ~HandlesAt(c, "answer") /\ ~HandlesAt(c, "mark")
        /\ ~HandlesAt(c, "card")' /\ HandlesAt(c, "answer")' /\ ~HandlesAt(c, "mark")'
    BY <1>1, <1>4, AtStage, AtStageNext
  <2>2. outcome[c] = "none" /\ c \notin snapshot
    BY <1>1, <1>4 DEF CallInv, DrainIsSound, Handles, Stages
  <2>3. DrainIsSound(c)'
    BY <1>2, <2>2 DEF CallInv, DrainIsSound
  <2>4. AsksLeft(c)' = AsksLeft(c) - 1 /\ AsksLeft(c) \in Int
    BY <1>2, <2>1, <2>2, CliConstants DEF AsksLeft, Cl!TypeOK
  <2>5. \/ cardsAsked'[c] = cardsAsked[c] + 1 /\ cards'[c] = cards[c] + 1
        \/ cardsAsked'[c] = cardsAsked[c] /\ cards'[c] = cards[c] /\ c \in refused'
    BY <1>2, <1>4 DEF Cl!TypeOK
  <2>6. cardsAsked[c] \in Nat /\ cards[c] \in Nat /\ ran[c] \in Nat /\ DrainAttempts * deaths \in Int
    BY CliConstants DEF Cl!TypeOK
  <2>7. AsksAreFew(c)'
    BY <1>2, <2>4, <2>5, <2>6 DEF CallInv, AsksAreFew
  <2>8. AnswerStands(c)'
    BY <1>2, <2>1 DEF CallInv, AnswerStands
  <2>9. PromiseKept(c)'
    BY <2>1, <2>5, <2>6 DEF PromiseKept
  <2> QED BY <2>3, <2>7, <2>8, <2>9 DEF CallInv
<1> QED BY <1>3, <1>4

LEMMA RespondKeeps ==
  ASSUME DecisionsFit, Cl!TypeOK, Cl!TypeOK', OneByOne, NEW c \in Calls, CallInv(c),
         Cl!Respond
  PROVE  CallInv(c)'
<1>1. PICK d \in Calls : /\ HandlesAt(d, "answer") /\ Cl!Handled.call = d
                         /\ (Cl!Goes("mark") => HandlesAt(d, "mark")')
  BY StageOfCall DEF Cl!Respond
<1>2. /\ UNCHANGED <<command, number, ncl, snapshot, cards, cardsAsked, refused, ran, deaths>>
      /\ \/ /\ response[d] = "none" /\ HandlesAt(d, "mark")'
            /\ response' = [response EXCEPT ![d] = Cl!Frame(d)] /\ UNCHANGED <<attempts, outcome>>
         \/ /\ response[d] # "none" /\ handling' = {} /\ response' = response
            /\ \/ /\ attempts[d] + 1 >= DrainAttempts
                  /\ outcome' = [outcome EXCEPT ![d] = "failed"]
                  /\ attempts' = [attempts EXCEPT ![d] = 0]
               \/ /\ ~(attempts[d] + 1 >= DrainAttempts) /\ outcome' = outcome
                  /\ attempts' = [attempts EXCEPT ![d] = @ + 1]
  BY <1>1 DEF Cl!Respond, Cl!rows
<1>3. CASE c # d
  <2>1. Handles(d) /\ (handling' = {} \/ Handles(d)')
    BY <1>1, <1>2 DEF Handles, Stages
  <2>2. response'[c] = response[c] /\ attempts'[c] = attempts[c] /\ outcome'[c] = outcome[c]
    BY <1>2, <1>3 DEF Cl!TypeOK
  <2> QED BY <1>2, <1>3, <2>1, <2>2, OtherAlone, AloneKeeps
<1>4. CASE c = d
  <2>1. ~HandlesAt(c, "card") /\ HandlesAt(c, "answer") /\ ~HandlesAt(c, "mark")
    BY <1>1, <1>4, AtStage
  <2>2. outcome[c] = "none" /\ c \notin snapshot
    BY <1>1, <1>4 DEF CallInv, DrainIsSound, Handles, Stages
  <2>3. /\ cardsAsked[c] \in Nat /\ attempts[c] \in Nat /\ DrainAttempts * deaths \in Int
        /\ DrainAttempts \in Nat /\ DrainAttempts > 0
    BY CliConstants DEF Cl!TypeOK
  <2>4. CASE response[c] = "none"
    <3>1. /\ HandlesAt(c, "mark")' /\ ~HandlesAt(c, "card")' /\ ~HandlesAt(c, "answer")'
      BY <1>2, <1>4, <2>4, AtStageNext
    <3>2. /\ response'[c] = Cl!Frame(c) /\ attempts' = attempts /\ outcome' = outcome
      BY <1>2, <1>4, <2>4 DEF Cl!TypeOK
    <3>3. /\ Cl!Frame(c) # "none"
          /\ Cl!Frame(c) = "approval-pending" => command[c] \in Cl!Risky
      <4>1. command[c] \in Cl!Commands
        BY CliConstants DEF Cl!TypeOK
      <4> QED BY <4>1, Zenon DEF Cl!Frame, Cl!Commands
    <3>4. AsksLeft(c)' = 0 /\ AsksLeft(c) = 0
      BY <2>1, <2>2, <2>4, <3>1 DEF AsksLeft
    <3>5. DrainIsSound(c)'
      BY <1>2, <2>2, <3>2 DEF CallInv, DrainIsSound
    <3>6. AsksAreFew(c)'
      BY <1>2, <3>2, <3>4 DEF CallInv, AsksAreFew
    <3>7. AnswerStands(c)'
      BY <1>2, <2>2, <3>1, <3>2, <3>3 DEF AnswerStands
    <3>8. PromiseKept(c)'
      BY <1>2, <2>1, <3>1, <3>2, <3>3 DEF CallInv, PromiseKept
    <3> QED BY <3>5, <3>6, <3>7, <3>8 DEF CallInv
  <2>5. CASE response[c] # "none"
    <3>1. ~HandlesAt(c, "mark")' /\ ~HandlesAt(c, "card")' /\ ~HandlesAt(c, "answer")'
      BY <1>2, <1>4, <2>5, AtNoStage
    <3>2. /\ response' = response
          /\ \/ attempts[c] + 1 >= DrainAttempts /\ outcome'[c] = "failed" /\ attempts'[c] = 0
             \/ /\ attempts[c] + 1 < DrainAttempts /\ outcome'[c] = "none"
                /\ attempts'[c] = attempts[c] + 1
      BY <1>2, <1>4, <2>2, <2>3, <2>5 DEF Cl!TypeOK
    <3>3. deaths > 0
      BY <2>1, <2>2, <2>5 DEF CallInv, AnswerStands
    <3>4. AsksLeft(c)' <= AsksLeft(c) /\ AsksLeft(c)' \in Int /\ AsksLeft(c) \in Int
      BY <2>1, <2>2, <2>3, <2>5, <3>1, <3>2 DEF AsksLeft, CallInv, AsksAreFew
    <3>5. DrainIsSound(c)'
      <4>1. ~Handles(c)'
        BY <3>1 DEF Handles, Stages
      <4> QED BY <1>2, <2>2, <4>1 DEF CallInv, DrainIsSound
    <3>6. AsksAreFew(c)'
      BY <1>2, <2>3, <3>2, <3>4 DEF CallInv, AsksAreFew
    <3>7. AnswerStands(c)'
      BY <1>2, <2>5, <3>2, <3>3 DEF AnswerStands
    <3>8. PromiseKept(c)'
      BY <1>2, <3>1, <3>2 DEF CallInv, PromiseKept
    <3> QED BY <3>5, <3>6, <3>7, <3>8 DEF CallInv
  <2> QED BY <2>4, <2>5
<1> QED BY <1>3, <1>4

LEMMA MarkKeeps ==
  ASSUME DecisionsFit, Cl!TypeOK, Cl!TypeOK', OneByOne, NEW c \in Calls, CallInv(c),
         Cl!MarkDelivered
  PROVE  CallInv(c)'
<1>1. PICK d \in Calls : HandlesAt(d, "mark") /\ Cl!Handled.call = d
  BY StageOfCall DEF Cl!MarkDelivered
<1>2. /\ UNCHANGED <<command, number, ncl, snapshot, response, cards, cardsAsked, refused, ran,
                     deaths>>
      /\ handling' = {} /\ outcome' = [outcome EXCEPT ![d] = "delivered"]
      /\ attempts' = [attempts EXCEPT ![d] = 0]
  BY <1>1 DEF Cl!MarkDelivered, Cl!rows
<1>3. CASE c # d
  <2>1. Handles(d)
    BY <1>1 DEF Handles, Stages
  <2>2. attempts'[c] = attempts[c] /\ outcome'[c] = outcome[c]
    BY <1>2, <1>3 DEF Cl!TypeOK
  <2> QED BY <1>2, <1>3, <2>1, <2>2, OtherAlone, AloneKeeps
<1>4. CASE c = d
  <2>1. /\ HandlesAt(c, "mark")
        /\ ~HandlesAt(c, "mark")' /\ ~HandlesAt(c, "card")' /\ ~HandlesAt(c, "answer")'
    BY <1>1, <1>2, <1>4, AtNoStage
  <2>2. outcome'[c] = "delivered" /\ attempts'[c] = 0 /\ c \notin snapshot /\ ~Handles(c)'
    BY <1>1, <1>2, <1>4, <2>1 DEF CallInv, DrainIsSound, Handles, Stages, Cl!TypeOK
  <2>3. AsksLeft(c)' = 0 /\ AsksLeft(c) = 0
    BY <2>1, <2>2 DEF AsksLeft
  <2>4. DrainIsSound(c)'
    BY <1>2, <2>2 DEF CallInv, DrainIsSound
  <2>5. AsksAreFew(c)'
    BY <1>2, <2>2, <2>3, CliConstants DEF CallInv, AsksAreFew
  <2>6. AnswerStands(c)'
    BY <1>2, <2>1, <2>2 DEF CallInv, AnswerStands
  <2>7. PromiseKept(c)'
    BY <1>2, <2>1 DEF CallInv, PromiseKept
  <2> QED BY <2>4, <2>5, <2>6, <2>7 DEF CallInv
<1> QED BY <1>3, <1>4

\* A death of the host buys as many further cards as a row has attempts.
LEMMA DeathKeeps ==
  ASSUME DecisionsFit, Cl!TypeOK, Cl!TypeOK', NEW c \in Calls, CallInv(c), Cl!HostDies
  PROVE  CallInv(c)'
<1>1. /\ UNCHANGED <<command, number, ncl, outcome, response, cards, cardsAsked, refused, ran>>
      /\ deaths' = deaths + 1 /\ snapshot' = {} /\ handling' = {} /\ attempts'[c] = 0
  BY DEF Cl!HostDies, Cl!rows
<1>2. ~HandlesAt(c, "mark")' /\ ~HandlesAt(c, "card")' /\ ~HandlesAt(c, "answer")' /\ ~Handles(c)'
  BY <1>1, AtNoStage DEF Handles, Stages
<1>3. /\ cardsAsked[c] \in Nat /\ attempts[c] \in Nat /\ deaths \in Nat
      /\ DrainAttempts \in Nat /\ DrainAttempts > 0
  BY CliConstants DEF Cl!TypeOK
<1>4. AsksLeft(c) \in Nat
  BY <1>3 DEF AsksLeft, CallInv, AsksAreFew
<1>5. AsksLeft(c)' <= DrainAttempts /\ AsksLeft(c)' \in Nat
  BY <1>1, <1>2, <1>3 DEF AsksLeft
<1>6. DrainAttempts * deaths' = DrainAttempts * deaths + DrainAttempts
      /\ DrainAttempts * deaths \in Nat
  BY <1>1, <1>3
<1>7. DrainIsSound(c)'
  BY <1>1, <1>2 DEF CallInv, DrainIsSound
<1>8. AsksAreFew(c)'
  <2>1. cardsAsked[c] + AsksLeft(c)' <= 1 + DrainAttempts * deaths'
    BY <1>3, <1>4, <1>5, <1>6 DEF CallInv, AsksAreFew
  <2> QED BY <1>1, <1>3, <2>1 DEF CallInv, AsksAreFew
<1>9. AnswerStands(c)'
  BY <1>1, <1>2, <1>3 DEF CallInv, AnswerStands
<1>10. PromiseKept(c)'
  BY <1>1, <1>2 DEF CallInv, PromiseKept
<1> QED BY <1>7, <1>8, <1>9, <1>10 DEF CallInv

LEMMA CliStep ==
  ASSUME DecisionsFit, CliInv, [Cl!Next]_(Cl!vars)
  PROVE  CliInv'
<1>1. CASE UNCHANGED Cl!vars
  <2>1. UNCHANGED <<command, number, ncl, snapshot, handling, attempts, outcome, response, cards,
                    cardsAsked, refused, ran, deaths>>
    BY <1>1 DEF Cl!vars, Cl!rows, Cl!drain
  <2>2. Cl!TypeOK' /\ OneByOne'
    BY <2>1 DEF CliInv, Cl!TypeOK, OneByOne, Handles, HandlesAt
  <2>3. ASSUME NEW c \in Calls
        PROVE  CallInv(c)'
    BY <2>1 DEF CliInv, CallInv, DrainIsSound, AsksAreFew, AsksLeft, AnswerStands, PromiseKept,
       Handles, HandlesAt
  <2> QED BY <2>2, <2>3 DEF CliInv
<1>2. CASE Cl!Next
  <2>1. Cl!TypeOK /\ OneByOne /\ Cl!TypeOK' /\ OneByOne'
    BY <1>2, CliTypes DEF CliInv, CallInv
  <2> SUFFICES ASSUME NEW c \in Calls
               PROVE  CallInv(c)'
    BY <2>1 DEF CliInv
  <2>2. CallInv(c)
    BY DEF CliInv
  <2>3. ASSUME handling' = handling
        PROVE  \A s : HandlesAt(c, s)' <=> HandlesAt(c, s)
    BY <2>3 DEF HandlesAt
  <2>4. ASSUME NEW d \in Calls,
               \/ Cl!WriteRequest(d) \/ Cl!TakeResponse(d) \/ Cl!TimesOut(d) \/ Cl!Approve(d)
               \/ Cl!Reject(d)
        PROVE  CallAlone(c)
    <3>1. CASE Cl!WriteRequest(d)
      BY <2>1, <2>3, <3>1 DEF Cl!WriteRequest, Cl!drain, CallAlone, Cl!TypeOK
    <3>2. CASE Cl!TakeResponse(d) \/ Cl!TimesOut(d)
      BY <2>1, <2>3, <3>2 DEF Cl!TakeResponse, Cl!TimesOut, Cl!rows, Cl!drain, CallAlone, Cl!TypeOK
    <3>3. CASE Cl!Approve(d) \/ Cl!Reject(d)
      <4>1. ncl'[c] = "no" => ncl[c] = "no"
        BY <2>1, <3>3 DEF Cl!Approve, Cl!Reject, Cl!KillContainer, Cl!TypeOK
      <4>2. ran'[c] + cards'[c] <= ran[c] + cards[c]
        BY <2>1, <3>3 DEF Cl!Approve, Cl!Reject, Cl!TypeOK
      <4> QED BY <2>3, <3>3, <4>1, <4>2 DEF Cl!Approve, Cl!Reject, Cl!rows, Cl!drain, CallAlone
    <3> QED BY <2>4, <3>1, <3>2, <3>3
  <2>5. CASE Cl!Drain
    <3>1. /\ UNCHANGED <<command, number, ncl, handling, attempts, outcome, response, cards,
                         cardsAsked, refused, ran, deaths>>
          /\ c \in snapshot' => outcome[c] = "none"
          /\ handling = {}
      BY <2>5 DEF Cl!Drain, Cl!rows
    <3>2. (\A s : HandlesAt(c, s)' <=> HandlesAt(c, s)) /\ ~Handles(c) /\ ~Handles(c)'
      BY <2>3, <3>1, HandlesOne DEF Handles
    <3>3. DrainIsSound(c)'
      BY <2>2, <3>1, <3>2 DEF CallInv, DrainIsSound
    <3>4. AsksAreFew(c)' /\ AnswerStands(c)' /\ PromiseKept(c)'
      BY <2>2, <3>1, <3>2 DEF CallInv, AsksAreFew, AsksLeft, AnswerStands, PromiseKept
    <3> QED BY <3>3, <3>4 DEF CallInv
  <2> QED
    BY <1>2, <2>1, <2>2, <2>4, <2>5, AloneKeeps, DispatchKeeps, AskKeeps, RespondKeeps, MarkKeeps,
       DeathKeeps
    DEF Cl!Next
<1> QED BY <1>1, <1>2

LEMMA CliInit == ASSUME DecisionsFit, Cl!Init PROVE CliInv
<1>1. Cl!TypeOK
  BY CliConstants, CliFinite, FS_EmptySet, FS_CardinalityType DEF Cl!Init, Cl!TypeOK
<1>2. OneByOne /\ \A c, s : ~HandlesAt(c, s)
  BY HandlesOne DEF Cl!Init, OneByOne
<1>3. ASSUME NEW c \in Calls
      PROVE  CallInv(c)
  <2>1. DrainIsSound(c)
    BY <1>2 DEF Cl!Init, DrainIsSound, Handles
  <2>2. AsksAreFew(c)
    BY <1>2, CliConstants DEF Cl!Init, AsksAreFew, AsksLeft
  <2>3. AnswerStands(c) /\ PromiseKept(c)
    BY <1>2 DEF Cl!Init, AnswerStands, PromiseKept
  <2> QED BY <2>1, <2>2, <2>3 DEF CallInv
<1> QED BY <1>1, <1>2, <1>3 DEF CliInv

LEMMA CliHolds == ASSUME DecisionsFit, CliInv PROVE Cl!AskedOnce /\ Cl!AnsweredWhenDone
<1> SUFFICES ASSUME NEW c \in Calls
             PROVE  /\ cardsAsked[c] <= 1 + DrainAttempts * deaths
                    /\ ran[c] + cards[c] <= cardsAsked[c]
                    /\ outcome[c] # "none" => response[c] # "none"
                    /\ outcome[c] = "failed" => deaths > 0
                    /\ response[c] = "approval-pending" => cardsAsked[c] > 0 \/ c \in refused
  BY DEF Cl!AskedOnce, Cl!AnsweredWhenDone
<1>1. CallInv(c) /\ Cl!TypeOK
  BY DEF CliInv
<1>2. /\ cardsAsked[c] \in Nat /\ attempts[c] \in Nat /\ deaths \in Nat
      /\ DrainAttempts \in Nat /\ DrainAttempts > 0
  BY <1>1, CliConstants DEF Cl!TypeOK
<1>3. AsksLeft(c) \in Nat
  BY <1>1, <1>2 DEF AsksLeft, CallInv, AsksAreFew
<1>4. DrainAttempts * deaths \in Nat
  BY <1>2
<1>5. cardsAsked[c] <= 1 + DrainAttempts * deaths
  BY <1>1, <1>2, <1>3, <1>4 DEF CallInv, AsksAreFew
<1> QED BY <1>1, <1>5 DEF CallInv, AsksAreFew, AnswerStands, PromiseKept

(***************************************************************************)
(* The dashboard.                                                          *)
(***************************************************************************)
LinkStates == {"disconnected", "qr_pending", "connected"}
Figures ==
  {"containers", "utilization", "stats", "spend", "queues", "healthy", "degraded", "unhealthy"}
ScreenType ==
  [link : Co!Links, drawing : SUBSET Codes, crossed : BOOLEAN, emits : Seq(LinkStates),
   read : LinkStates \cup {"blank"}, overtaken : BOOLEAN, timer : BOOLEAN,
   pages : [Pages -> [status : LinkStates \cup {"closed", "blank"}, figures : SUBSET Figures]]]

\* A code waits only while one is pending, and a picture is of it or drawn across a change.
LinkOK(l, drawn, crossed) ==
  /\ l.qr # "none" => l.status = "qr_pending"
  /\ l.url # "none" /\ drawn = {} => (l.status = "qr_pending" /\ l.url = l.qr) \/ crossed

\* The newest update under way has what was read last; with none, the page shows it.
FedOK(emits, newest, overtaken, ticking, pages, n) ==
  /\ Len(emits) <= 2
  /\ emits # <<>> => overtaken \/ emits[Len(emits)] = newest
  /\ \A p \in Pages : pages[p].status # "closed" =>
       /\ ticking
       /\ emits # <<>> \/ overtaken \/ pages[p].status = newest
       /\ pages[p].status = "blank" \/ pages[p].figures = Co!Read("all") \/ n > 0

ScreenOK(s, n) ==
  /\ s \in ScreenType
  /\ LinkOK(s.link, s.drawing, s.crossed)
  /\ FedOK(s.emits, s.read, s.overtaken, s.timer, s.pages, n)

ConsoleCounts == desk \in Co!Desks /\ moves \in 0..MaxMoves /\ deskFaults \in 0..MaxDeskFaults

\* Steps cost a move, a fault, or neither.
LEMMA ConsoleConstants ==
  ASSUME DecisionsFit
  PROVE  MaxRecords \in Nat \ {0} /\ MaxMoves \in Nat /\ MaxDeskFaults \in Nat /\ "none" \notin Codes
BY DEF DecisionsFit, Co!ConstantAssumption

LEMMA ConsoleCountsStep ==
  ASSUME DecisionsFit, ConsoleCounts, desk' = desk, Co!Still \/ Co!Move, Co!Fine \/ Co!Fault
  PROVE  ConsoleCounts' /\ deskFaults \in Nat /\ deskFaults' \in Nat /\ deskFaults <= deskFaults'
         /\ (Co!Fault => deskFaults' = deskFaults + 1)
BY ConsoleConstants DEF ConsoleCounts, Co!Still, Co!Move, Co!Fine, Co!Fault

LEMMA ScreenStays ==
  ASSUME ScreenOK(screen, deskFaults), screen' = screen, deskFaults \in Nat, deskFaults' \in Nat,
         deskFaults <= deskFaults'
  PROVE  ScreenOK(screen', deskFaults')
<1>1. deskFaults > 0 => deskFaults' > 0
  OBVIOUS
<1> QED BY <1>1 DEF ScreenOK, FedOK

\* A step of the link, and a step of the updates.
Linked(l, d, c) ==
  [link |-> l, drawing |-> d, crossed |-> c, emits |-> screen.emits, read |-> screen.read,
   overtaken |-> screen.overtaken, timer |-> screen.timer, pages |-> screen.pages]
Fed(e, r, o, t, g) ==
  [link |-> screen.link, drawing |-> screen.drawing, crossed |-> screen.crossed, emits |-> e,
   read |-> r, overtaken |-> o, timer |-> t, pages |-> g]

LEMMA LinkMoves ==
  ASSUME ScreenOK(screen, deskFaults), deskFaults \in Nat, deskFaults' \in Nat, deskFaults <= deskFaults',
         NEW l \in Co!Links, NEW d \in SUBSET Codes, NEW c \in BOOLEAN, LinkOK(l, d, c),
         screen' = Linked(l, d, c)
  PROVE  ScreenOK(screen', deskFaults')
<1>1. screen' \in ScreenType
  BY DEF ScreenOK, ScreenType, Linked
<1>2. LinkOK(screen'.link, screen'.drawing, screen'.crossed)
  BY DEF Linked
<1>3. deskFaults > 0 => deskFaults' > 0
  OBVIOUS
<1>4. FedOK(screen'.emits, screen'.read, screen'.overtaken, screen'.timer, screen'.pages, deskFaults')
  BY <1>3 DEF Linked, ScreenOK, FedOK
<1> QED BY <1>1, <1>2, <1>4 DEF ScreenOK

LEMMA FeedMoves ==
  ASSUME ScreenOK(screen, deskFaults), NEW e \in Seq(LinkStates), NEW r \in LinkStates \cup {"blank"},
         NEW o \in BOOLEAN, NEW t \in BOOLEAN,
         NEW g \in [Pages -> [status : LinkStates \cup {"closed", "blank"}, figures : SUBSET Figures]],
         FedOK(e, r, o, t, g, deskFaults'), screen' = Fed(e, r, o, t, g)
  PROVE  ScreenOK(screen', deskFaults')
<1>1. screen' \in ScreenType
  BY DEF ScreenOK, ScreenType, Fed
<1>2. LinkOK(screen'.link, screen'.drawing, screen'.crossed)
  BY DEF Fed, ScreenOK
<1>3. FedOK(screen'.emits, screen'.read, screen'.overtaken, screen'.timer, screen'.pages, deskFaults')
  BY DEF Fed
<1> QED BY <1>1, <1>2, <1>3 DEF ScreenOK

LEMMA ScreenParts ==
  ASSUME ScreenOK(screen, deskFaults)
  PROVE  /\ screen \in ScreenType /\ screen.link \in Co!Links /\ screen.drawing \in SUBSET Codes
         /\ screen.crossed \in BOOLEAN /\ screen.emits \in Seq(LinkStates)
         /\ screen.read \in LinkStates \cup {"blank"} /\ screen.overtaken \in BOOLEAN /\ screen.timer \in BOOLEAN
         /\ screen.pages \in [Pages -> [status : LinkStates \cup {"closed", "blank"}, figures : SUBSET Figures]]
         /\ LinkOK(screen.link, screen.drawing, screen.crossed)
         /\ FedOK(screen.emits, screen.read, screen.overtaken, screen.timer, screen.pages, deskFaults)
         /\ screen.link.status \in LinkStates
BY DEF ScreenOK, ScreenType, Co!Links, LinkStates

LEMMA ScreenSetQrCode ==
  ASSUME DecisionsFit, ScreenOK(screen, deskFaults), ConsoleCounts, NEW q \in Codes, Co!SetQrCode(q)
  PROVE  ScreenOK(screen', deskFaults')
<1> DEFINE l == [screen.link EXCEPT !.status = "qr_pending", !.qr = q]
           d == screen.drawing \cup {q}
<1>1. deskFaults \in Nat /\ deskFaults' = deskFaults
  BY DEF Co!SetQrCode, Co!Fine, ConsoleCounts
<1>2. screen' = Linked(l, d, screen.crossed)
  BY ScreenParts DEF Co!SetQrCode, Linked, ScreenType
<1>3. l \in Co!Links /\ l.qr = q /\ l.status = "qr_pending"
  BY ScreenParts DEF Co!Links
<1>4. d \in SUBSET Codes /\ d # {}
  BY ScreenParts
<1> HIDE DEF l, d
<1>5. LinkOK(l, d, screen.crossed)
  BY <1>3, <1>4 DEF LinkOK
<1> QED BY <1>1, <1>2, <1>3, <1>4, <1>5, ScreenParts, LinkMoves

LEMMA ScreenDrawn ==
  ASSUME DecisionsFit, ScreenOK(screen, deskFaults), ConsoleCounts, NEW q \in Codes, Co!Drawn(q)
  PROVE  ScreenOK(screen', deskFaults')
<1> DEFINE l == [screen.link EXCEPT !.url = q]
           c == q # screen.link.qr
           d == screen.drawing \ {q}
<1>1. deskFaults \in Nat /\ deskFaults' = deskFaults
  BY DEF Co!Drawn, Co!Fine, ConsoleCounts
<1>2. screen' = Linked(l, d, c)
  BY ScreenParts DEF Co!Drawn, Linked, ScreenType
<1>3. l \in Co!Links /\ l.qr = screen.link.qr /\ l.status = screen.link.status /\ l.url = q
  BY ScreenParts DEF Co!Links
<1>4. d \in SUBSET Codes
  BY ScreenParts
<1>7. deskFaults \in Nat /\ deskFaults' \in Nat /\ deskFaults <= deskFaults'
  BY <1>1
<1>8. c \in BOOLEAN
  OBVIOUS
<1>5. LinkOK(l, d, c)
  BY <1>3, ScreenParts, ConsoleConstants DEF LinkOK
<1> HIDE DEF l, d, c
<1> QED BY <1>2, <1>3, <1>4, <1>5, <1>7, <1>8, LinkMoves

LEMMA ScreenDrawFails ==
  ASSUME DecisionsFit, ScreenOK(screen, deskFaults), ConsoleCounts, NEW q \in Codes, Co!DrawFails(q)
  PROVE  ScreenOK(screen', deskFaults')
<1> DEFINE l == [screen.link EXCEPT !.url = "none"]
           d == screen.drawing \ {q}
<1>1. deskFaults \in Nat /\ deskFaults' = deskFaults + 1
  BY DEF Co!DrawFails, Co!Fault, ConsoleCounts
<1>2. screen' = Linked(l, d, FALSE)
  BY ScreenParts DEF Co!DrawFails, Linked, ScreenType
<1>3. l \in Co!Links /\ l.qr = screen.link.qr /\ l.status = screen.link.status /\ l.url = "none"
  BY ScreenParts DEF Co!Links
<1>4. d \in SUBSET Codes
  BY ScreenParts
<1> HIDE DEF l, d
<1>5. LinkOK(l, d, FALSE)
  BY <1>3, ScreenParts DEF LinkOK
<1>7. deskFaults \in Nat /\ deskFaults' \in Nat /\ deskFaults <= deskFaults'
  BY <1>1
<1>8. FALSE \in BOOLEAN
  OBVIOUS
<1> QED BY <1>2, <1>3, <1>4, <1>5, <1>7, <1>8, LinkMoves

LEMMA ScreenCleared ==
  ASSUME DecisionsFit, ScreenOK(screen, deskFaults), ConsoleCounts,
         Co!SetWhatsAppConnected \/ Co!SetWhatsAppDisconnected
  PROVE  ScreenOK(screen', deskFaults')
<1>1. deskFaults \in Nat /\ deskFaults' = deskFaults
  BY DEF Co!SetWhatsAppConnected, Co!SetWhatsAppDisconnected, Co!Fine, ConsoleCounts
<1>2. Co!Off = [status |-> "disconnected", qr |-> "none", url |-> "none"]
      /\ Co!On = [status |-> "connected", qr |-> "none", url |-> "none"]
  BY DEF Co!Off, Co!On
<1>3. PICK l \in {Co!Off, Co!On} : screen' = Co!Cleared(l)
  BY DEF Co!SetWhatsAppConnected, Co!SetWhatsAppDisconnected
<1>4. l \in Co!Links /\ l.qr = "none" /\ l.url = "none"
  BY <1>2, <1>3 DEF Co!Links
<1>5. screen' = Linked(l, screen.drawing, FALSE)
  BY <1>3, ScreenParts DEF Co!Cleared, Linked, ScreenType
<1>6. LinkOK(l, screen.drawing, FALSE)
  BY <1>4 DEF LinkOK
<1>7. deskFaults \in Nat /\ deskFaults' \in Nat /\ deskFaults <= deskFaults'
  BY <1>1
<1>8. FALSE \in BOOLEAN
  OBVIOUS
<1>9. screen.drawing \in SUBSET Codes
  BY ScreenParts
<1> QED BY <1>4, <1>5, <1>6, <1>7, <1>8, <1>9, LinkMoves

LEMMA EmitsGrow ==
  ASSUME NEW e \in Seq(LinkStates), Len(e) < 2, NEW x \in LinkStates
  PROVE  /\ Append(e, x) \in Seq(LinkStates) /\ Append(e, x) # <<>> /\ Len(Append(e, x)) <= 2
         /\ Append(e, x)[Len(Append(e, x))] = x
OBVIOUS

LEMMA ScreenHandleSse ==
  ASSUME DecisionsFit, ScreenOK(screen, deskFaults), ConsoleCounts, NEW w \in Pages, Co!HandleSse(w)
  PROVE  ScreenOK(screen', deskFaults')
<1> DEFINE e == Append(screen.emits, screen.link.status)
           g == [screen.pages EXCEPT ![w].status = "blank"]
<1>1. deskFaults' = deskFaults
  BY DEF Co!HandleSse, Co!Fine
<1>2. screen' = Fed(e, screen.link.status, screen.overtaken, TRUE, g)
  BY ScreenParts DEF Co!HandleSse, Co!Emit, Fed, ScreenType
<1>3. e \in Seq(LinkStates) /\ e # <<>> /\ Len(e) <= 2 /\ e[Len(e)] = screen.link.status
  BY ScreenParts, EmitsGrow DEF Co!HandleSse
<1>4. g \in [Pages -> [status : LinkStates \cup {"closed", "blank"}, figures : SUBSET Figures]]
  BY ScreenParts
<1>5. g[w].status = "blank" /\ \A p \in Pages : p # w => g[p] = screen.pages[p]
  BY ScreenParts
<1> HIDE DEF e, g
<1>6. FedOK(e, screen.link.status, screen.overtaken, TRUE, g, deskFaults')
  BY <1>1, <1>3, <1>5, ScreenParts DEF FedOK
<1>7. screen.link.status \in LinkStates \cup {"blank"} /\ screen.overtaken \in BOOLEAN /\ TRUE \in BOOLEAN
  BY ScreenParts
<1> QED BY <1>2, <1>3, <1>4, <1>6, <1>7, FeedMoves

LEMMA ScreenTick ==
  ASSUME DecisionsFit, ScreenOK(screen, deskFaults), ConsoleCounts, Co!Tick
  PROVE  ScreenOK(screen', deskFaults')
<1> DEFINE e == Append(screen.emits, screen.link.status)
<1>1. deskFaults' = deskFaults
  BY DEF Co!Tick, Co!Fine
<1>2. screen' = Fed(e, screen.link.status, screen.overtaken, screen.timer, screen.pages)
  BY ScreenParts DEF Co!Tick, Co!Emit, Fed, ScreenType
<1>3. e \in Seq(LinkStates) /\ e # <<>> /\ Len(e) <= 2 /\ e[Len(e)] = screen.link.status
  BY ScreenParts, EmitsGrow DEF Co!Tick
<1> HIDE DEF e
<1>6. FedOK(e, screen.link.status, screen.overtaken, screen.timer, screen.pages, deskFaults')
  BY <1>1, <1>3, ScreenParts DEF FedOK
<1> QED BY <1>2, <1>3, <1>6, ScreenParts, FeedMoves

LEMMA EmitsShrink ==
  ASSUME NEW e \in Seq(LinkStates), Len(e) <= 2, NEW i \in DOMAIN e
  PROVE  /\ Co!RemoveAt(e, i) \in Seq(LinkStates) /\ Len(Co!RemoveAt(e, i)) <= 2
         /\ Co!RemoveAt(e, i) # <<>> /\ i = 1 =>
              Co!RemoveAt(e, i)[Len(Co!RemoveAt(e, i))] = e[Len(e)]
         /\ Co!RemoveAt(e, i) = <<>> /\ i = 1 => e[i] = e[Len(e)]
         /\ e[i] \in LinkStates /\ i \in Nat
<1> DEFINE p == SubSeq(e, 1, i - 1)
           q == SubSeq(e, i + 1, Len(e))
           r == p \o q
<1>1. i \in 1..Len(e) /\ Len(e) \in Nat /\ e[i] \in LinkStates
  OBVIOUS
<1>2. p \in Seq(LinkStates) /\ Len(p) = i - 1
  BY <1>1
<1>3. q \in Seq(LinkStates) /\ Len(q) = Len(e) - i /\ \A k \in 1..Len(q) : q[k] = e[k + i]
  <2>1. q \in Seq(LinkStates)
    <3>1. \A k \in (i + 1)..Len(e) : e[k] \in LinkStates
      BY <1>1
    <3> QED BY <1>1, <3>1
  <2>2. Len(q) = Len(e) - i
    BY <1>1
  <2>3. ASSUME NEW k \in 1..(Len(e) - i) PROVE q[k] = e[k + i]
    <3>1. q[k] = e[i + 1 + k - 1] /\ i + 1 + k - 1 = k + i
      BY <1>1
    <3> QED BY <3>1
  <2> QED BY <2>1, <2>2, <2>3
<1> HIDE DEF p, q
<1>4. r \in Seq(LinkStates) /\ Len(r) = Len(p) + Len(q)
      /\ \A k \in 1..Len(q) : r[Len(p) + k] = q[k]
  <2>1. p \in Seq(LinkStates) /\ q \in Seq(LinkStates) /\ Len(p) \in Nat /\ Len(q) \in Nat
    BY <1>2, <1>3
  <2>2. r \in Seq(LinkStates) /\ Len(r) = Len(p) + Len(q)
    BY <2>1
  <2>3. ASSUME NEW k \in 1..Len(q) PROVE r[Len(p) + k] = q[k]
    <3>1. Len(p) + k \in 1..(Len(p) + Len(q)) /\ ~(Len(p) + k <= Len(p)) /\ Len(p) + k - Len(p) = k
      BY <2>1
    <3> QED BY <2>1, <3>1
  <2> QED BY <2>2, <2>3
<1>5. Co!RemoveAt(e, i) = r
  BY DEF Co!RemoveAt, p, q
<1> HIDE DEF r
<1>6. Len(r) = Len(e) - 1 /\ Len(r) <= 2
  BY <1>1, <1>2, <1>3, <1>4
<1>7. ASSUME r # <<>>, i = 1 PROVE r[Len(r)] = e[Len(e)]
  <2>1. Len(r) \in Nat \ {0}
    BY <1>4, <1>7
  <2>2. Len(q) = Len(r) /\ Len(p) = 0 /\ Len(q) \in 1..Len(q) /\ Len(q) + i = Len(e)
    BY <1>1, <1>2, <1>3, <1>6, <1>7, <2>1
  <2>3. r[Len(p) + Len(q)] = q[Len(q)] /\ q[Len(q)] = e[Len(q) + i]
    BY <1>3, <1>4, <2>2
  <2>4. Len(p) + Len(q) = Len(r)
    BY <2>1, <2>2
  <2> QED BY <2>2, <2>3, <2>4
<1>8. ASSUME r = <<>>, i = 1 PROVE e[i] = e[Len(e)]
  <2>1. Len(r) = 0
    BY <1>8
  <2>2. Len(e) = i
    BY <1>1, <1>6, <1>8, <2>1
  <2> QED BY <2>2
<1> QED BY <1>1, <1>4, <1>5, <1>6, <1>7, <1>8

LEMMA FiguresAre == \A x : Co!Read(x) \in SUBSET Figures
<1>1. \A b : Co!GetHealth(b) \in {"healthy", "degraded", "unhealthy"}
  BY DEF Co!GetHealth, Co!CheckComponent, Co!CheckWhatsAppComponent
<1>2. \A b : /\ Co!GetContainersLive(b) \in SUBSET Figures /\ Co!GetContainerUtilization(b) \in SUBSET Figures
             /\ Co!GetStatsLive(b) \in SUBSET Figures /\ Co!GetBedrockSpendLive(b) \in SUBSET Figures
             /\ Co!GetQueueDepthLive(b) \in SUBSET Figures
  BY DEF Figures, Co!GetContainersLive, Co!GetContainerUtilization, Co!GetStatsLive, Co!GetBedrockSpendLive,
         Co!GetQueueDepthLive
<1> QED BY <1>1, <1>2 DEF Co!Read, Figures

LEMMA ScreenSent ==
  ASSUME ScreenOK(screen, deskFaults), NEW i \in DOMAIN screen.emits, NEW x, Co!Sent(i, Co!Read(x)),
         deskFaults \in Nat, deskFaults' \in Nat, deskFaults <= deskFaults', x = "all" \/ deskFaults' > 0
  PROVE  ScreenOK(screen', deskFaults')
<1> DEFINE e == Co!RemoveAt(screen.emits, i)
           f == Co!Read(x)
           o == screen.overtaken \/ i > 1
           g == [p \in Pages |-> IF Co!Open(p) THEN [status |-> screen.emits[i], figures |-> f]
                                 ELSE screen.pages[p]]
<1>1. screen' = Fed(e, screen.read, o, screen.timer, g)
  BY ScreenParts DEF Co!Sent, Fed, ScreenType
<1>2. /\ e \in Seq(LinkStates) /\ Len(e) <= 2 /\ (e # <<>> /\ i = 1 => e[Len(e)] = screen.emits[Len(screen.emits)])
      /\ (e = <<>> /\ i = 1 => screen.emits[i] = screen.emits[Len(screen.emits)])
      /\ screen.emits[i] \in LinkStates /\ i \in Nat /\ i # 0 /\ screen.emits # <<>>
  <2>1. i # 0 /\ screen.emits # <<>>
    BY ScreenParts
  <2> QED BY <2>1, ScreenParts, EmitsShrink DEF FedOK
<1>3. o \in BOOLEAN /\ (~o => ~screen.overtaken /\ i = 1)
  BY <1>2, ScreenParts
<1>4. g \in [Pages -> [status : LinkStates \cup {"closed", "blank"}, figures : SUBSET Figures]]
  <2>1. f \in SUBSET Figures
    BY FiguresAre
  <2> HIDE DEF f
  <2> QED BY <1>2, <2>1, ScreenParts
<1>5. \A p \in Pages : g[p].status # "closed" =>
         /\ screen.pages[p].status # "closed" /\ g[p].status = screen.emits[i] /\ g[p].figures = f
  <2>1. \A p \in Pages : Co!Open(p) <=> screen.pages[p].status # "closed"
    BY DEF Co!Open
  <2> HIDE DEF f
  <2> QED BY <2>1
<1>6. f = Co!Read("all") \/ deskFaults' > 0
  OBVIOUS
<1>7. FedOK(screen.emits, screen.read, screen.overtaken, screen.timer, screen.pages, deskFaults)
  BY ScreenParts
<1> HIDE DEF e, f, o, g
<1>8. FedOK(e, screen.read, o, screen.timer, g, deskFaults')
  <2>1. e # <<>> => o \/ e[Len(e)] = screen.read
    BY <1>2, <1>3, <1>7 DEF FedOK
  <2>2. ASSUME NEW p \in Pages, g[p].status # "closed"
        PROVE  screen.timer /\ (e # <<>> \/ o \/ g[p].status = screen.read)
               /\ (g[p].figures = Co!Read("all") \/ deskFaults' > 0)
    BY <1>2, <1>3, <1>5, <1>6, <1>7, <2>2 DEF FedOK
  <2> QED BY <1>2, <2>1, <2>2 DEF FedOK
<1> QED BY <1>1, <1>2, <1>3, <1>4, <1>8, ScreenParts, FeedMoves

LEMMA ScreenBroadcast ==
  ASSUME DecisionsFit, ScreenOK(screen, deskFaults), ConsoleCounts, Co!Broadcast
  PROVE  ScreenOK(screen', deskFaults')
<1>1. deskFaults \in Nat
  BY DEF ConsoleCounts
<1>2. PICK i \in DOMAIN screen.emits :
        \/ Co!Fine /\ Co!Sent(i, Co!Read("all"))
        \/ Co!Fault /\ \E not \in {"ecs", "cloudwatch", "dynamodb", "redis"} : Co!Sent(i, Co!Read(not))
  BY DEF Co!Broadcast
<1>3. CASE Co!Fine /\ Co!Sent(i, Co!Read("all"))
  <2>1. deskFaults' = deskFaults
    BY <1>3 DEF Co!Fine
  <2> QED BY <1>1, <1>3, <2>1, ScreenSent
<1>4. CASE Co!Fault /\ \E not \in {"ecs", "cloudwatch", "dynamodb", "redis"} : Co!Sent(i, Co!Read(not))
  <2>1. deskFaults' = deskFaults + 1
    BY <1>4 DEF Co!Fault
  <2>2. deskFaults' \in Nat /\ deskFaults <= deskFaults' /\ deskFaults' > 0
    BY <1>1, <2>1
  <2>3. PICK not \in {"ecs", "cloudwatch", "dynamodb", "redis"} : Co!Sent(i, Co!Read(not))
    BY <1>4
  <2> QED BY <1>1, <2>2, <2>3, ScreenSent
<1> QED BY <1>2, <1>3, <1>4

LEMMA ScreenClosePage ==
  ASSUME DecisionsFit, ScreenOK(screen, deskFaults), ConsoleCounts, NEW w \in Pages, Co!ClosePage(w)
  PROVE  ScreenOK(screen', deskFaults')
<1> DEFINE g == [screen.pages EXCEPT ![w] = Co!Closed]
<1>1. deskFaults' = deskFaults
  BY DEF Co!ClosePage, Co!Fine
<1>2. screen' = Fed(screen.emits, screen.read, screen.overtaken, screen.timer, g)
  BY ScreenParts DEF Co!ClosePage, Fed, ScreenType
<1>3. Co!Closed = [status |-> "closed", figures |-> {}]
  BY DEF Co!Closed
<1>4. g \in [Pages -> [status : LinkStates \cup {"closed", "blank"}, figures : SUBSET Figures]]
  BY <1>3, ScreenParts
<1>5. g[w].status = "closed" /\ \A p \in Pages : p # w => g[p] = screen.pages[p]
  BY <1>3, ScreenParts
<1> HIDE DEF g
<1>6. FedOK(screen.emits, screen.read, screen.overtaken, screen.timer, g, deskFaults')
  BY <1>1, <1>5, ScreenParts DEF FedOK
<1>7. /\ screen.emits \in Seq(LinkStates) /\ screen.read \in LinkStates \cup {"blank"}
      /\ screen.overtaken \in BOOLEAN /\ screen.timer \in BOOLEAN
  BY ScreenParts
<1> QED BY <1>2, <1>4, <1>6, <1>7, FeedMoves

LEMMA ScreenWatch ==
  ASSUME DecisionsFit, ScreenOK(screen, deskFaults), ConsoleCounts, Co!Watch
  PROVE  ScreenOK(screen', deskFaults') /\ ConsoleCounts' /\ UNCHANGED <<upload, trial, data>>
         /\ deskFaults \in Nat /\ deskFaults' \in Nat /\ deskFaults <= deskFaults'
<1>1. ScreenOK(screen', deskFaults')
  BY ScreenSetQrCode, ScreenDrawn, ScreenDrawFails, ScreenCleared, ScreenHandleSse, ScreenTick,
     ScreenBroadcast, ScreenClosePage DEF Co!Watch
<1>2. Co!AtScreen /\ (Co!Still \/ Co!Move) /\ (Co!Fine \/ Co!Fault)
  BY DEF Co!Watch, Co!SetQrCode, Co!Drawn, Co!DrawFails, Co!SetWhatsAppConnected,
     Co!SetWhatsAppDisconnected, Co!HandleSse, Co!ClosePage, Co!Tick, Co!Broadcast
<1>3. desk' = desk /\ UNCHANGED <<upload, trial, data>>
  BY <1>2 DEF Co!AtScreen
<1> QED BY <1>1, <1>2, <1>3, ConsoleCountsStep

\* The files uploaded: what a record says goes with where its upload is.
Record == [file : DeskFiles, status : {"processing", "completed", "failed"}]
UploadType ==
  [records : Seq(Record), stage : [DeskFiles -> {"none", "putting", "pushing", "over"}],
   stored : SUBSET DeskFiles, pending : SUBSET DeskFiles, faulted : SUBSET DeskFiles]

RecordOK(r, u) ==
  /\ r.status = "processing" <=> u.stage[r.file] \in {"putting", "pushing"}
  /\ u.stage[r.file] # "none"
  /\ r.status = "completed" => r.file \in u.stored /\ r.file \in u.pending \cup u.faulted
  /\ r.status = "failed" => r.file \in u.faulted \ u.pending

FileOK(f, u) ==
  /\ u.stage[f] \in {"none", "putting", "pushing"} => f \notin u.pending
  /\ u.stage[f] = "pushing" => f \in u.stored

UploadOK(u) ==
  /\ u \in UploadType /\ Len(u.records) <= MaxRecords
  /\ \A i \in 1..Len(u.records) : RecordOK(u.records[i], u)
  /\ \A f \in DeskFiles : FileOK(f, u)

Filed(records, stage, stored, queued, faulted) ==
  [records |-> records, stage |-> stage, stored |-> stored, pending |-> queued, faulted |-> faulted]

LEMMA UploadParts ==
  ASSUME UploadOK(upload)
  PROVE  /\ upload.records \in Seq(Record) /\ Len(upload.records) \in Nat
         /\ \A i \in 1..Len(upload.records) : upload.records[i] \in Record
         /\ upload.stage \in [DeskFiles -> {"none", "putting", "pushing", "over"}]
         /\ upload.stored \in SUBSET DeskFiles /\ upload.pending \in SUBSET DeskFiles
         /\ upload.faulted \in SUBSET DeskFiles /\ upload \in UploadType
BY DEF UploadOK, UploadType

LEMMA FiledIs ==
  ASSUME NEW records \in Seq(Record), NEW stage \in [DeskFiles -> {"none", "putting", "pushing", "over"}],
         NEW stored \in SUBSET DeskFiles, NEW queued \in SUBSET DeskFiles, NEW faulted \in SUBSET DeskFiles
  PROVE  Filed(records, stage, stored, queued, faulted) \in UploadType
         /\ Filed(records, stage, stored, queued, faulted).records = records
BY DEF Filed, UploadType

LEMMA UploadGoes ==
  ASSUME NEW records \in Seq(Record), NEW stage \in [DeskFiles -> {"none", "putting", "pushing", "over"}],
         NEW stored \in SUBSET DeskFiles, NEW queued \in SUBSET DeskFiles, NEW faulted \in SUBSET DeskFiles,
         Len(records) <= MaxRecords, upload' = Filed(records, stage, stored, queued, faulted),
         \A i \in 1..Len(records) : RecordOK(records[i], upload'), \A f \in DeskFiles : FileOK(f, upload')
  PROVE  UploadOK(upload')
<1> QED BY FiledIs DEF UploadOK

LEMMA MarkedIs ==
  ASSUME UploadOK(upload), NEW f \in DeskFiles, NEW status \in {"completed", "failed"}
  PROVE  /\ Co!Marked(f, status) \in Seq(Record) /\ Len(Co!Marked(f, status)) = Len(upload.records)
         /\ \A i \in 1..Len(upload.records) :
              /\ Co!Marked(f, status)[i].file = upload.records[i].file
              /\ upload.records[i].file = f => Co!Marked(f, status)[i].status = status
              /\ upload.records[i].file # f => Co!Marked(f, status)[i] = upload.records[i]
<1> DEFINE n == Len(upload.records)
           m == Co!Marked(f, status)
<1>1. DOMAIN upload.records = 1..n /\ n \in Nat
  BY UploadParts
<1>2. m = [i \in 1..n |-> IF upload.records[i].file = f THEN [upload.records[i] EXCEPT !.status = status]
                          ELSE upload.records[i]]
  BY <1>1 DEF Co!Marked
<1>3. \A i \in 1..n : upload.records[i] \in Record
  BY UploadParts
<1> HIDE DEF m, n
<1>4. ASSUME NEW i \in 1..n
      PROVE  /\ m[i] \in Record /\ m[i].file = upload.records[i].file
             /\ upload.records[i].file = f => m[i].status = status
             /\ upload.records[i].file # f => m[i] = upload.records[i]
  <2>1. CASE upload.records[i].file = f
    <3>1. m[i] = [upload.records[i] EXCEPT !.status = status]
      BY <1>2, <2>1
    <3> QED BY <1>3, <2>1, <3>1 DEF Record
  <2>2. CASE upload.records[i].file # f
    <3>1. m[i] = upload.records[i]
      BY <1>2, <2>2
    <3> QED BY <1>3, <2>2, <3>1 DEF Record
  <2> QED BY <2>1, <2>2
<1>5. m \in Seq(Record) /\ Len(m) = n
  <2>1. m \in [1..n -> Record]
    BY <1>2, <1>4
  <2> QED BY <1>1, <2>1
<1> QED BY <1>4, <1>5 DEF m, n

LEMMA UploadHandle ==
  ASSUME DecisionsFit, UploadOK(upload), Co!HandleUpload
  PROVE  UploadOK(upload')
<1>1. PICK f \in DeskFiles :
        /\ upload.stage[f] = "none"
        /\ upload' = [upload EXCEPT
             !.records = Co!Shortened(<<[file |-> f, status |-> "processing"]>> \o @),
             !.stage[f] = "putting"]
  BY DEF Co!HandleUpload
<1> DEFINE r == [file |-> f, status |-> "processing"]
           q == <<r>> \o upload.records
           s == Co!Shortened(q)
           stage == [upload.stage EXCEPT ![f] = "putting"]
<1>2. upload' = Filed(s, stage, upload.stored, upload.pending, upload.faulted)
  BY <1>1, UploadParts DEF UploadType, Filed
<1>3. r \in Record
  BY DEF Record
<1>4. q \in Seq(Record) /\ Len(q) = Len(upload.records) + 1 /\ q[1] = r
      /\ \A i \in 2..Len(q) : q[i] = upload.records[i - 1] /\ i - 1 \in 1..Len(upload.records)
  <2>1. <<r>> \in Seq(Record) /\ Len(<<r>>) = 1 /\ <<r>>[1] = r
    BY <1>3
  <2>2. \A i \in 2..(Len(upload.records) + 1) : i \in Nat /\ ~(i <= 1) /\ i - 1 \in 1..Len(upload.records)
    BY UploadParts
  <2> QED BY <2>1, <2>2, UploadParts
<1> HIDE DEF r, q
<1>5. s \in Seq(Record) /\ Len(s) <= MaxRecords /\ Len(s) <= Len(q) /\ \A i \in 1..Len(s) : s[i] = q[i]
  <2>1. Len(q) \in Nat /\ MaxRecords \in Nat /\ \A i \in 1..Len(q) : q[i] \in Record
    BY <1>4, ConsoleConstants, UploadParts
  <2>2. PICK m \in 0..Len(q) : m <= MaxRecords /\ s = SubSeq(q, 1, m)
    BY <2>1 DEF Co!Shortened
  <2>3. s \in Seq(Record) /\ Len(s) = m
    <3>1. \A i \in 1..m : q[i] \in Record
      BY <2>1, <2>2
    <3> QED BY <1>4, <2>1, <2>2, <3>1
  <2>4. \A i \in 1..m : s[i] = q[i]
    BY <1>4, <2>1, <2>2
  <2> QED BY <2>2, <2>3, <2>4
<1>6. stage \in [DeskFiles -> {"none", "putting", "pushing", "over"}] /\ stage[f] = "putting"
      /\ \A g \in DeskFiles : g # f => stage[g] = upload.stage[g]
  BY UploadParts
<1> HIDE DEF s, stage
<1>7. /\ upload'.stage = stage /\ upload'.stored = upload.stored /\ upload'.pending = upload.pending
      /\ upload'.faulted = upload.faulted
  BY <1>2 DEF Filed
<1>8. ASSUME NEW i \in 1..Len(upload.records)
      PROVE  upload.records[i].file \in DeskFiles \ {f} /\ RecordOK(upload.records[i], upload')
  <2>1. RecordOK(upload.records[i], upload) /\ upload.records[i] \in Record
    BY UploadParts DEF UploadOK
  <2>2. upload.records[i].file \in DeskFiles \ {f}
    BY <1>1, <2>1 DEF RecordOK, Record
  <2> QED BY <1>6, <1>7, <2>1, <2>2 DEF RecordOK
<1>9. RecordOK(r, upload')
  BY <1>6, <1>7 DEF RecordOK, r
<1>10. ASSUME NEW i \in 1..Len(s) PROVE RecordOK(s[i], upload')
  <2>1. s[i] = q[i] /\ i \in 1..Len(q)
    BY <1>4, <1>5, UploadParts
  <2>2. CASE i = 1
    BY <1>4, <1>9, <2>1, <2>2
  <2>3. CASE i # 1
    <3>1. i \in 2..Len(q)
      BY <1>4, <2>1, <2>3, UploadParts
    <3> QED BY <1>4, <1>8, <2>1, <3>1
  <2> QED BY <2>2, <2>3
<1>11. ASSUME NEW g \in DeskFiles PROVE FileOK(g, upload')
  <2>1. FileOK(g, upload)
    BY DEF UploadOK
  <2> QED BY <1>1, <1>6, <1>7, <2>1 DEF FileOK
<1> QED BY <1>2, <1>5, <1>6, <1>10, <1>11, UploadParts, UploadGoes

LEMMA UploadPutObject ==
  ASSUME UploadOK(upload), NEW f \in DeskFiles, Co!PutObject(f)
  PROVE  UploadOK(upload')
<1> DEFINE stage == [upload.stage EXCEPT ![f] = "pushing"]
<1>1. upload.stage[f] = "putting"
      /\ upload' = Filed(upload.records, stage, upload.stored \cup {f}, upload.pending, upload.faulted)
  BY UploadParts DEF Co!PutObject, UploadType, Filed
<1>2. stage \in [DeskFiles -> {"none", "putting", "pushing", "over"}] /\ stage[f] = "pushing"
      /\ \A g \in DeskFiles : g # f => stage[g] = upload.stage[g]
  BY UploadParts
<1> HIDE DEF stage
<1>3. /\ upload'.stage = stage /\ upload'.stored = upload.stored \cup {f}
      /\ upload'.pending = upload.pending /\ upload'.faulted = upload.faulted
  BY <1>1 DEF Filed
<1>4. ASSUME NEW i \in 1..Len(upload.records) PROVE RecordOK(upload.records[i], upload')
  <2>1. RecordOK(upload.records[i], upload) /\ upload.records[i].file \in DeskFiles
    BY UploadParts DEF UploadOK, Record
  <2> QED BY <1>1, <1>2, <1>3, <2>1 DEF RecordOK
<1>5. ASSUME NEW g \in DeskFiles PROVE FileOK(g, upload')
  <2>1. FileOK(g, upload) /\ FileOK(f, upload)
    BY DEF UploadOK
  <2> QED BY <1>1, <1>2, <1>3, <2>1 DEF FileOK
<1>6. Len(upload.records) <= MaxRecords /\ upload.stored \cup {f} \in SUBSET DeskFiles
  BY UploadParts DEF UploadOK
<1> QED BY <1>1, <1>2, <1>4, <1>5, <1>6, UploadParts, UploadGoes

\* An upload ends: its record is marked as the files are.
LEMMA UploadOver ==
  ASSUME UploadOK(upload), NEW f \in DeskFiles, upload.stage[f] \in {"putting", "pushing"},
         NEW status \in {"completed", "failed"},
         NEW stored \in SUBSET DeskFiles, NEW queued \in SUBSET DeskFiles, NEW faulted \in SUBSET DeskFiles,
         upload.stored \subseteq stored, upload.pending \subseteq queued, upload.faulted \subseteq faulted,
         queued \subseteq upload.pending \cup {f},
         status = "completed" => f \in stored /\ f \in queued \cup faulted,
         status = "failed" => f \in faulted \ queued,
         upload' = Filed(Co!Marked(f, status), [upload.stage EXCEPT ![f] = "over"], stored, queued, faulted)
  PROVE  UploadOK(upload')
<1> DEFINE stage == [upload.stage EXCEPT ![f] = "over"]
           m == Co!Marked(f, status)
<1>1. upload' = Filed(m, stage, stored, queued, faulted)
  OBVIOUS
<1>2. stage \in [DeskFiles -> {"none", "putting", "pushing", "over"}] /\ stage[f] = "over"
      /\ \A g \in DeskFiles : g # f => stage[g] = upload.stage[g]
  BY UploadParts
<1>3. /\ m \in Seq(Record) /\ Len(m) = Len(upload.records) /\ Len(m) <= MaxRecords
      /\ \A i \in 1..Len(upload.records) :
           /\ m[i].file = upload.records[i].file
           /\ upload.records[i].file = f => m[i].status = status
           /\ upload.records[i].file # f => m[i] = upload.records[i]
  BY MarkedIs DEF UploadOK
<1> HIDE DEF stage, m
<1>4. upload'.stage = stage /\ upload'.stored = stored /\ upload'.pending = queued /\ upload'.faulted = faulted
  BY <1>1 DEF Filed
<1>5. ASSUME NEW i \in 1..Len(m) PROVE RecordOK(m[i], upload')
  <2>1. RecordOK(upload.records[i], upload) /\ upload.records[i].file \in DeskFiles
    BY <1>3, UploadParts DEF UploadOK, Record
  <2>2. CASE upload.records[i].file = f
    <3>1. m[i].file = f /\ m[i].status = status
      BY <1>3, <2>2
    <3> QED BY <1>2, <1>4, <3>1 DEF RecordOK
  <2>3. CASE upload.records[i].file # f
    <3>1. m[i] = upload.records[i]
      BY <1>3, <2>3
    <3> QED BY <1>2, <1>4, <2>1, <2>3, <3>1 DEF RecordOK
  <2> QED BY <2>2, <2>3
<1>6. ASSUME NEW g \in DeskFiles PROVE FileOK(g, upload')
  <2>1. FileOK(g, upload)
    BY DEF UploadOK
  <2> QED BY <1>2, <1>4, <2>1 DEF FileOK
<1>7. \A i \in 1..Len(m) : RecordOK(m[i], upload')
  BY <1>5
<1>8. \A g \in DeskFiles : FileOK(g, upload')
  BY <1>6
<1>9. upload' \in UploadType /\ upload'.records = m
  <2>1. m \in Seq(Record)
    BY <1>3
  <2>2. stage \in [DeskFiles -> {"none", "putting", "pushing", "over"}]
    BY <1>2
  <2> QED BY <1>1, <2>1, <2>2, FiledIs
<1> QED BY <1>3, <1>7, <1>8, <1>9 DEF UploadOK

LEMMA UploadPutFails ==
  ASSUME UploadOK(upload), NEW f \in DeskFiles, Co!PutFails(f)
  PROVE  UploadOK(upload')
<1>1. PICK stored \in {upload.stored, upload.stored \cup {f}} :
        upload' = [upload EXCEPT !.stage[f] = "over", !.stored = stored,
                                 !.records = Co!Marked(f, "failed"), !.faulted = @ \cup {f}]
  BY DEF Co!PutFails
<1>2. upload.stage[f] = "putting" /\ f \notin upload.pending
  BY DEF Co!PutFails, UploadOK, FileOK
<1>3. stored \in SUBSET DeskFiles /\ upload.stored \subseteq stored
      /\ upload.faulted \cup {f} \in SUBSET DeskFiles
  BY UploadParts
<1>4. upload' = Filed(Co!Marked(f, "failed"), [upload.stage EXCEPT ![f] = "over"], stored, upload.pending,
                      upload.faulted \cup {f})
  BY <1>1, UploadParts DEF UploadType, Filed
<1>5. upload.pending \in SUBSET DeskFiles /\ upload.faulted \subseteq upload.faulted \cup {f}
      /\ f \in (upload.faulted \cup {f}) \ upload.pending
  BY <1>2, UploadParts
<1> QED BY <1>2, <1>3, <1>4, <1>5, UploadOver

LEMMA UploadEnqueue ==
  ASSUME UploadOK(upload), NEW f \in DeskFiles, Co!Enqueue(f) \/ Co!EnqueueFails(f)
  PROVE  UploadOK(upload')
<1>1. upload.stage[f] = "pushing" /\ f \in upload.stored /\ upload.pending \cup {f} \in SUBSET DeskFiles
      /\ upload.faulted \cup {f} \in SUBSET DeskFiles
  BY UploadParts DEF Co!Enqueue, Co!EnqueueFails, UploadOK, FileOK
<1>2. CASE Co!Enqueue(f)
  <2>1. upload' = Filed(Co!Marked(f, "completed"), [upload.stage EXCEPT ![f] = "over"], upload.stored,
                        upload.pending \cup {f}, upload.faulted)
    BY <1>2, UploadParts DEF Co!Enqueue, UploadType, Filed
  <2>2. /\ upload.stored \in SUBSET DeskFiles /\ upload.faulted \in SUBSET DeskFiles
        /\ upload.pending \subseteq upload.pending \cup {f}
        /\ f \in (upload.pending \cup {f}) \cup upload.faulted
    BY UploadParts
  <2>3. upload.stage[f] \in {"putting", "pushing"}
    BY <1>1
  <2> QED BY <1>1, <2>1, <2>2, <2>3, UploadOver
<1>3. CASE Co!EnqueueFails(f)
  <2>1. upload' = Filed(Co!Marked(f, "completed"), [upload.stage EXCEPT ![f] = "over"], upload.stored,
                        upload.pending, upload.faulted \cup {f})
    BY <1>3, UploadParts DEF Co!EnqueueFails, UploadType, Filed
  <2>2. /\ upload.stored \in SUBSET DeskFiles /\ upload.pending \in SUBSET DeskFiles
        /\ upload.faulted \subseteq upload.faulted \cup {f}
        /\ f \in upload.pending \cup (upload.faulted \cup {f})
    BY UploadParts
  <2>3. upload.stage[f] \in {"putting", "pushing"}
    BY <1>1
  <2> QED BY <1>1, <2>1, <2>2, <2>3, UploadOver
<1> QED BY <1>2, <1>3

LEMMA UploadRestart ==
  ASSUME DecisionsFit, UploadOK(upload), Co!Restart
  PROVE  UploadOK(upload')
<1> DEFINE stage == [f \in DeskFiles |-> IF upload.stage[f] = "none" THEN "none" ELSE "over"]
<1>1. upload' = Filed(<<>>, stage, upload.stored, upload.pending, upload.faulted)
  BY UploadParts DEF Co!Restart, UploadType, Filed
<1>2. stage \in [DeskFiles -> {"none", "putting", "pushing", "over"}]
      /\ \A f \in DeskFiles : stage[f] \in {"none", "over"} /\ (stage[f] = "none" <=> upload.stage[f] = "none")
  BY UploadParts
<1> HIDE DEF stage
<1>3. upload'.stage = stage /\ upload'.stored = upload.stored /\ upload'.pending = upload.pending
  BY <1>1 DEF Filed
<1>4. ASSUME NEW g \in DeskFiles PROVE FileOK(g, upload')
  <2>1. FileOK(g, upload)
    BY DEF UploadOK
  <2> QED BY <1>2, <1>3, <2>1 DEF FileOK
<1>5. <<>> \in Seq(Record) /\ Len(<<>>) = 0 /\ 1..0 = {} /\ 0 <= MaxRecords
  BY ConsoleConstants
<1>6. \A i \in 1..Len(<<>>) : RecordOK(<<>>[i], upload')
  BY <1>5
<1>7. Len(<<>>) <= MaxRecords
  BY <1>5
<1> QED BY <1>1, <1>2, <1>4, <1>5, <1>6, <1>7, UploadParts, UploadGoes

LEMMA UploadSendFiles ==
  ASSUME DecisionsFit, UploadOK(upload), ConsoleCounts, Co!SendFiles
  PROVE  UploadOK(upload') /\ ConsoleCounts' /\ UNCHANGED <<screen, trial, data>>
         /\ deskFaults \in Nat /\ deskFaults' \in Nat /\ deskFaults <= deskFaults'
<1>1. UploadOK(upload')
  BY UploadHandle, UploadRestart, UploadPutObject, UploadPutFails, UploadEnqueue DEF Co!SendFiles
<1>2. Co!AtUpload /\ (Co!Fine \/ Co!Fault)
  BY DEF Co!SendFiles, Co!HandleUpload, Co!Restart, Co!PutObject, Co!PutFails, Co!Enqueue, Co!EnqueueFails
<1>3. desk' = desk /\ UNCHANGED <<screen, trial, data>> /\ Co!Still
  BY <1>2 DEF Co!AtUpload, Co!Still
<1> QED BY <1>1, <1>2, <1>3, ConsoleCountsStep

\* The test message: how many copies of it are about, and what went before it.
TrialType ==
  [stage : {"none", "storing", "pending", "sending", "waiting", "ok", "timeout", "error"},
   file : {"none", "image", "document"}, stored : BOOLEAN, pending : BOOLEAN,
   sent : Nat, replies : Nat, kept : Nat]
TrialOK(t, n) ==
  /\ t \in TrialType
  /\ t.pending => t.stored
  /\ t.stage \in {"none", "storing", "pending", "sending"} => t.sent = 0 /\ t.replies = 0 /\ t.kept = 0
  /\ t.stage \in {"none", "storing"} => ~t.pending
  /\ t.stage = "pending" => t.stored
  /\ t.stage = "sending" /\ t.file = "document" => t.pending
  /\ t.sent + t.replies + t.kept > 0 /\ t.file = "document" => t.pending
  /\ t.sent + t.replies + t.kept <= n + 1
  /\ t.stage = "ok" => t.sent + t.replies + t.kept <= n

Tried(stage, file, stored, offered, went, back, kept) ==
  [stage |-> stage, file |-> file, stored |-> stored, pending |-> offered, sent |-> went,
   replies |-> back, kept |-> kept]

LEMMA TrialParts ==
  ASSUME TrialOK(trial, deskFaults)
  PROVE  /\ trial \in TrialType
         /\ trial.stage \in {"none", "storing", "pending", "sending", "waiting", "ok", "timeout", "error"}
         /\ trial.file \in {"none", "image", "document"} /\ trial.stored \in BOOLEAN /\ trial.pending \in BOOLEAN
         /\ trial.sent \in Nat /\ trial.replies \in Nat /\ trial.kept \in Nat
BY DEF TrialOK, TrialType

\* Before the message is out.
BeforeOK(stage, file, stored, offered, went) ==
  /\ offered => stored
  /\ stage \in {"none", "storing"} => ~offered
  /\ stage = "pending" => stored
  /\ stage = "sending" /\ file = "document" => offered
  /\ went = 0 \/ (stage \in {"waiting", "error"} /\ (file = "document" => offered))

LEMMA TrialBefore ==
  ASSUME NEW stage \in {"none", "storing", "pending", "sending", "waiting", "ok", "timeout", "error"},
         NEW file \in {"none", "image", "document"}, NEW stored \in BOOLEAN, NEW offered \in BOOLEAN,
         NEW went \in {0, 1}, NEW n \in Nat,
         BeforeOK(stage, file, stored, offered, went)
  PROVE  TrialOK(Tried(stage, file, stored, offered, went, 0, 0), n)
<1> DEFINE t == Tried(stage, file, stored, offered, went, 0, 0)
<1>1. /\ t \in TrialType /\ t.stage = stage /\ t.file = file /\ t.stored = stored /\ t.pending = offered
      /\ t.sent = went /\ t.replies = 0 /\ t.kept = 0
  BY DEF Tried, TrialType
<1> HIDE DEF t
<1>2. t.sent + t.replies + t.kept = went
  BY <1>1
<1>3. went <= n + 1 /\ (went > 0 => went = 1) /\ (went # 1 => went = 0 /\ went <= n)
  OBVIOUS
<1>4. t.sent + t.replies + t.kept <= n + 1 /\ (t.stage = "ok" => t.sent + t.replies + t.kept <= n)
  BY <1>1, <1>2, <1>3 DEF BeforeOK
<1>5. t.sent + t.replies + t.kept > 0 /\ t.file = "document" => t.pending
  BY <1>1, <1>2, <1>3 DEF BeforeOK
<1>6. t.stage \in {"none", "storing", "pending", "sending"} => t.sent = 0 /\ t.replies = 0 /\ t.kept = 0
  BY <1>1, <1>3 DEF BeforeOK
<1>7. /\ t.pending => t.stored
      /\ t.stage \in {"none", "storing"} => ~t.pending
      /\ t.stage = "pending" => t.stored
      /\ t.stage = "sending" /\ t.file = "document" => t.pending
  BY <1>1 DEF BeforeOK
<1>8. t \in TrialType
  BY <1>1
<1> QED BY <1>4, <1>5, <1>6, <1>7, <1>8, Zenon DEF TrialOK, t

\* Once it is out, its copies pass from hand to hand, and only a fault adds one.
LEMMA TrialAfter ==
  ASSUME TrialOK(trial, deskFaults), deskFaults \in Nat, NEW n \in Nat, deskFaults <= n,
         NEW stage \in {"waiting", "ok", "timeout", "error"}, stage = trial.stage \/ trial.stage = "waiting",
         NEW went \in Nat, NEW back \in Nat, NEW kept \in Nat,
         went + back + kept > 0 => trial.sent + trial.replies + trial.kept > 0,
         went + back + kept <= trial.sent + trial.replies + trial.kept + (n - deskFaults),
         stage = "ok" /\ trial.stage # "ok" => went + back + kept < trial.sent + trial.replies + trial.kept
  PROVE  TrialOK(Tried(stage, trial.file, trial.stored, trial.pending, went, back, kept), n)
<1> DEFINE t == Tried(stage, trial.file, trial.stored, trial.pending, went, back, kept)
           a == trial.sent + trial.replies + trial.kept
           b == went + back + kept
<1>1. /\ t \in TrialType /\ t.stage = stage /\ t.file = trial.file /\ t.stored = trial.stored
      /\ t.pending = trial.pending /\ t.sent = went /\ t.replies = back /\ t.kept = kept
  BY TrialParts DEF Tried, TrialType
<1> HIDE DEF t
<1>2. a \in Nat /\ b \in Nat /\ t.sent + t.replies + t.kept = b
  BY <1>1, TrialParts
<1>3. a <= deskFaults + 1 /\ (trial.stage = "ok" => a <= deskFaults)
      /\ (a > 0 /\ trial.file = "document" => trial.pending) /\ (trial.pending => trial.stored)
  BY DEF TrialOK
<1>4. b <= a + (n - deskFaults) /\ (b > 0 => a > 0) /\ (stage = "ok" /\ trial.stage # "ok" => b < a)
  OBVIOUS
<1> HIDE DEF a, b
<1>5. b <= n + 1 /\ (trial.stage = "ok" => b <= n)
  BY <1>2, <1>3, <1>4
<1>6. stage = "ok" => b <= n
  <2>1. CASE trial.stage = "ok"
    BY <1>5, <2>1
  <2>2. CASE trial.stage # "ok"
    BY <1>2, <1>3, <1>4, <2>2
  <2> QED BY <2>1, <2>2
<1>7. t.sent + t.replies + t.kept <= n + 1 /\ (t.stage = "ok" => t.sent + t.replies + t.kept <= n)
  BY <1>1, <1>2, <1>5, <1>6
<1>8. t.sent + t.replies + t.kept > 0 /\ t.file = "document" => t.pending
  BY <1>1, <1>2, <1>3, <1>4
<1>9. t.stage \notin {"none", "storing", "pending", "sending"} /\ (t.pending => t.stored)
  BY <1>1, <1>3
<1>10. t \in TrialType
  BY <1>1
<1>11. /\ t.stage \in {"none", "storing", "pending", "sending"} => t.sent = 0 /\ t.replies = 0 /\ t.kept = 0
       /\ t.stage \in {"none", "storing"} => ~t.pending
       /\ t.stage = "pending" => t.stored
       /\ t.stage = "sending" /\ t.file = "document" => t.pending
  BY <1>9
<1> QED BY <1>7, <1>8, <1>9, <1>10, <1>11, Zenon DEF TrialOK, t

LEMMA TrialSend ==
  ASSUME DecisionsFit, TrialOK(trial, deskFaults), ConsoleCounts, Co!HandleTestSend
  PROVE  TrialOK(trial', deskFaults')
<1>1. deskFaults \in Nat /\ deskFaults' \in Nat /\ deskFaults <= deskFaults' /\ deskFaults' = deskFaults
  BY DEF Co!HandleTestSend, Co!Fine, ConsoleCounts
<1>2. trial.stage = "none" /\ trial.sent = 0 /\ trial.replies = 0 /\ trial.kept = 0 /\ ~trial.pending
  BY DEF Co!HandleTestSend, TrialOK
<1>3. PICK file \in {"none", "image", "document"} :
        trial' = [trial EXCEPT !.file = file, !.stage = IF file = "none" THEN "sending" ELSE "storing"]
  BY DEF Co!HandleTestSend
<1> DEFINE stage == IF file = "none" THEN "sending" ELSE "storing"
<1>4. trial' = Tried(stage, file, trial.stored, trial.pending, 0, 0, 0)
  BY <1>2, <1>3, TrialParts DEF TrialType, Tried
<1>5. stage \in {"sending", "storing"} /\ (stage = "sending" => file # "document")
  OBVIOUS
<1>6. trial.pending => trial.stored
  BY DEF TrialOK
<1> HIDE DEF stage
<1>7. BeforeOK(stage, file, trial.stored, trial.pending, 0)
  BY <1>2, <1>5, <1>6 DEF BeforeOK
<1>8. trial.stored \in BOOLEAN /\ trial.pending \in BOOLEAN /\ deskFaults' \in Nat
  BY <1>1, TrialParts
<1> QED BY <1>4, <1>5, <1>7, <1>8, TrialBefore

LEMMA TrialStoreFile ==
  ASSUME DecisionsFit, TrialOK(trial, deskFaults), ConsoleCounts, Co!StoreFile
  PROVE  TrialOK(trial', deskFaults')
<1>1. deskFaults \in Nat /\ deskFaults' \in Nat /\ deskFaults <= deskFaults' /\ deskFaults' = deskFaults
  BY DEF Co!StoreFile, Co!Fine, ConsoleCounts
<1>2. /\ trial.stage \in {"none", "storing", "pending", "sending"}
      /\ trial.sent = 0 /\ trial.replies = 0 /\ trial.kept = 0
  BY DEF Co!StoreFile, TrialOK
<1> DEFINE stage == IF trial.file = "document" THEN "pending" ELSE "sending"
<1>3. trial' = Tried(stage, trial.file, TRUE, trial.pending, 0, 0, 0)
  BY <1>2, TrialParts DEF Co!StoreFile, TrialType, Tried
<1>4. /\ trial.pending => trial.stored
      /\ trial.stage \in {"none", "storing"} => ~trial.pending
      /\ trial.stage = "pending" => trial.stored
      /\ trial.stage = "sending" /\ trial.file = "document" => trial.pending
  BY DEF TrialOK
<1>5. TRUE \in BOOLEAN /\ stage \in {"pending", "sending"} /\ (stage = "sending" => trial.file # "document")
  OBVIOUS
<1> HIDE DEF stage
<1>6. deskFaults' \in Nat
  BY <1>1
<1>7. trial.file \in {"none", "image", "document"} /\ trial.stored \in BOOLEAN /\ trial.pending \in BOOLEAN
  BY TrialParts
<1>8. BeforeOK(stage, trial.file, TRUE, trial.pending, 0)
  BY <1>4, <1>5 DEF BeforeOK
<1> QED BY <1>3, <1>5, <1>6, <1>7, <1>8, TrialBefore

LEMMA TrialPushPending ==
  ASSUME DecisionsFit, TrialOK(trial, deskFaults), ConsoleCounts, Co!PushPending
  PROVE  TrialOK(trial', deskFaults')
<1>1. deskFaults \in Nat /\ deskFaults' \in Nat /\ deskFaults <= deskFaults' /\ deskFaults' = deskFaults
  BY DEF Co!PushPending, Co!Fine, ConsoleCounts
<1>2. /\ trial.stage \in {"none", "storing", "pending", "sending"}
      /\ trial.sent = 0 /\ trial.replies = 0 /\ trial.kept = 0
  BY DEF Co!PushPending, TrialOK
<1>3. trial' = Tried("sending", trial.file, trial.stored, TRUE, 0, 0, 0)
  BY <1>2, TrialParts DEF Co!PushPending, TrialType, Tried
<1>4. /\ trial.pending => trial.stored
      /\ trial.stage \in {"none", "storing"} => ~trial.pending
      /\ trial.stage = "pending" => trial.stored
      /\ trial.stage = "sending" /\ trial.file = "document" => trial.pending
  BY DEF TrialOK
<1>9. trial.stage = "pending"
  BY DEF Co!PushPending
<1>5. TRUE \in BOOLEAN /\ trial.stored
  BY <1>4, <1>9
<1>6. deskFaults' \in Nat
  BY <1>1
<1>7. trial.file \in {"none", "image", "document"} /\ trial.stored \in BOOLEAN /\ trial.pending \in BOOLEAN
  BY TrialParts
<1>8. BeforeOK("sending", trial.file, trial.stored, TRUE, 0)
  BY <1>4, <1>5 DEF BeforeOK
<1> QED BY <1>3, <1>5, <1>6, <1>7, <1>8, TrialBefore

LEMMA TrialDispatch ==
  ASSUME DecisionsFit, TrialOK(trial, deskFaults), ConsoleCounts, Co!Dispatch
  PROVE  TrialOK(trial', deskFaults')
<1>1. deskFaults \in Nat /\ deskFaults' \in Nat /\ deskFaults <= deskFaults' /\ deskFaults' = deskFaults
  BY DEF Co!Dispatch, Co!Fine, ConsoleCounts
<1>2. /\ trial.stage \in {"none", "storing", "pending", "sending"}
      /\ trial.sent = 0 /\ trial.replies = 0 /\ trial.kept = 0
  BY DEF Co!Dispatch, TrialOK
<1>3. trial' = Tried("waiting", trial.file, trial.stored, trial.pending, 1, 0, 0)
  BY <1>2, TrialParts DEF Co!Dispatch, TrialType, Tried
<1>4. /\ trial.pending => trial.stored
      /\ trial.stage \in {"none", "storing"} => ~trial.pending
      /\ trial.stage = "pending" => trial.stored
      /\ trial.stage = "sending" /\ trial.file = "document" => trial.pending
  BY DEF TrialOK
<1>5. trial.stage = "sending"
  BY DEF Co!Dispatch
<1>6. deskFaults' \in Nat
  BY <1>1
<1>7. trial.file \in {"none", "image", "document"} /\ trial.stored \in BOOLEAN /\ trial.pending \in BOOLEAN
  BY TrialParts
<1>8. BeforeOK("waiting", trial.file, trial.stored, trial.pending, 1)
  BY <1>4, <1>5 DEF BeforeOK
<1> QED BY <1>3, <1>5, <1>6, <1>7, <1>8, TrialBefore

LEMMA TrialTestFails ==
  ASSUME DecisionsFit, TrialOK(trial, deskFaults), ConsoleCounts, Co!TestFails
  PROVE  TrialOK(trial', deskFaults')
<1>1. deskFaults \in Nat /\ deskFaults' \in Nat /\ deskFaults <= deskFaults' /\ deskFaults' = deskFaults + 1
  <2>1. Co!Fault
    BY DEF Co!TestFails
  <2> QED BY <2>1 DEF Co!Fault, ConsoleCounts
<1>2. /\ trial.stage \in {"none", "storing", "pending", "sending"}
      /\ trial.sent = 0 /\ trial.replies = 0 /\ trial.kept = 0
  BY DEF Co!TestFails, TrialOK
<1>3. /\ trial.pending => trial.stored
      /\ trial.stage \in {"none", "storing"} => ~trial.pending
      /\ trial.stage = "pending" => trial.stored
      /\ trial.stage = "sending" /\ trial.file = "document" => trial.pending
  BY DEF TrialOK
<1>4. CASE trial.stage = "storing"
  <2>1. PICK done \in BOOLEAN : trial' = [trial EXCEPT !.stage = "error", !.stored = done]
    BY <1>4 DEF Co!TestFails
  <2>2. trial' = Tried("error", trial.file, done, trial.pending, 0, 0, 0)
    BY <1>2, <2>1, TrialParts DEF TrialType, Tried
  <2>3. deskFaults' \in Nat
    BY <1>1
  <2>4. trial.file \in {"none", "image", "document"} /\ trial.stored \in BOOLEAN /\ trial.pending \in BOOLEAN
    BY TrialParts
  <2>5. BeforeOK("error", trial.file, done, trial.pending, 0)
    BY <1>3, <1>4 DEF BeforeOK
  <2> QED BY <2>2, <2>3, <2>4, <2>5, TrialBefore
<1>5. CASE trial.stage = "pending"
  <2>1. PICK done \in BOOLEAN : trial' = [trial EXCEPT !.stage = "error", !.pending = done]
    BY <1>5 DEF Co!TestFails
  <2>2. trial' = Tried("error", trial.file, trial.stored, done, 0, 0, 0)
    BY <1>2, <2>1, TrialParts DEF TrialType, Tried
  <2>3. deskFaults' \in Nat
    BY <1>1
  <2>4. trial.file \in {"none", "image", "document"} /\ trial.stored \in BOOLEAN /\ trial.pending \in BOOLEAN
    BY TrialParts
  <2>5. BeforeOK("error", trial.file, trial.stored, done, 0)
    BY <1>3, <1>5 DEF BeforeOK
  <2> QED BY <2>2, <2>3, <2>4, <2>5, TrialBefore
<1>6. CASE trial.stage = "sending"
  <2>1. PICK done \in {0, 1} : trial' = [trial EXCEPT !.stage = "error", !.sent = done]
    BY <1>6 DEF Co!TestFails
  <2>2. trial' = Tried("error", trial.file, trial.stored, trial.pending, done, 0, 0)
    BY <1>2, <2>1, TrialParts DEF TrialType, Tried
  <2>3. deskFaults' \in Nat
    BY <1>1
  <2>4. trial.file \in {"none", "image", "document"} /\ trial.stored \in BOOLEAN /\ trial.pending \in BOOLEAN
    BY TrialParts
  <2>5. BeforeOK("error", trial.file, trial.stored, trial.pending, done)
    BY <1>3, <1>6 DEF BeforeOK
  <2> QED BY <2>2, <2>3, <2>4, <2>5, TrialBefore
<1> QED BY <1>4, <1>5, <1>6 DEF Co!TestFails

LEMMA TrialAnswers ==
  ASSUME DecisionsFit, TrialOK(trial, deskFaults), ConsoleCounts, Co!AgentAnswers
  PROVE  TrialOK(trial', deskFaults')
<1>1. deskFaults \in Nat /\ deskFaults' \in Nat /\ deskFaults <= deskFaults' /\ deskFaults' = deskFaults
  BY DEF Co!AgentAnswers, Co!Fine, Co!Fault, ConsoleCounts
<1>2. trial' = Tried(trial.stage, trial.file, trial.stored, trial.pending, trial.sent - 1, trial.replies + 1, trial.kept)
      /\ trial.sent > 0
  BY TrialParts DEF Co!AgentAnswers, TrialType, Tried
<1>3. /\ trial.sent \in Nat /\ trial.replies \in Nat /\ trial.kept \in Nat
      /\ trial.sent + trial.replies + trial.kept > 0
  BY <1>2, TrialParts
<1>4. trial.stage \in {"waiting", "ok", "timeout", "error"}
  BY <1>2, <1>3, TrialParts DEF TrialOK
<1>5. trial.sent - 1 \in Nat /\ trial.replies + 1 \in Nat /\ trial.kept \in Nat
      /\ trial.sent - 1 + trial.replies + 1 + trial.kept <= trial.sent + trial.replies + trial.kept + (deskFaults' - deskFaults)
  BY <1>1, <1>2, <1>3
<1> QED BY <1>1, <1>2, <1>3, <1>4, <1>5, TrialAfter

LEMMA TrialRetries ==
  ASSUME DecisionsFit, TrialOK(trial, deskFaults), ConsoleCounts, Co!AgentRetries
  PROVE  TrialOK(trial', deskFaults')
<1>1. deskFaults \in Nat /\ deskFaults' \in Nat /\ deskFaults <= deskFaults' /\ deskFaults' = deskFaults + 1
  BY DEF Co!AgentRetries, Co!Fine, Co!Fault, ConsoleCounts
<1>2. trial' = Tried(trial.stage, trial.file, trial.stored, trial.pending, trial.sent, trial.replies + 1, trial.kept)
      /\ trial.sent > 0
  BY TrialParts DEF Co!AgentRetries, TrialType, Tried
<1>3. /\ trial.sent \in Nat /\ trial.replies \in Nat /\ trial.kept \in Nat
      /\ trial.sent + trial.replies + trial.kept > 0
  BY <1>2, TrialParts
<1>4. trial.stage \in {"waiting", "ok", "timeout", "error"}
  BY <1>2, <1>3, TrialParts DEF TrialOK
<1>5. trial.sent \in Nat /\ trial.replies + 1 \in Nat /\ trial.kept \in Nat
      /\ trial.sent + trial.replies + 1 + trial.kept <= trial.sent + trial.replies + trial.kept + (deskFaults' - deskFaults)
  BY <1>1, <1>2, <1>3
<1> QED BY <1>1, <1>2, <1>3, <1>4, <1>5, TrialAfter

LEMMA TrialDies ==
  ASSUME DecisionsFit, TrialOK(trial, deskFaults), ConsoleCounts, Co!AgentDies
  PROVE  TrialOK(trial', deskFaults')
<1>1. deskFaults \in Nat /\ deskFaults' \in Nat /\ deskFaults <= deskFaults' /\ deskFaults' = deskFaults + 1
  BY DEF Co!AgentDies, Co!Fine, Co!Fault, ConsoleCounts
<1>2. trial' = Tried(trial.stage, trial.file, trial.stored, trial.pending, trial.sent - 1, trial.replies, trial.kept)
      /\ trial.sent > 0
  BY TrialParts DEF Co!AgentDies, TrialType, Tried
<1>3. /\ trial.sent \in Nat /\ trial.replies \in Nat /\ trial.kept \in Nat
      /\ trial.sent + trial.replies + trial.kept > 0
  BY <1>2, TrialParts
<1>4. trial.stage \in {"waiting", "ok", "timeout", "error"}
  BY <1>2, <1>3, TrialParts DEF TrialOK
<1>5. trial.sent - 1 \in Nat /\ trial.replies \in Nat /\ trial.kept \in Nat
      /\ trial.sent - 1 + trial.replies + trial.kept <= trial.sent + trial.replies + trial.kept + (deskFaults' - deskFaults)
  BY <1>1, <1>2, <1>3
<1> QED BY <1>1, <1>2, <1>3, <1>4, <1>5, TrialAfter

LEMMA TrialCapture ==
  ASSUME DecisionsFit, TrialOK(trial, deskFaults), ConsoleCounts, Co!Capture
  PROVE  TrialOK(trial', deskFaults')
<1>1. deskFaults \in Nat /\ deskFaults' \in Nat /\ deskFaults <= deskFaults' /\ deskFaults' = deskFaults
  BY DEF Co!Capture, Co!Fine, Co!Fault, ConsoleCounts
<1>2. trial' = Tried(trial.stage, trial.file, trial.stored, trial.pending, trial.sent, trial.replies - 1, trial.kept + 1)
      /\ trial.replies > 0
  BY TrialParts DEF Co!Capture, TrialType, Tried
<1>3. /\ trial.sent \in Nat /\ trial.replies \in Nat /\ trial.kept \in Nat
      /\ trial.sent + trial.replies + trial.kept > 0
  BY <1>2, TrialParts
<1>4. trial.stage \in {"waiting", "ok", "timeout", "error"}
  BY <1>2, <1>3, TrialParts DEF TrialOK
<1>5. trial.sent \in Nat /\ trial.replies - 1 \in Nat /\ trial.kept + 1 \in Nat
      /\ trial.sent + trial.replies - 1 + trial.kept + 1 <= trial.sent + trial.replies + trial.kept + (deskFaults' - deskFaults)
  BY <1>1, <1>2, <1>3
<1> QED BY <1>1, <1>2, <1>3, <1>4, <1>5, TrialAfter

LEMMA TrialCaptureFails ==
  ASSUME DecisionsFit, TrialOK(trial, deskFaults), ConsoleCounts, Co!CaptureFails
  PROVE  TrialOK(trial', deskFaults')
<1>1. deskFaults \in Nat /\ deskFaults' \in Nat /\ deskFaults <= deskFaults' /\ deskFaults' = deskFaults + 1
  BY DEF Co!CaptureFails, Co!Fine, Co!Fault, ConsoleCounts
<1>2. trial' = Tried(trial.stage, trial.file, trial.stored, trial.pending, trial.sent, trial.replies - 1, trial.kept)
      /\ trial.replies > 0
  BY TrialParts DEF Co!CaptureFails, TrialType, Tried
<1>3. /\ trial.sent \in Nat /\ trial.replies \in Nat /\ trial.kept \in Nat
      /\ trial.sent + trial.replies + trial.kept > 0
  BY <1>2, TrialParts
<1>4. trial.stage \in {"waiting", "ok", "timeout", "error"}
  BY <1>2, <1>3, TrialParts DEF TrialOK
<1>5. trial.sent \in Nat /\ trial.replies - 1 \in Nat /\ trial.kept \in Nat
      /\ trial.sent + trial.replies - 1 + trial.kept <= trial.sent + trial.replies + trial.kept + (deskFaults' - deskFaults)
  BY <1>1, <1>2, <1>3
<1> QED BY <1>1, <1>2, <1>3, <1>4, <1>5, TrialAfter

LEMMA TrialBrpop ==
  ASSUME DecisionsFit, TrialOK(trial, deskFaults), ConsoleCounts, Co!Brpop
  PROVE  TrialOK(trial', deskFaults')
<1>1. deskFaults \in Nat /\ deskFaults' \in Nat /\ deskFaults <= deskFaults' /\ deskFaults' = deskFaults
  BY DEF Co!Brpop, Co!Fine, Co!Fault, ConsoleCounts
<1>2. trial' = Tried("ok", trial.file, trial.stored, trial.pending, trial.sent, trial.replies, trial.kept - 1)
      /\ trial.stage = "waiting" /\ trial.kept > 0
  BY TrialParts DEF Co!Brpop, TrialType, Tried
<1>3. /\ trial.sent \in Nat /\ trial.replies \in Nat /\ trial.kept \in Nat
      /\ trial.sent + trial.replies + trial.kept > 0
  BY <1>2, TrialParts
<1>4. trial.stage \in {"waiting", "ok", "timeout", "error"}
  BY <1>2, <1>3, TrialParts DEF TrialOK
<1>5. trial.sent \in Nat /\ trial.replies \in Nat /\ trial.kept - 1 \in Nat
      /\ trial.sent + trial.replies + trial.kept - 1 <= trial.sent + trial.replies + trial.kept + (deskFaults' - deskFaults)
  BY <1>1, <1>2, <1>3
<1>6. "ok" = "ok" => trial.sent + trial.replies + trial.kept - 1 < trial.sent + trial.replies + trial.kept
  BY <1>2, <1>3
<1> QED BY <1>1, <1>2, <1>3, <1>4, <1>5, <1>6, TrialAfter

LEMMA TrialTimesOut ==
  ASSUME DecisionsFit, TrialOK(trial, deskFaults), ConsoleCounts, Co!TestTimesOut
  PROVE  TrialOK(trial', deskFaults')
<1>1. deskFaults \in Nat /\ deskFaults' \in Nat /\ deskFaults <= deskFaults' /\ deskFaults' = deskFaults
  BY DEF Co!TestTimesOut, Co!Fine, ConsoleCounts
<1>2. trial' = Tried("timeout", trial.file, trial.stored, trial.pending, trial.sent, trial.replies, trial.kept)
      /\ trial.stage = "waiting"
  BY TrialParts DEF Co!TestTimesOut, TrialType, Tried
<1>3. trial.sent + trial.replies + trial.kept
        <= trial.sent + trial.replies + trial.kept + (deskFaults' - deskFaults)
  BY <1>1, TrialParts
<1> QED BY <1>1, <1>2, <1>3, TrialParts, TrialAfter

LEMMA TrialExpires ==
  ASSUME DecisionsFit, TrialOK(trial, deskFaults), ConsoleCounts, Co!KeyExpires
  PROVE  TrialOK(trial', deskFaults')
<1>1. deskFaults \in Nat /\ deskFaults' \in Nat /\ deskFaults <= deskFaults' /\ deskFaults' = deskFaults
  BY DEF Co!KeyExpires, Co!Fine, Co!Fault, ConsoleCounts
<1>2. trial' = Tried(trial.stage, trial.file, trial.stored, trial.pending, trial.sent, trial.replies, 0)
      /\ trial.kept > 0
  BY TrialParts DEF Co!KeyExpires, TrialType, Tried
<1>3. /\ trial.sent \in Nat /\ trial.replies \in Nat /\ trial.kept \in Nat
      /\ trial.sent + trial.replies + trial.kept > 0
  BY <1>2, TrialParts
<1>4. trial.stage \in {"waiting", "ok", "timeout", "error"}
  BY <1>2, <1>3, TrialParts DEF TrialOK
<1>5. trial.sent \in Nat /\ trial.replies \in Nat /\ 0 \in Nat
      /\ trial.sent + trial.replies + 0 <= trial.sent + trial.replies + trial.kept + (deskFaults' - deskFaults)
  BY <1>1, <1>2, <1>3
<1> QED BY <1>1, <1>2, <1>3, <1>4, <1>5, TrialAfter

LEMMA TrialStays ==
  ASSUME TrialOK(trial, deskFaults), trial' = trial, deskFaults \in Nat, deskFaults' \in Nat,
         deskFaults <= deskFaults'
  PROVE  TrialOK(trial', deskFaults')
<1>1. trial.sent + trial.replies + trial.kept \in Nat
  BY TrialParts
<1>2. trial.sent + trial.replies + trial.kept <= deskFaults' + 1
      /\ (trial.stage = "ok" => trial.sent + trial.replies + trial.kept <= deskFaults')
  BY <1>1 DEF TrialOK
<1> QED BY <1>2, Zenon DEF TrialOK

LEMMA TrialTryOut ==
  ASSUME DecisionsFit, TrialOK(trial, deskFaults), ConsoleCounts, Co!TryOut
  PROVE  TrialOK(trial', deskFaults') /\ ConsoleCounts' /\ UNCHANGED <<screen, upload, data>>
         /\ deskFaults \in Nat /\ deskFaults' \in Nat /\ deskFaults <= deskFaults'
<1>1. TrialOK(trial', deskFaults')
  BY TrialSend, TrialStoreFile, TrialPushPending, TrialDispatch, TrialTestFails, TrialAnswers, TrialRetries,
     TrialDies, TrialCapture, TrialCaptureFails, TrialBrpop, TrialTimesOut, TrialExpires DEF Co!TryOut
<1>2. Co!AtTrial /\ (Co!Fine \/ Co!Fault)
  BY DEF Co!TryOut, Co!HandleTestSend, Co!StoreFile, Co!PushPending, Co!Dispatch, Co!TestFails,
     Co!AgentAnswers, Co!AgentRetries, Co!AgentDies, Co!Capture, Co!CaptureFails, Co!Brpop,
     Co!TestTimesOut, Co!KeyExpires
<1>3. desk' = desk /\ UNCHANGED <<screen, upload, data>> /\ Co!Still
  BY <1>2 DEF Co!AtTrial, Co!Still
<1> QED BY <1>1, <1>2, <1>3, ConsoleCountsStep

\* The data: a wipe or a report has dealt with what is not ahead of it.
RowKeys == {"message", "preference"}
ObjectKeys == {"personal", "corporate", "session", "misfiled"}
Keyed == RowKeys \cup ObjectKeys
Ahead(s) == {s[k] : k \in 1..Len(s)}

DataType ==
  [table : SUBSET RowKeys, bucket : SUBSET ObjectKeys, index : SUBSET ObjectKeys,
   wipe : {"none", "tables", "bucket", "success", "error"}, ahead : Seq(Keyed),
   missed : SUBSET (Keyed \cup {"index"}), wrote : SUBSET Keyed, indexed : SUBSET ObjectKeys,
   reading : ObjectKeys \cup {"none"}, forgetting : BOOLEAN, removed : SUBSET ObjectKeys,
   report : {"none", "reading", "whole", "part"}, listed : SUBSET Keyed, held : SUBSET ObjectKeys]

WipeGoes(d) ==
  /\ d.wipe = "tables" => d.table \subseteq Ahead(d.ahead) \cup d.missed \cup d.wrote
  /\ d.wipe \in {"bucket", "success", "error"} => d.table \subseteq d.missed \cup d.wrote
  /\ d.wipe = "bucket" => d.bucket \ Co!Spared \subseteq Ahead(d.ahead) \cup d.missed \cup d.wrote
  /\ d.wipe = "success" => d.bucket \ Co!Spared \subseteq d.missed \cup d.wrote
  /\ d.wipe = "success" => "index" \in d.missed \/ d.index \ Co!Shared \subseteq d.indexed
  /\ Co!Spared \ d.bucket \subseteq d.removed
ReportGoes(d) ==
  /\ d.wipe # "none" => d.report # "reading"
  /\ d.report = "reading" => d.held \ d.removed \subseteq d.bucket
  /\ d.report = "reading" => d.held \ ({"session"} \cup d.removed) \subseteq d.listed \cup Ahead(d.ahead)
  /\ d.report = "whole" /\ d.wipe = "none" => d.held \ ({"session"} \cup d.removed) \subseteq d.listed
DataOK(d) == d \in DataType /\ WipeGoes(d) /\ ReportGoes(d)

LEMMA AheadIs ==
  ASSUME NEW T, NEW s \in Seq(T), s # <<>>
  PROVE  /\ Head(s) \in T /\ Tail(s) \in Seq(T) /\ Ahead(s) = {Head(s)} \cup Ahead(Tail(s))
<1> DEFINE t == Tail(s)
<1>1. /\ t \in Seq(T) /\ Head(s) \in T /\ Len(s) \in Nat \ {0} /\ Len(t) = Len(s) - 1
      /\ Head(s) = s[1]
      /\ \A k \in 1..Len(t) : t[k] = s[k + 1]
  OBVIOUS
<1>2. \A k \in 1..Len(t) : k + 1 \in 1..Len(s)
  BY <1>1
<1>3. \A k \in 1..Len(s) : k # 1 => k - 1 \in 1..Len(t) /\ t[k - 1] = s[k]
  BY <1>1
<1>4. 1 \in 1..Len(s)
  BY <1>1
<1> HIDE DEF t
<1>5. ASSUME NEW x, x \in Ahead(s) PROVE x = Head(s) \/ x \in Ahead(t)
  <2>1. PICK k \in 1..Len(s) : x = s[k]
    BY <1>5 DEF Ahead
  <2>2. CASE k = 1
    BY <1>1, <2>1, <2>2
  <2>3. CASE k # 1
    <3>1. k - 1 \in 1..Len(t) /\ t[k - 1] = x
      BY <1>3, <2>1, <2>3
    <3> QED BY <3>1 DEF Ahead
  <2> QED BY <2>2, <2>3
<1>6. ASSUME NEW x, x = Head(s) \/ x \in Ahead(t) PROVE x \in Ahead(s)
  <2>1. CASE x = Head(s)
    <3>1. x = s[1] /\ 1 \in 1..Len(s)
      BY <1>1, <1>4, <2>1
    <3> QED BY <3>1 DEF Ahead
  <2>2. CASE x \in Ahead(t)
    <3>1. PICK k \in 1..Len(t) : x = t[k]
      BY <2>2 DEF Ahead
    <3>2. k + 1 \in 1..Len(s) /\ x = s[k + 1]
      BY <1>1, <1>2, <3>1
    <3> QED BY <3>2 DEF Ahead
  <2> QED BY <1>6, <2>1, <2>2
<1> QED BY <1>1, <1>5, <1>6 DEF t

LEMMA AheadEnds == Ahead(<<>>) = {}
BY DEF Ahead

LEMMA ListsAre ==
  /\ Co!Rows \in Seq(Keyed) /\ Ahead(Co!Rows) = RowKeys /\ Co!Range(Co!Rows) = RowKeys
  /\ Co!Objects \in Seq(Keyed) /\ Ahead(Co!Objects) = ObjectKeys /\ Co!Range(Co!Objects) = ObjectKeys
<1>1. Co!Rows \in Seq(Keyed) /\ DOMAIN Co!Rows = 1..2 /\ Len(Co!Rows) = 2
      /\ Co!Rows[1] = "message" /\ Co!Rows[2] = "preference"
  BY DEF Co!Rows, Keyed, RowKeys
<1>2. Co!Objects \in Seq(Keyed) /\ DOMAIN Co!Objects = 1..4 /\ Len(Co!Objects) = 4
      /\ Co!Objects[1] = "personal" /\ Co!Objects[2] = "corporate"
      /\ Co!Objects[3] = "session" /\ Co!Objects[4] = "misfiled"
  BY DEF Co!Objects, Keyed, ObjectKeys
<1>3. 1..2 = {1, 2} /\ 1..4 = {1, 2, 3, 4}
  OBVIOUS
<1>4. Ahead(Co!Rows) = RowKeys /\ Ahead(Co!Objects) = ObjectKeys
  BY <1>1, <1>2, <1>3 DEF Ahead, RowKeys, ObjectKeys
<1>5. Co!Range(Co!Rows) = Ahead(Co!Rows) /\ Co!Range(Co!Objects) = Ahead(Co!Objects)
  BY <1>1, <1>2 DEF Co!Range, Ahead
<1> QED BY <1>1, <1>2, <1>4, <1>5

LEMMA DataParts ==
  ASSUME DataOK(data)
  PROVE  /\ data \in DataType /\ data.table \in SUBSET RowKeys /\ data.bucket \in SUBSET ObjectKeys
         /\ data.index \in SUBSET ObjectKeys /\ data.ahead \in Seq(Keyed)
         /\ data.missed \in SUBSET (Keyed \cup {"index"}) /\ data.wrote \in SUBSET Keyed
         /\ data.indexed \in SUBSET ObjectKeys /\ data.reading \in ObjectKeys \cup {"none"}
         /\ data.removed \in SUBSET ObjectKeys /\ data.listed \in SUBSET Keyed /\ data.held \in SUBSET ObjectKeys
         /\ data.forgetting \in BOOLEAN
BY DEF DataOK, DataType

LEMMA DataReset ==
  ASSUME DataOK(data), Co!HandleResetAllUsers
  PROVE  DataOK(data')
<1>1. data' = [data EXCEPT !.wipe = "tables", !.ahead = Co!Rows, !.wrote = {}, !.indexed = {}]
      /\ data.wipe = "none" /\ data.report # "reading"
  BY DEF Co!HandleResetAllUsers
<1>2. /\ data'.table = data.table /\ data'.bucket = data.bucket /\ data'.index = data.index
      /\ data'.wipe = "tables" /\ data'.ahead = Co!Rows /\ data'.missed = data.missed
      /\ data'.wrote = {} /\ data'.indexed = {} /\ data'.reading = data.reading
      /\ data'.forgetting = data.forgetting /\ data'.removed = data.removed /\ data'.report = data.report
      /\ data'.listed = data.listed /\ data'.held = data.held
  BY <1>1, DataParts DEF DataType
<1>4. data' \in DataType
  BY <1>1, DataParts, ListsAre DEF DataType
<1>5. WipeGoes(data')
  BY <1>1, <1>2, DataParts, ListsAre, AheadEnds DEF DataOK, WipeGoes, ReportGoes, Co!Spared, Co!Shared, ObjectKeys
<1>6. ReportGoes(data')
  BY <1>1, <1>2, DataParts, ListsAre, AheadEnds DEF DataOK, ReportGoes, ObjectKeys
<1> QED BY <1>4, <1>5, <1>6 DEF DataOK

LEMMA DataWipeRow ==
  ASSUME DataOK(data), Co!WipeRow
  PROVE  DataOK(data')
<1>1. \/ data' = [data EXCEPT !.table = data.table \ {Head(data.ahead)}, !.ahead = Tail(data.ahead)]
      \/ data' = [data EXCEPT !.ahead = Tail(data.ahead), !.missed = data.missed \cup {Head(data.ahead)}]
  BY DEF Co!WipeRow
<1>2. data.wipe = "tables" /\ data.ahead # <<>>
  BY DEF Co!WipeRow
<1>3. Head(data.ahead) \in Keyed /\ Tail(data.ahead) \in Seq(Keyed)
      /\ Ahead(data.ahead) = {Head(data.ahead)} \cup Ahead(Tail(data.ahead))
  BY <1>2, DataParts, AheadIs
<1>4. CASE data' = [data EXCEPT !.table = data.table \ {Head(data.ahead)}, !.ahead = Tail(data.ahead)]
  <2>1. /\ data'.table = data.table \ {Head(data.ahead)} /\ data'.bucket = data.bucket /\ data'.index = data.index
        /\ data'.wipe = data.wipe /\ data'.ahead = Tail(data.ahead) /\ data'.missed = data.missed
        /\ data'.wrote = data.wrote /\ data'.indexed = data.indexed /\ data'.reading = data.reading
        /\ data'.forgetting = data.forgetting /\ data'.removed = data.removed /\ data'.report = data.report
        /\ data'.listed = data.listed /\ data'.held = data.held
    BY <1>4, DataParts DEF DataType
  <2>2. data' \in DataType
    BY <1>4, <1>2, <1>3, DataParts, ListsAre DEF DataType
  <2>3. WipeGoes(data')
    BY <1>4, <1>2, <1>3, <2>1, DataParts, ListsAre, AheadEnds DEF DataOK, WipeGoes, ReportGoes, Co!Spared, Co!Shared, ObjectKeys
  <2>4. ReportGoes(data')
    BY <1>4, <1>2, <1>3, <2>1, DataParts, ListsAre, AheadEnds DEF DataOK, ReportGoes, ObjectKeys
  <2> QED BY <2>2, <2>3, <2>4 DEF DataOK
<1>5. CASE data' = [data EXCEPT !.ahead = Tail(data.ahead), !.missed = data.missed \cup {Head(data.ahead)}]
  <2>1. /\ data'.table = data.table /\ data'.bucket = data.bucket /\ data'.index = data.index
        /\ data'.wipe = data.wipe /\ data'.ahead = Tail(data.ahead) /\ data'.missed = data.missed \cup {Head(data.ahead)}
        /\ data'.wrote = data.wrote /\ data'.indexed = data.indexed /\ data'.reading = data.reading
        /\ data'.forgetting = data.forgetting /\ data'.removed = data.removed /\ data'.report = data.report
        /\ data'.listed = data.listed /\ data'.held = data.held
    BY <1>5, DataParts DEF DataType
  <2>2. data' \in DataType
    BY <1>5, <1>2, <1>3, DataParts, ListsAre DEF DataType
  <2>3. WipeGoes(data')
    BY <1>5, <1>2, <1>3, <2>1, DataParts, ListsAre, AheadEnds DEF DataOK, WipeGoes, ReportGoes, Co!Spared, Co!Shared, ObjectKeys
  <2>4. ReportGoes(data')
    BY <1>5, <1>2, <1>3, <2>1, DataParts, ListsAre, AheadEnds DEF DataOK, ReportGoes, ObjectKeys
  <2> QED BY <2>2, <2>3, <2>4 DEF DataOK
<1> QED BY <1>1, <1>4, <1>5

LEMMA DataTablesWiped ==
  ASSUME DataOK(data), Co!TablesWiped
  PROVE  DataOK(data')
<1>1. data' = [data EXCEPT !.wipe = "bucket", !.ahead = Co!Objects]
      /\ data.wipe = "tables" /\ data.ahead = <<>>
  BY DEF Co!TablesWiped
<1>2. /\ data'.table = data.table /\ data'.bucket = data.bucket /\ data'.index = data.index
      /\ data'.wipe = "bucket" /\ data'.ahead = Co!Objects /\ data'.missed = data.missed
      /\ data'.wrote = data.wrote /\ data'.indexed = data.indexed /\ data'.reading = data.reading
      /\ data'.forgetting = data.forgetting /\ data'.removed = data.removed /\ data'.report = data.report
      /\ data'.listed = data.listed /\ data'.held = data.held
  BY <1>1, DataParts DEF DataType
<1>4. data' \in DataType
  BY <1>1, DataParts, ListsAre DEF DataType
<1>5. WipeGoes(data')
  BY <1>1, <1>2, DataParts, ListsAre, AheadEnds DEF DataOK, WipeGoes, ReportGoes, Co!Spared, Co!Shared, ObjectKeys
<1>6. ReportGoes(data')
  BY <1>1, <1>2, DataParts, ListsAre, AheadEnds DEF DataOK, ReportGoes, ObjectKeys
<1> QED BY <1>4, <1>5, <1>6 DEF DataOK

LEMMA DataWipeObject ==
  ASSUME DataOK(data), Co!WipeObject
  PROVE  DataOK(data')
<1>1. \/ data' = [data EXCEPT !.bucket = data.bucket \ ({Head(data.ahead)} \ Co!Spared), !.ahead = Tail(data.ahead)]
      \/ data' = [data EXCEPT !.ahead = Tail(data.ahead), !.missed = data.missed \cup {Head(data.ahead)}]
  BY DEF Co!WipeObject
<1>2. data.wipe = "bucket" /\ data.ahead # <<>>
  BY DEF Co!WipeObject
<1>3. Head(data.ahead) \in Keyed /\ Tail(data.ahead) \in Seq(Keyed)
      /\ Ahead(data.ahead) = {Head(data.ahead)} \cup Ahead(Tail(data.ahead))
  BY <1>2, DataParts, AheadIs
<1>4. CASE data' = [data EXCEPT !.bucket = data.bucket \ ({Head(data.ahead)} \ Co!Spared), !.ahead = Tail(data.ahead)]
  <2>1. /\ data'.table = data.table /\ data'.bucket = data.bucket \ ({Head(data.ahead)} \ Co!Spared) /\ data'.index = data.index
        /\ data'.wipe = data.wipe /\ data'.ahead = Tail(data.ahead) /\ data'.missed = data.missed
        /\ data'.wrote = data.wrote /\ data'.indexed = data.indexed /\ data'.reading = data.reading
        /\ data'.forgetting = data.forgetting /\ data'.removed = data.removed /\ data'.report = data.report
        /\ data'.listed = data.listed /\ data'.held = data.held
    BY <1>4, DataParts DEF DataType
  <2>2. data' \in DataType
    BY <1>4, <1>2, <1>3, DataParts, ListsAre DEF DataType
  <2>3. WipeGoes(data')
    BY <1>4, <1>2, <1>3, <2>1, DataParts, ListsAre, AheadEnds DEF DataOK, WipeGoes, ReportGoes, Co!Spared, Co!Shared, ObjectKeys
  <2>4. ReportGoes(data')
    BY <1>4, <1>2, <1>3, <2>1, DataParts, ListsAre, AheadEnds DEF DataOK, ReportGoes, ObjectKeys
  <2> QED BY <2>2, <2>3, <2>4 DEF DataOK
<1>5. CASE data' = [data EXCEPT !.ahead = Tail(data.ahead), !.missed = data.missed \cup {Head(data.ahead)}]
  <2>1. /\ data'.table = data.table /\ data'.bucket = data.bucket /\ data'.index = data.index
        /\ data'.wipe = data.wipe /\ data'.ahead = Tail(data.ahead) /\ data'.missed = data.missed \cup {Head(data.ahead)}
        /\ data'.wrote = data.wrote /\ data'.indexed = data.indexed /\ data'.reading = data.reading
        /\ data'.forgetting = data.forgetting /\ data'.removed = data.removed /\ data'.report = data.report
        /\ data'.listed = data.listed /\ data'.held = data.held
    BY <1>5, DataParts DEF DataType
  <2>2. data' \in DataType
    BY <1>5, <1>2, <1>3, DataParts, ListsAre DEF DataType
  <2>3. WipeGoes(data')
    BY <1>5, <1>2, <1>3, <2>1, DataParts, ListsAre, AheadEnds DEF DataOK, WipeGoes, ReportGoes, Co!Spared, Co!Shared, ObjectKeys
  <2>4. ReportGoes(data')
    BY <1>5, <1>2, <1>3, <2>1, DataParts, ListsAre, AheadEnds DEF DataOK, ReportGoes, ObjectKeys
  <2> QED BY <2>2, <2>3, <2>4 DEF DataOK
<1> QED BY <1>1, <1>4, <1>5

LEMMA DataListFails ==
  ASSUME DataOK(data), Co!ListFails
  PROVE  DataOK(data')
<1>1. data' = [data EXCEPT !.wipe = "error"]
      /\ data.wipe = "bucket"
  BY DEF Co!ListFails
<1>2. /\ data'.table = data.table /\ data'.bucket = data.bucket /\ data'.index = data.index
      /\ data'.wipe = "error" /\ data'.ahead = data.ahead /\ data'.missed = data.missed
      /\ data'.wrote = data.wrote /\ data'.indexed = data.indexed /\ data'.reading = data.reading
      /\ data'.forgetting = data.forgetting /\ data'.removed = data.removed /\ data'.report = data.report
      /\ data'.listed = data.listed /\ data'.held = data.held
  BY <1>1, DataParts DEF DataType
<1>4. data' \in DataType
  BY <1>1, DataParts, ListsAre DEF DataType
<1>5. WipeGoes(data')
  BY <1>1, <1>2, DataParts, ListsAre, AheadEnds DEF DataOK, WipeGoes, ReportGoes, Co!Spared, Co!Shared, ObjectKeys
<1>6. ReportGoes(data')
  BY <1>1, <1>2, DataParts, ListsAre, AheadEnds DEF DataOK, ReportGoes, ObjectKeys
<1> QED BY <1>4, <1>5, <1>6 DEF DataOK

LEMMA DataWipeIndex ==
  ASSUME DataOK(data), Co!WipeIndex
  PROVE  DataOK(data')
<1>1. \/ data' = [data EXCEPT !.wipe = "success", !.index = data.index \cap Co!Shared]
      \/ data' = [data EXCEPT !.wipe = "success", !.missed = data.missed \cup {"index"}]
  BY DEF Co!WipeIndex
<1>2. data.wipe = "bucket" /\ data.ahead = <<>>
  BY DEF Co!WipeIndex
<1>4. CASE data' = [data EXCEPT !.wipe = "success", !.index = data.index \cap Co!Shared]
  <2>1. /\ data'.table = data.table /\ data'.bucket = data.bucket /\ data'.index = data.index \cap Co!Shared
        /\ data'.wipe = "success" /\ data'.ahead = data.ahead /\ data'.missed = data.missed
        /\ data'.wrote = data.wrote /\ data'.indexed = data.indexed /\ data'.reading = data.reading
        /\ data'.forgetting = data.forgetting /\ data'.removed = data.removed /\ data'.report = data.report
        /\ data'.listed = data.listed /\ data'.held = data.held
    BY <1>4, DataParts DEF DataType
  <2>2. data' \in DataType
    BY <1>4, <1>2, DataParts, ListsAre DEF DataType
  <2>3. WipeGoes(data')
    BY <1>4, <1>2, <2>1, DataParts, ListsAre, AheadEnds DEF DataOK, WipeGoes, ReportGoes, Co!Spared, Co!Shared, ObjectKeys
  <2>4. ReportGoes(data')
    BY <1>4, <1>2, <2>1, DataParts, ListsAre, AheadEnds DEF DataOK, ReportGoes, ObjectKeys
  <2> QED BY <2>2, <2>3, <2>4 DEF DataOK
<1>5. CASE data' = [data EXCEPT !.wipe = "success", !.missed = data.missed \cup {"index"}]
  <2>1. /\ data'.table = data.table /\ data'.bucket = data.bucket /\ data'.index = data.index
        /\ data'.wipe = "success" /\ data'.ahead = data.ahead /\ data'.missed = data.missed \cup {"index"}
        /\ data'.wrote = data.wrote /\ data'.indexed = data.indexed /\ data'.reading = data.reading
        /\ data'.forgetting = data.forgetting /\ data'.removed = data.removed /\ data'.report = data.report
        /\ data'.listed = data.listed /\ data'.held = data.held
    BY <1>5, DataParts DEF DataType
  <2>2. data' \in DataType
    BY <1>5, <1>2, DataParts, ListsAre DEF DataType
  <2>3. WipeGoes(data')
    BY <1>5, <1>2, <2>1, DataParts, ListsAre, AheadEnds DEF DataOK, WipeGoes, ReportGoes, Co!Spared, Co!Shared, ObjectKeys
  <2>4. ReportGoes(data')
    BY <1>5, <1>2, <2>1, DataParts, ListsAre, AheadEnds DEF DataOK, ReportGoes, ObjectKeys
  <2> QED BY <2>2, <2>3, <2>4 DEF DataOK
<1> QED BY <1>1, <1>4, <1>5

LEMMA DataStoreRow ==
  ASSUME DataOK(data), NEW k \in RowKeys, Co!StoreRow(k)
  PROVE  DataOK(data')
<1>1. data' = [data EXCEPT !.table = data.table \cup {k}, !.wrote = data.wrote \cup {k}]
  BY DEF Co!StoreRow
<1>2. /\ data'.table = data.table \cup {k} /\ data'.bucket = data.bucket /\ data'.index = data.index
      /\ data'.wipe = data.wipe /\ data'.ahead = data.ahead /\ data'.missed = data.missed
      /\ data'.wrote = data.wrote \cup {k} /\ data'.indexed = data.indexed /\ data'.reading = data.reading
      /\ data'.forgetting = data.forgetting /\ data'.removed = data.removed /\ data'.report = data.report
      /\ data'.listed = data.listed /\ data'.held = data.held
  BY <1>1, DataParts DEF DataType
<1>3. k \in Keyed
  BY DEF Keyed
<1>4. data' \in DataType
  BY <1>1, <1>3, DataParts, ListsAre DEF DataType
<1>5. WipeGoes(data')
  BY <1>1, <1>2, <1>3, DataParts, ListsAre, AheadEnds DEF DataOK, WipeGoes, ReportGoes, Co!Spared, Co!Shared, ObjectKeys
<1>6. ReportGoes(data')
  BY <1>1, <1>2, <1>3, DataParts, ListsAre, AheadEnds DEF DataOK, ReportGoes, ObjectKeys
<1> QED BY <1>4, <1>5, <1>6 DEF DataOK

LEMMA DataStoreObject ==
  ASSUME DataOK(data), Co!StoreObject
  PROVE  DataOK(data')
<1>1. data' = [data EXCEPT !.bucket = data.bucket \cup {"personal"}, !.wrote = data.wrote \cup {"personal"}]
  BY DEF Co!StoreObject
<1>2. /\ data'.table = data.table /\ data'.bucket = data.bucket \cup {"personal"} /\ data'.index = data.index
      /\ data'.wipe = data.wipe /\ data'.ahead = data.ahead /\ data'.missed = data.missed
      /\ data'.wrote = data.wrote \cup {"personal"} /\ data'.indexed = data.indexed /\ data'.reading = data.reading
      /\ data'.forgetting = data.forgetting /\ data'.removed = data.removed /\ data'.report = data.report
      /\ data'.listed = data.listed /\ data'.held = data.held
  BY <1>1, DataParts DEF DataType
<1>3. "personal" \in Keyed /\ "personal" \in ObjectKeys
  BY DEF Keyed, ObjectKeys
<1>4. data' \in DataType
  BY <1>1, <1>3, DataParts, ListsAre DEF DataType
<1>5. WipeGoes(data')
  BY <1>1, <1>2, <1>3, DataParts, ListsAre, AheadEnds DEF DataOK, WipeGoes, ReportGoes, Co!Spared, Co!Shared, ObjectKeys
<1>6. ReportGoes(data')
  BY <1>1, <1>2, <1>3, DataParts, ListsAre, AheadEnds DEF DataOK, ReportGoes, ObjectKeys
<1> QED BY <1>4, <1>5, <1>6 DEF DataOK

LEMMA DataIndexReads ==
  ASSUME DataOK(data), NEW o \in ObjectKeys, Co!IndexReads(o)
  PROVE  DataOK(data')
<1>1. data' = [data EXCEPT !.reading = o]
  BY DEF Co!IndexReads
<1>2. /\ data'.table = data.table /\ data'.bucket = data.bucket /\ data'.index = data.index
      /\ data'.wipe = data.wipe /\ data'.ahead = data.ahead /\ data'.missed = data.missed
      /\ data'.wrote = data.wrote /\ data'.indexed = data.indexed /\ data'.reading = o
      /\ data'.forgetting = data.forgetting /\ data'.removed = data.removed /\ data'.report = data.report
      /\ data'.listed = data.listed /\ data'.held = data.held
  BY <1>1, DataParts DEF DataType
<1>4. data' \in DataType
  BY <1>1, DataParts, ListsAre DEF DataType
<1>5. WipeGoes(data')
  BY <1>1, <1>2, DataParts, ListsAre, AheadEnds DEF DataOK, WipeGoes, ReportGoes, Co!Spared, Co!Shared, ObjectKeys
<1>6. ReportGoes(data')
  BY <1>1, <1>2, DataParts, ListsAre, AheadEnds DEF DataOK, ReportGoes, ObjectKeys
<1> QED BY <1>4, <1>5, <1>6 DEF DataOK

LEMMA DataIndexStores ==
  ASSUME DataOK(data), Co!IndexStores
  PROVE  DataOK(data')
<1>1. data' = [data EXCEPT !.index = data.index \cup {data.reading}, !.reading = "none", !.indexed = data.indexed \cup {data.reading}]
      /\ data.reading # "none"
  BY DEF Co!IndexStores
<1>2. /\ data'.table = data.table /\ data'.bucket = data.bucket /\ data'.index = data.index \cup {data.reading}
      /\ data'.wipe = data.wipe /\ data'.ahead = data.ahead /\ data'.missed = data.missed
      /\ data'.wrote = data.wrote /\ data'.indexed = data.indexed \cup {data.reading} /\ data'.reading = "none"
      /\ data'.forgetting = data.forgetting /\ data'.removed = data.removed /\ data'.report = data.report
      /\ data'.listed = data.listed /\ data'.held = data.held
  BY <1>1, DataParts DEF DataType
<1>3. data.reading \in ObjectKeys
  BY <1>1, DataParts
<1>4. data' \in DataType
  BY <1>1, <1>3, DataParts, ListsAre DEF DataType
<1>5. WipeGoes(data')
  BY <1>1, <1>2, <1>3, DataParts, ListsAre, AheadEnds DEF DataOK, WipeGoes, ReportGoes, Co!Spared, Co!Shared, ObjectKeys
<1>6. ReportGoes(data')
  BY <1>1, <1>2, <1>3, DataParts, ListsAre, AheadEnds DEF DataOK, ReportGoes, ObjectKeys
<1> QED BY <1>4, <1>5, <1>6 DEF DataOK

LEMMA DataDelete ==
  ASSUME DataOK(data), NEW o \in ObjectKeys, Co!DeleteDocument(o)
  PROVE  DataOK(data')
<1>1. \/ data' = [data EXCEPT !.bucket = data.bucket \ {o}, !.removed = data.removed \cup {o}]
      \/ UNCHANGED data
  BY DEF Co!DeleteDocument
<1>2. TRUE
  BY DEF Co!DeleteDocument
<1>4. CASE data' = [data EXCEPT !.bucket = data.bucket \ {o}, !.removed = data.removed \cup {o}]
  <2>1. /\ data'.table = data.table /\ data'.bucket = data.bucket \ {o} /\ data'.index = data.index
        /\ data'.wipe = data.wipe /\ data'.ahead = data.ahead /\ data'.missed = data.missed
        /\ data'.wrote = data.wrote /\ data'.indexed = data.indexed /\ data'.reading = data.reading
        /\ data'.forgetting = data.forgetting /\ data'.removed = data.removed \cup {o} /\ data'.report = data.report
        /\ data'.listed = data.listed /\ data'.held = data.held
    BY <1>4, DataParts DEF DataType
  <2>2. data' \in DataType
    BY <1>4, <1>2, DataParts, ListsAre DEF DataType
  <2>3. WipeGoes(data')
    BY <1>4, <1>2, <2>1, DataParts, ListsAre, AheadEnds DEF DataOK, WipeGoes, ReportGoes, Co!Spared, Co!Shared, ObjectKeys
  <2>4. ReportGoes(data')
    BY <1>4, <1>2, <2>1, DataParts, ListsAre, AheadEnds DEF DataOK, ReportGoes, ObjectKeys
  <2> QED BY <2>2, <2>3, <2>4 DEF DataOK
<1>5. CASE UNCHANGED data
  BY <1>5
<1> QED BY <1>1, <1>4, <1>5

LEMMA DataDeleteUser ==
  ASSUME DataOK(data), Co!HandleDeleteUser
  PROVE  DataOK(data')
<1>1. data' = [data EXCEPT !.forgetting = TRUE]
  BY DEF Co!HandleDeleteUser
<1>2. /\ data'.table = data.table /\ data'.bucket = data.bucket /\ data'.index = data.index
      /\ data'.wipe = data.wipe /\ data'.ahead = data.ahead /\ data'.missed = data.missed
      /\ data'.wrote = data.wrote /\ data'.indexed = data.indexed /\ data'.reading = data.reading
      /\ data'.forgetting = TRUE /\ data'.removed = data.removed /\ data'.report = data.report
      /\ data'.listed = data.listed /\ data'.held = data.held
  BY <1>1, DataParts DEF DataType
<1>4. data' \in DataType
  BY <1>1, DataParts, ListsAre DEF DataType
<1>5. WipeGoes(data')
  BY <1>1, <1>2, DataParts, ListsAre, AheadEnds DEF DataOK, WipeGoes, ReportGoes, Co!Spared, Co!Shared, ObjectKeys
<1>6. ReportGoes(data')
  BY <1>1, <1>2, DataParts, ListsAre, AheadEnds DEF DataOK, ReportGoes, ObjectKeys
<1> QED BY <1>4, <1>5, <1>6 DEF DataOK

LEMMA DataDeleteDocs ==
  ASSUME DataOK(data), Co!DeleteUserDocuments
  PROVE  DataOK(data')
<1>1. data' = [data EXCEPT !.forgetting = FALSE, !.index = data.index \ {"personal"}]
  BY DEF Co!DeleteUserDocuments
<1>2. /\ data'.table = data.table /\ data'.bucket = data.bucket /\ data'.index = data.index \ {"personal"}
      /\ data'.wipe = data.wipe /\ data'.ahead = data.ahead /\ data'.missed = data.missed
      /\ data'.wrote = data.wrote /\ data'.indexed = data.indexed /\ data'.reading = data.reading
      /\ data'.forgetting = FALSE /\ data'.removed = data.removed /\ data'.report = data.report
      /\ data'.listed = data.listed /\ data'.held = data.held
  BY <1>1, DataParts DEF DataType
<1>4. data' \in DataType
  BY <1>1, DataParts, ListsAre DEF DataType
<1>5. WipeGoes(data')
  BY <1>1, <1>2, DataParts, ListsAre, AheadEnds DEF DataOK, WipeGoes, ReportGoes, Co!Spared, Co!Shared, ObjectKeys
<1>6. ReportGoes(data')
  BY <1>1, <1>2, DataParts, ListsAre, AheadEnds DEF DataOK, ReportGoes, ObjectKeys
<1> QED BY <1>4, <1>5, <1>6 DEF DataOK

LEMMA DataListAll ==
  ASSUME DataOK(data), Co!ListAllDocuments
  PROVE  DataOK(data')
<1>1. data' = [data EXCEPT !.report = "reading", !.ahead = Co!Objects, !.held = data.bucket]
      /\ data.report = "none" /\ data.wipe = "none"
  BY DEF Co!ListAllDocuments
<1>2. /\ data'.table = data.table /\ data'.bucket = data.bucket /\ data'.index = data.index
      /\ data'.wipe = data.wipe /\ data'.ahead = Co!Objects /\ data'.missed = data.missed
      /\ data'.wrote = data.wrote /\ data'.indexed = data.indexed /\ data'.reading = data.reading
      /\ data'.forgetting = data.forgetting /\ data'.removed = data.removed /\ data'.report = "reading"
      /\ data'.listed = data.listed /\ data'.held = data.bucket
  BY <1>1, DataParts DEF DataType
<1>4. data' \in DataType
  BY <1>1, DataParts, ListsAre DEF DataType
<1>5. WipeGoes(data')
  BY <1>1, <1>2, DataParts, ListsAre, AheadEnds DEF DataOK, WipeGoes, ReportGoes, Co!Spared, Co!Shared, ObjectKeys
<1>6. ReportGoes(data')
  BY <1>1, <1>2, DataParts, ListsAre, AheadEnds DEF DataOK, ReportGoes, ObjectKeys
<1> QED BY <1>4, <1>5, <1>6 DEF DataOK

LEMMA DataListPage ==
  ASSUME DataOK(data), Co!ListPage
  PROVE  DataOK(data')
<1>1. data' = [data EXCEPT !.ahead = Tail(data.ahead), !.listed = data.listed \cup ({Head(data.ahead)} \cap (data.bucket \ {"session"}))]
      /\ data.report = "reading" /\ data.ahead # <<>>
  BY DEF Co!ListPage
<1>2. /\ data'.table = data.table /\ data'.bucket = data.bucket /\ data'.index = data.index
      /\ data'.wipe = data.wipe /\ data'.ahead = Tail(data.ahead) /\ data'.missed = data.missed
      /\ data'.wrote = data.wrote /\ data'.indexed = data.indexed /\ data'.reading = data.reading
      /\ data'.forgetting = data.forgetting /\ data'.removed = data.removed /\ data'.report = data.report
      /\ data'.listed = data.listed \cup ({Head(data.ahead)} \cap (data.bucket \ {"session"})) /\ data'.held = data.held
  BY <1>1, DataParts DEF DataType
<1>3. Head(data.ahead) \in Keyed /\ Tail(data.ahead) \in Seq(Keyed)
      /\ Ahead(data.ahead) = {Head(data.ahead)} \cup Ahead(Tail(data.ahead))
  BY <1>1, DataParts, AheadIs
<1>4. data' \in DataType
  BY <1>1, <1>3, DataParts, ListsAre DEF DataType
<1>5. WipeGoes(data')
  BY <1>1, <1>2, <1>3, DataParts, ListsAre, AheadEnds DEF DataOK, WipeGoes, ReportGoes, Co!Spared, Co!Shared, ObjectKeys
<1>6. ReportGoes(data')
  BY <1>1, <1>2, <1>3, DataParts, ListsAre, AheadEnds DEF DataOK, ReportGoes, ObjectKeys
<1> QED BY <1>4, <1>5, <1>6 DEF DataOK

LEMMA DataListed ==
  ASSUME DataOK(data), Co!Listed
  PROVE  DataOK(data')
<1>1. \/ data' = [data EXCEPT !.report = "whole"] /\ data.ahead = <<>>
      \/ data' = [data EXCEPT !.report = "part", !.ahead = <<>>]
  BY DEF Co!Listed
<1>2. data.report = "reading"
  BY DEF Co!Listed
<1>3. <<>> \in Seq(Keyed)
  BY <1>2
<1>4. CASE data' = [data EXCEPT !.report = "whole"] /\ data.ahead = <<>>
  <2>1. /\ data'.table = data.table /\ data'.bucket = data.bucket /\ data'.index = data.index
        /\ data'.wipe = data.wipe /\ data'.ahead = data.ahead /\ data'.missed = data.missed
        /\ data'.wrote = data.wrote /\ data'.indexed = data.indexed /\ data'.reading = data.reading
        /\ data'.forgetting = data.forgetting /\ data'.removed = data.removed /\ data'.report = "whole"
        /\ data'.listed = data.listed /\ data'.held = data.held
    BY <1>4, DataParts DEF DataType
  <2>2. data' \in DataType
    BY <1>4, <1>2, <1>3, DataParts, ListsAre DEF DataType
  <2>3. WipeGoes(data')
    BY <1>4, <1>2, <1>3, <2>1, DataParts, ListsAre, AheadEnds DEF DataOK, WipeGoes, ReportGoes, Co!Spared, Co!Shared, ObjectKeys
  <2>4. ReportGoes(data')
    BY <1>4, <1>2, <1>3, <2>1, DataParts, ListsAre, AheadEnds DEF DataOK, ReportGoes, ObjectKeys
  <2> QED BY <2>2, <2>3, <2>4 DEF DataOK
<1>5. CASE data' = [data EXCEPT !.report = "part", !.ahead = <<>>]
  <2>1. /\ data'.table = data.table /\ data'.bucket = data.bucket /\ data'.index = data.index
        /\ data'.wipe = data.wipe /\ data'.ahead = <<>> /\ data'.missed = data.missed
        /\ data'.wrote = data.wrote /\ data'.indexed = data.indexed /\ data'.reading = data.reading
        /\ data'.forgetting = data.forgetting /\ data'.removed = data.removed /\ data'.report = "part"
        /\ data'.listed = data.listed /\ data'.held = data.held
    BY <1>5, DataParts DEF DataType
  <2>2. data' \in DataType
    BY <1>5, <1>2, <1>3, DataParts, ListsAre DEF DataType
  <2>3. WipeGoes(data')
    BY <1>5, <1>2, <1>3, <2>1, DataParts, ListsAre, AheadEnds DEF DataOK, WipeGoes, ReportGoes, Co!Spared, Co!Shared, ObjectKeys
  <2>4. ReportGoes(data')
    BY <1>5, <1>2, <1>3, <2>1, DataParts, ListsAre, AheadEnds DEF DataOK, ReportGoes, ObjectKeys
  <2> QED BY <2>2, <2>3, <2>4 DEF DataOK
<1> QED BY <1>1, <1>4, <1>5

LEMMA DataKeepHouse ==
  ASSUME DecisionsFit, DataOK(data), ConsoleCounts, Co!KeepHouse
  PROVE  DataOK(data') /\ ConsoleCounts' /\ UNCHANGED <<screen, upload, trial>>
         /\ deskFaults \in Nat /\ deskFaults' \in Nat /\ deskFaults <= deskFaults'
<1>1. DataOK(data')
  BY ListsAre, DataReset, DataWipeRow, DataTablesWiped, DataWipeObject, DataListFails, DataWipeIndex,
     DataStoreRow, DataStoreObject, DataIndexReads, DataIndexStores, DataDelete, DataDeleteUser,
     DataDeleteDocs, DataListAll, DataListPage, DataListed DEF Co!KeepHouse
<1>2. Co!AtData /\ (Co!Still \/ Co!Move) /\ (Co!Fine \/ Co!Fault)
  BY DEF Co!KeepHouse, Co!HandleResetAllUsers, Co!TablesWiped, Co!ListFails, Co!WipeIndex, Co!WipeRow,
     Co!WipeObject, Co!ListPage, Co!StoreRow, Co!IndexReads, Co!DeleteDocument, Co!StoreObject,
     Co!IndexStores, Co!HandleDeleteUser, Co!DeleteUserDocuments, Co!ListAllDocuments, Co!Listed
<1>3. desk' = desk /\ UNCHANGED <<screen, upload, trial>>
  BY <1>2 DEF Co!AtData
<1> QED BY <1>1, <1>2, <1>3, ConsoleCountsStep

(***************************************************************************)
(* The desks together.                                                     *)
(***************************************************************************)
ConsoleInv ==
  /\ ConsoleCounts /\ ScreenOK(screen, deskFaults) /\ UploadOK(upload) /\ TrialOK(trial, deskFaults)
  /\ DataOK(data)

LEMMA ConsoleInit == ASSUME DecisionsFit, Co!Init PROVE ConsoleInv
<1>1. ConsoleCounts
  BY ConsoleConstants DEF Co!Init, ConsoleCounts
<1>2. ScreenOK(screen, deskFaults)
  <2>1. screen = [link |-> Co!Off, drawing |-> {}, crossed |-> FALSE, emits |-> <<>>,
                  read |-> "blank", overtaken |-> FALSE, timer |-> FALSE,
                  pages |-> [p \in Pages |-> Co!Closed]]
    BY DEF Co!Init
  <2>2. Co!Off \in Co!Links /\ Co!Off.qr = "none" /\ Co!Off.url = "none"
    BY DEF Co!Off, Co!Links
  <2>3. Co!Closed \in [status : LinkStates \cup {"closed", "blank"}, figures : SUBSET Figures]
        /\ Co!Closed.status = "closed"
    BY DEF Co!Closed
  <2>4. <<>> \in Seq(LinkStates) /\ Len(<<>>) <= 2
    OBVIOUS
  <2> DEFINE g == [p \in Pages |-> Co!Closed]
  <2>5. g \in [Pages -> [status : LinkStates \cup {"closed", "blank"}, figures : SUBSET Figures]]
        /\ \A p \in Pages : g[p].status = "closed"
    BY <2>3
  <2> HIDE DEF g
  <2>6. screen \in ScreenType
    BY <2>1, <2>2, <2>4, <2>5 DEF ScreenType, g
  <2>7. LinkOK(screen.link, screen.drawing, screen.crossed)
    BY <2>1, <2>2 DEF LinkOK
  <2>8. screen.emits = <<>> /\ screen.pages = g
    BY <2>1 DEF g
  <2>9. FedOK(screen.emits, screen.read, screen.overtaken, screen.timer, screen.pages, deskFaults)
    BY <2>4, <2>5, <2>8 DEF FedOK
  <2> QED BY <2>6, <2>7, <2>9 DEF ScreenOK
<1>3. UploadOK(upload)
  <2> DEFINE stage == [f \in DeskFiles |-> "none"]
  <2>1. upload = Filed(<<>>, stage, {}, {}, {})
    BY DEF Co!Init, Filed
  <2>2. <<>> \in Seq(Record) /\ 0 <= MaxRecords /\ Len(<<>>) = 0 /\ 1..0 = {}
    BY ConsoleConstants
  <2>3. stage \in [DeskFiles -> {"none", "putting", "pushing", "over"}] /\ \A f \in DeskFiles : stage[f] = "none"
    OBVIOUS
  <2> HIDE DEF stage
  <2>4. upload \in UploadType /\ upload.records = <<>>
    <3>1. <<>> \in Seq(Record)
      BY <2>2
    <3>2. stage \in [DeskFiles -> {"none", "putting", "pushing", "over"}]
      BY <2>3
    <3>3. {} \in SUBSET DeskFiles
      OBVIOUS
    <3>4. upload \in UploadType
      BY <2>1, <3>1, <3>2, <3>3, FiledIs, Zenon
    <3> QED BY <2>1, <3>4 DEF Filed
  <2>5. upload.stage = stage /\ upload.pending = {}
    BY <2>1 DEF Filed
  <2>6. \A f \in DeskFiles : FileOK(f, upload)
    BY <2>3, <2>5 DEF FileOK
  <2>7. Len(upload.records) = 0 /\ 1..Len(upload.records) = {} /\ Len(upload.records) <= MaxRecords
    BY <2>2, <2>4
  <2> QED BY <2>4, <2>6, <2>7 DEF UploadOK
<1>4. TrialOK(trial, deskFaults)
  <2>1. trial = Tried("none", "none", FALSE, FALSE, 0, 0, 0)
    BY DEF Co!Init, Tried
  <2>2. BeforeOK("none", "none", FALSE, FALSE, 0) /\ FALSE \in BOOLEAN
    BY DEF BeforeOK
  <2>3. deskFaults \in Nat
    BY <1>1 DEF ConsoleCounts
  <2> QED BY <2>1, <2>2, <2>3, TrialBefore
<1>5. DataOK(data)
  <2>1. data = [table |-> RowKeys, bucket |-> ObjectKeys, index |-> ObjectKeys \ {"session"},
             wipe |-> "none", ahead |-> <<>>, missed |-> {}, wrote |-> {}, indexed |-> {},
             reading |-> "none", forgetting |-> FALSE, removed |-> {}, report |-> "none",
             listed |-> {}, held |-> {}]
    BY ListsAre DEF Co!Init
  <2>2. <<>> \in Seq(Keyed)
    OBVIOUS
  <2>3. data \in DataType
    BY <2>1, <2>2 DEF DataType
  <2>4. WipeGoes(data) /\ ReportGoes(data)
    BY <2>1 DEF WipeGoes, ReportGoes, Co!Spared, ObjectKeys
  <2> QED BY <2>3, <2>4 DEF DataOK
<1> QED BY <1>1, <1>2, <1>3, <1>4, <1>5 DEF ConsoleInv

LEMMA ConsoleStep ==
  ASSUME DecisionsFit, ConsoleInv, [Co!Next]_(Co!consoleVars) PROVE ConsoleInv'
<1>1. ConsoleCounts /\ ScreenOK(screen, deskFaults) /\ UploadOK(upload) /\ TrialOK(trial, deskFaults) /\ DataOK(data)
  BY DEF ConsoleInv
<1>2. CASE Co!Watch
  BY <1>1, <1>2, ScreenWatch, TrialStays DEF ConsoleInv
<1>3. CASE Co!SendFiles
  BY <1>1, <1>3, UploadSendFiles, ScreenStays, TrialStays DEF ConsoleInv
<1>4. CASE Co!TryOut
  BY <1>1, <1>4, TrialTryOut, ScreenStays DEF ConsoleInv
<1>5. CASE Co!KeepHouse
  BY <1>1, <1>5, DataKeepHouse, ScreenStays, TrialStays DEF ConsoleInv
<1>6. CASE UNCHANGED Co!consoleVars
  <2>1. UNCHANGED <<desk, screen, upload, trial, data, moves, deskFaults>>
    BY <1>6 DEF Co!consoleVars
  <2>2. ConsoleCounts' /\ deskFaults \in Nat /\ deskFaults' \in Nat /\ deskFaults <= deskFaults'
    BY <1>1, <2>1 DEF ConsoleCounts
  <2> QED BY <1>1, <2>1, <2>2, ScreenStays, TrialStays DEF ConsoleInv
<1> QED BY <1>2, <1>3, <1>4, <1>5, <1>6 DEF Co!Next

LEMMA ConsoleHolds ==
  ASSUME DecisionsFit, ConsoleInv
  PROVE  /\ Co!TypeOK /\ Co!PictureIsCurrent /\ Co!PageIsFed /\ Co!RecordsAreTrue
         /\ Co!TestIsTrue /\ Co!WipeIsTrue /\ Co!ReportIsTrue
<1>1. ConsoleCounts /\ ScreenOK(screen, deskFaults) /\ UploadOK(upload) /\ TrialOK(trial, deskFaults) /\ DataOK(data)
  BY DEF ConsoleInv
<1>2. Co!PictureIsCurrent
  BY <1>1, ScreenParts DEF Co!PictureIsCurrent, LinkOK
<1>3. Co!PageIsFed
  BY <1>1, ScreenParts DEF Co!PageIsFed, Co!Open, FedOK
<1>4. Co!RecordsAreTrue
  <2> SUFFICES ASSUME NEW r \in Co!Range(upload.records)
               PROVE CASE r.status = "completed" ->
                            r.file \in upload.stored /\ r.file \in upload.pending \cup upload.faulted
                       [] r.status = "failed" -> r.file \in upload.faulted \ upload.pending
                       [] r.status = "processing" -> upload.stage[r.file] \in {"putting", "pushing"}
    BY DEF Co!RecordsAreTrue
  <2>1. PICK i \in 1..Len(upload.records) : r = upload.records[i]
    BY <1>1, UploadParts DEF Co!Range
  <2>2. r \in Record /\ RecordOK(r, upload)
    BY <1>1, <2>1, UploadParts DEF UploadOK
  <2> QED BY <2>2 DEF Record, RecordOK
<1>5. Co!TestIsTrue
  BY <1>1 DEF Co!TestIsTrue, TrialOK
<1>6. Co!WipeIsTrue
  BY <1>1 DEF Co!WipeIsTrue, DataOK, WipeGoes
<1>7. Co!ReportIsTrue
  BY <1>1 DEF Co!ReportIsTrue, DataOK, ReportGoes
<1>8. Co!TypeOK
  <2>1. /\ desk \in Co!Desks /\ moves \in 0..MaxMoves /\ deskFaults \in 0..MaxDeskFaults
        /\ screen.link \in Co!Links /\ screen.drawing \subseteq Codes
    BY <1>1, ScreenParts DEF ConsoleCounts
  <2>2. \A p \in Pages : screen.pages[p].status \in
          {"closed", "blank", "disconnected", "qr_pending", "connected"}
    BY <1>1, ScreenParts DEF LinkStates
  <2>3. /\ upload.stored \cup upload.pending \cup upload.faulted \subseteq DeskFiles
        /\ Len(upload.records) <= MaxRecords
        /\ \A f \in DeskFiles : upload.stage[f] \in {"none", "putting", "pushing", "over"}
    BY <1>1, UploadParts DEF UploadOK
  <2>4. trial.stage \in {"none", "storing", "pending", "sending", "waiting", "ok", "timeout", "error"}
    BY <1>1, TrialParts
  <2>5. data.table \subseteq Co!Range(Co!Rows) /\ data.bucket \cup data.index \subseteq Co!Range(Co!Objects)
    BY <1>1, DataParts, ListsAre
  <2> QED BY <2>1, <2>2, <2>3, <2>4, <2>5, Zenon DEF Co!TypeOK
<1> QED BY <1>2, <1>3, <1>4, <1>5, <1>6, <1>7, <1>8

(***************************************************************************)
(* Login: what an entry and the failures behind it have to do with each      *)
(* other.                                                                  *)
(***************************************************************************)
Window2 == 2 * MaxFailures - 2
EntryShape(e, g) == g \in Seq(Nat) /\ e \in [count : Nat, first : Nat, until : Nat]
EntryTypes(e, g, now) ==
  /\ now \in Nat /\ Len(g) \in Nat /\ \A i \in 1..Len(g) : g[i] \in Nat
  /\ e.count \in Nat /\ e.first \in Nat /\ e.until \in Nat

\* The failures are in order and past, and few in a window's time.
InOrder(g, now) ==
  /\ \A i \in 1..Len(g) : g[i] <= now
  /\ \A i, j \in 1..Len(g) : i <= j => g[i] <= g[j]
Few(g) == \A i, j \in 1..Len(g) : j - i >= Window2 => g[j] - g[i] >= Window

\* All but the last failures of a window that did not fill are a window's time ago.
Past(g, n, time) == \A i \in 1..Len(g) : i <= n - (MaxFailures - 2) => g[i] + Window <= time

\* An entry counts the last failures, those of its window, and blocks from the last
\* one on when they are as many as the limit.
EntryCounts(e, g) ==
  /\ e.count <= Len(g) /\ g[Len(g) - e.count + 1] = e.first
  /\ \A i \in 1..Len(g) : i > Len(g) - e.count => g[i] - e.first <= Window
  /\ Past(g, Len(g) - e.count, e.first)
  /\ e.until = IF e.count >= MaxFailures THEN g[Len(g)] + Block ELSE 0

EntryInv(e, g, now) ==
  /\ EntryShape(e, g) /\ EntryTypes(e, g, now) /\ InOrder(g, now) /\ Few(g)
  /\ e.count = 0 => e = Lo!None /\ Past(g, Len(g), now)
  /\ e.count > 0 => EntryCounts(e, g)

LEMMA LoginConstants ==
  ASSUME DecisionsFit
  PROVE  /\ MaxFailures \in Nat /\ MaxFailures >= 2 /\ Window \in Nat /\ Block \in Nat /\ Window <= Block
         /\ Window2 \in Nat /\ Window2 >= MaxFailures
BY DEF DecisionsFit, Lo!ConstantAssumption, Window2

LEMMA EntryNew == ASSUME DecisionsFit, NEW now \in Nat PROVE EntryInv(Lo!None, <<>>, now)
<1>1. EntryShape(Lo!None, <<>>) /\ EntryTypes(Lo!None, <<>>, now)
  BY DEF EntryShape, EntryTypes, Lo!None
<1> QED BY <1>1, LoginConstants DEF EntryInv, InOrder, Few, Past, Lo!None

\* Time passes.
LEMMA EntryLater ==
  ASSUME DecisionsFit, NEW e, NEW g, NEW now, EntryInv(e, g, now)
  PROVE  EntryInv(e, g, now + 1)
<1>1. EntryTypes(e, g, now + 1)
  BY DEF EntryInv, EntryTypes
<1>2. InOrder(g, now + 1)
  BY DEF EntryInv, EntryTypes, InOrder
<1>3. ASSUME e.count = 0 PROVE e = Lo!None /\ Past(g, Len(g), now + 1)
  BY <1>3, LoginConstants DEF EntryInv, EntryTypes, Past
<1> QED BY <1>1, <1>2, <1>3 DEF EntryInv

\* What is expired may go: its window, or its block, is over.
LEMMA EntryPast ==
  ASSUME DecisionsFit, NEW e, NEW g, NEW now, EntryInv(e, g, now),
         e.until <= now, e.count = 0 \/ now - e.first > Window \/ e.count >= MaxFailures
  PROVE  Past(g, Len(g), now)
<1>1. CASE e.count = 0
  BY <1>1 DEF EntryInv
<1>2. CASE e.count > 0
  <2>1. EntryCounts(e, g) /\ EntryTypes(e, g, now) /\ InOrder(g, now)
    BY <1>2 DEF EntryInv
  <2>2. Len(g) \in 1..Len(g) /\ Len(g) - e.count + 1 \in 1..Len(g)
    BY <1>2, <2>1 DEF EntryCounts, EntryTypes
  <2> SUFFICES ASSUME NEW i \in 1..Len(g), i <= Len(g) - (MaxFailures - 2)
               PROVE  g[i] + Window <= now
    BY DEF Past
  <2>3. g[i] \in Nat /\ g[Len(g)] \in Nat /\ g[Len(g) - e.count + 1] \in Nat
    BY <2>1, <2>2 DEF EntryTypes
  <2>6. now \in Nat /\ e.first \in Nat /\ Window \in Nat /\ Block \in Nat /\ Window <= Block
    BY <2>1, LoginConstants DEF EntryTypes
  <2>4. CASE e.count >= MaxFailures
    <3>1. g[i] <= g[Len(g)]
      BY <2>1, <2>2 DEF InOrder, EntryTypes
    <3>2. g[Len(g)] + Block <= now
      BY <2>1, <2>4 DEF EntryCounts
    <3> QED BY <3>1, <3>2, <2>3, <2>6
  <2>5. CASE ~(e.count >= MaxFailures)
    <3>1. i <= Len(g) - e.count + 1
      BY <2>5, <2>1, LoginConstants DEF EntryTypes
    <3>2. g[i] <= g[Len(g) - e.count + 1]
      BY <3>1, <2>1, <2>2 DEF InOrder, EntryTypes
    <3>3. g[i] <= e.first
      BY <3>2, <2>1 DEF EntryCounts
    <3>4. now - e.first > Window
      BY <1>2, <2>5, LoginConstants, <2>1 DEF EntryTypes
    <3> QED BY <3>3, <3>4, <2>3, <2>6
  <2> QED BY <2>4, <2>5
<1> QED BY <1>1, <1>2 DEF EntryInv, EntryTypes

LEMMA EntryGoes ==
  ASSUME DecisionsFit, NEW e, NEW g, NEW now, EntryInv(e, g, now), e.until <= now, now - e.first > Window
  PROVE  EntryInv(Lo!None, g, now)
<1>1. Past(g, Len(g), now)
  BY EntryPast
<1>2. EntryShape(Lo!None, g) /\ EntryTypes(Lo!None, g, now)
  BY DEF EntryInv, EntryShape, EntryTypes, Lo!None
<1> QED BY <1>1, <1>2 DEF EntryInv, Lo!None

\* One more failure.
LEMMA EntryCounted ==
  ASSUME DecisionsFit, NEW e, NEW g, NEW now, now = clock, EntryInv(e, g, now), e.count = 0 \/ e.until <= now
  PROVE  EntryInv(Lo!Counted(e), Append(g, now), now)
<1> DEFINE f == Lo!Counted(e)
           h == Append(g, now)
<1> SUFFICES EntryInv(f, h, now)
  OBVIOUS
<1>1. EntryTypes(e, g, now) /\ InOrder(g, now) /\ Few(g)
  BY DEF EntryInv
<1>s. EntryShape(e, g)
  BY DEF EntryInv
<1>h. h \in Seq(Nat)
  BY <1>1, <1>s DEF EntryTypes, EntryShape
<1>2. /\ Len(h) = Len(g) + 1 /\ Len(h) \in Nat /\ Len(g) \in Nat
      /\ \A i \in 1..Len(g) : h[i] = g[i] /\ g[i] \in Nat
      /\ h[Len(h)] = now
  BY <1>1, <1>s DEF EntryTypes, EntryShape
<1> HIDE DEF h
<1>3. 1..Len(h) = (1..Len(g)) \cup {Len(h)} /\ 1..Len(g) \subseteq 1..Len(h)
  BY <1>2
<1>4. e.until <= now
  BY <1>1 DEF EntryInv, Lo!None, EntryTypes
<1>5. InOrder(h, now)
  <2>1. \A i \in 1..Len(h) : h[i] <= now
    BY <1>1, <1>2, <1>3 DEF InOrder, EntryTypes
  <2>2. ASSUME NEW i \in 1..Len(h), NEW j \in 1..Len(h), i <= j PROVE h[i] <= h[j]
    <3>1. CASE j = Len(h)
      BY <3>1, <2>1, <1>2
    <3>2. CASE j \in 1..Len(g)
      <4>1. i \in 1..Len(g)
        BY <3>2, <2>2, <1>2
      <4> QED BY <4>1, <3>2, <2>2, <1>1, <1>2 DEF InOrder
    <3> QED BY <3>1, <3>2, <1>3
  <2> QED BY <2>1, <2>2 DEF InOrder
<1>6. CASE e.count = 0 \/ now - e.first > Window
  <2>1. f = [count |-> 1, first |-> now, until |-> 0]
    BY <1>6 DEF Lo!Counted
  <2> HIDE DEF f
  <2>2. Past(g, Len(g), now)
    BY <1>6, <1>4, EntryPast
  <2>3. EntryTypes(f, h, now)
    BY <2>1, <1>1, <1>2, <1>3 DEF EntryTypes
  <2>8. EntryShape(f, h)
    BY <2>1, <1>1, <1>h DEF EntryShape, EntryTypes
  <2>4. Past(h, Len(h) - 1, now)
    <3> SUFFICES ASSUME NEW i \in 1..Len(h), i <= Len(h) - 1 - (MaxFailures - 2)
                 PROVE  h[i] + Window <= now
      BY DEF Past
    <3>1. i \in 1..Len(g) /\ i <= Len(g) - (MaxFailures - 2)
      BY <1>2, LoginConstants
    <3> QED BY <3>1, <2>2, <1>2 DEF Past
  <2>5. EntryCounts(f, h)
    <3>1. \A i \in 1..Len(h) : i > Len(h) - 1 => i = Len(h)
      BY <1>2
    <3>2. f.count = 1 /\ f.first = now /\ f.until = 0 /\ ~(1 >= MaxFailures)
      BY <2>1, LoginConstants
    <3> QED BY <3>1, <3>2, <2>4, <1>2, <1>1, LoginConstants DEF EntryCounts, EntryTypes
  <2>6. Few(h)
    <3> SUFFICES ASSUME NEW i \in 1..Len(h), NEW j \in 1..Len(h), j - i >= Window2
                 PROVE  h[j] - h[i] >= Window
      BY DEF Few
    <3>1. i \in 1..Len(g) /\ h[i] = g[i]
      BY <1>2, LoginConstants
    <3>2. CASE j \in 1..Len(g)
      BY <3>1, <3>2, <1>1, <1>2 DEF Few
    <3>3. CASE j = Len(h)
      <4>1. i <= Len(g) - (MaxFailures - 2)
        BY <3>3, <1>2, LoginConstants
      <4> QED BY <4>1, <3>1, <3>3, <2>2, <1>2, <1>1, LoginConstants DEF Past, EntryTypes
    <3> QED BY <3>2, <3>3, <1>3
  <2>9. f.count = 1
    BY <2>1
  <2> QED BY <2>9, <2>3, <2>5, <2>6, <2>8, <1>5 DEF EntryInv
<1>7. CASE e.count > 0 /\ ~(now - e.first > Window)
  <2>1. f = [count |-> e.count + 1, first |-> e.first,
             until |-> IF e.count + 1 >= MaxFailures THEN now + Block ELSE e.until]
    <3>1. f = [e EXCEPT !.count = @ + 1,
                 !.until = IF e.count + 1 >= MaxFailures THEN clock + Block ELSE @]
      BY <1>7, <1>1 DEF Lo!Counted, EntryTypes
    <3> HIDE DEF f
    <3> QED BY <3>1, <1>s DEF EntryShape
  <2> HIDE DEF f
  <2>2. EntryCounts(e, g)
    BY <1>7 DEF EntryInv
  <2>3. EntryTypes(f, h, now)
    <3>1. now + Block \in Nat /\ e.count + 1 \in Nat /\ e.first \in Nat /\ e.until \in Nat /\ now \in Nat
      BY <1>1, LoginConstants DEF EntryTypes
    <3>2. f.count \in Nat /\ f.first \in Nat /\ f.until \in Nat
      BY <3>1, <2>1
    <3>3. \A i \in 1..Len(h) : h[i] \in Nat
      BY <3>1, <1>2, <1>3
    <3> QED BY <3>1, <3>2, <3>3, <1>2 DEF EntryTypes
  <2>8. EntryShape(f, h)
    <3>1. f.count \in Nat /\ f.first \in Nat /\ f.until \in Nat
      BY <2>3 DEF EntryTypes
    <3> QED BY <3>1, <2>1, <1>h DEF EntryShape
  <2>4. f.count = e.count + 1 /\ f.first = e.first /\ e.first <= now
    <3>1. Len(g) - e.count + 1 \in 1..Len(g)
      BY <1>7, <2>2, <1>1 DEF EntryCounts, EntryTypes
    <3> QED BY <3>1, <2>1, <2>2, <1>1 DEF EntryCounts, InOrder
  <2>5. EntryCounts(f, h)
    <3>1. f.count <= Len(h)
      BY <2>4, <2>2, <1>2, <1>1 DEF EntryCounts, EntryTypes
    <3>2. h[Len(h) - f.count + 1] = f.first
      <4>1. Len(g) - e.count + 1 \in 1..Len(g) /\ Len(h) - f.count + 1 = Len(g) - e.count + 1
        BY <1>7, <2>2, <2>4, <1>1, <1>2 DEF EntryCounts, EntryTypes
      <4> QED BY <4>1, <1>2, <2>2, <2>4 DEF EntryCounts
    <3>3. \A i \in 1..Len(h) : i > Len(h) - f.count => h[i] - f.first <= Window
      <4> SUFFICES ASSUME NEW i \in 1..Len(h), i > Len(h) - f.count
                   PROVE  h[i] - f.first <= Window
        OBVIOUS
      <4>1. CASE i \in 1..Len(g)
        <5>1. i > Len(g) - e.count
          BY <2>4, <1>2, <1>1, <4>1 DEF EntryTypes
        <5> QED BY <5>1, <4>1, <2>2, <2>4, <1>2 DEF EntryCounts
      <4>2. CASE i = Len(h)
        BY <4>2, <1>7, <1>2, <2>4, <1>1, LoginConstants DEF EntryTypes
      <4> QED BY <4>1, <4>2, <1>3
    <3>4. Past(h, Len(h) - f.count, f.first)
      <4> SUFFICES ASSUME NEW i \in 1..Len(h), i <= Len(h) - f.count - (MaxFailures - 2)
                   PROVE  h[i] + Window <= f.first
        BY DEF Past
      <4>1. i \in 1..Len(g) /\ i <= Len(g) - e.count - (MaxFailures - 2)
        BY <2>4, <1>2, <1>1, LoginConstants DEF EntryTypes
      <4> QED BY <4>1, <2>2, <2>4, <1>2 DEF EntryCounts, Past
    <3>5. f.until = IF f.count >= MaxFailures THEN h[Len(h)] + Block ELSE 0
      BY <2>1, <2>2, <2>4, <1>2, <1>1, LoginConstants DEF EntryCounts, EntryTypes
    <3> QED BY <3>1, <3>2, <3>3, <3>4, <3>5 DEF EntryCounts
  <2>6. Few(h)
    <3> SUFFICES ASSUME NEW i \in 1..Len(h), NEW j \in 1..Len(h), j - i >= Window2
                 PROVE  h[j] - h[i] >= Window
      BY DEF Few
    <3>1. i \in 1..Len(g) /\ h[i] = g[i]
      BY <1>2, LoginConstants
    <3>2. CASE j \in 1..Len(g)
      BY <3>1, <3>2, <1>1, <1>2 DEF Few
    <3>3. CASE j = Len(h) /\ e.count >= MaxFailures
      <4>1. Past(g, Len(g), now)
        BY <3>3, <1>4, EntryPast
      <4>2. i <= Len(g) - (MaxFailures - 2)
        BY <3>3, <1>2, LoginConstants
      <4> QED BY <4>1, <4>2, <3>1, <3>3, <1>2, <1>1, LoginConstants DEF Past, EntryTypes
    <3>4. CASE j = Len(h) /\ ~(e.count >= MaxFailures)
      <4>1. i <= Len(g) - e.count - (MaxFailures - 2)
        BY <3>4, <1>2, <1>1, LoginConstants DEF EntryTypes, Window2
      <4>2. g[i] + Window <= e.first
        BY <4>1, <3>1, <2>2 DEF EntryCounts, Past
      <4> QED BY <4>2, <3>1, <3>4, <1>2, <1>1, <2>4, LoginConstants DEF EntryTypes
    <3> QED BY <3>2, <3>3, <3>4, <1>3
  <2>7. f.count > 0
    BY <2>4, <1>1 DEF EntryTypes
  <2>9. ~(f.count = 0)
    BY <2>7
  <2> QED BY <2>3, <2>5, <2>6, <2>9, <2>8, <1>5 DEF EntryInv
<1> QED BY <1>6, <1>7, <1>1 DEF EntryTypes

(***************************************************************************)
(* Login: the inductive invariant.                                         *)
(***************************************************************************)
CookiesKept ==
  /\ incarnation \in Nat /\ incarnation > 0 /\ strangers \subseteq Addresses
  /\ cookie \in [Addresses -> Nat] /\ \A a \in Addresses : cookie[a] <= incarnation
  /\ Lo!SignedInIsServed

DoorTypes ==
  /\ clock \in Nat
  /\ failedAttempts \in [Addresses -> [count : Nat, first : Nat, until : Nat]]
  /\ guesses \in [Addresses -> Seq(Nat)]

LoginInv ==
  /\ CookiesKept /\ DoorTypes
  /\ \A a \in Addresses : EntryInv(failedAttempts[a], guesses[a], clock)

LEMMA LoginInit == ASSUME DecisionsFit, Lo!Init PROVE LoginInv
<1>1. CookiesKept /\ DoorTypes
  BY DEF Lo!Init, CookiesKept, DoorTypes, Lo!SignedInIsServed, Lo!None
<1>2. ASSUME NEW a \in Addresses PROVE EntryInv(failedAttempts[a], guesses[a], clock)
  BY EntryNew DEF Lo!Init
<1> QED BY <1>1, <1>2 DEF LoginInv

\* A failure is counted only once its address is let through.
LEMMA LoginUnauthorized ==
  ASSUME DecisionsFit, LoginInv, NEW a \in Addresses, NEW means \in Lo!Means, Lo!SendUnauthorized(a, means)
  PROVE  LoginInv'
<1>1. clock' = clock /\ clock \in Nat
  BY DEF Lo!SendUnauthorized, LoginInv, DoorTypes
<1>2. \A b \in Addresses : EntryInv(failedAttempts[b], guesses[b], clock)
  BY DEF LoginInv
<1>3. \A b \in Addresses :
        /\ failedAttempts'[b] = IF b = a THEN Lo!Counted(Lo!Pruned(a)) ELSE Lo!Pruned(b)
        /\ guesses'[b] = IF b = a THEN Append(Lo!Known(a), clock) ELSE Lo!Known(b)
  BY DEF Lo!SendUnauthorized, Lo!RecordFailedAttempt
<1>4. ASSUME NEW b \in Addresses PROVE EntryInv(Lo!Pruned(b), Lo!Known(b), clock)
  <2>1. CASE Lo!Stays(b)
    BY <2>1, <1>2 DEF Lo!Pruned, Lo!Known, Lo!Forgotten
  <2>2. CASE ~Lo!Stays(b) /\ Lo!HasEntry(b) /\ ~Lo!Expired(b)
    BY <2>2, <1>1, EntryNew DEF Lo!Pruned, Lo!Known, Lo!Forgotten
  <2>3. CASE ~Lo!Stays(b) /\ ~Lo!HasEntry(b)
    <3>1. failedAttempts[b] = Lo!None
      BY <2>3, <1>2 DEF Lo!HasEntry, EntryInv, EntryTypes
    <3> QED BY <2>3, <3>1, <1>2 DEF Lo!Pruned, Lo!Known, Lo!Forgotten
  <2>4. CASE ~Lo!Stays(b) /\ Lo!Expired(b)
    <3>1. EntryInv(Lo!None, guesses[b], clock)
      BY <2>4, <1>2, EntryGoes DEF Lo!Expired
    <3> QED BY <2>4, <3>1 DEF Lo!Pruned, Lo!Known, Lo!Forgotten
  <2> QED BY <2>1, <2>2, <2>3, <2>4
<1>5. Lo!Pruned(a).count = 0 \/ Lo!Pruned(a).until <= clock
  <2>1. CASE Lo!Stays(a)
    <3>1. ~(failedAttempts[a].count > 0 /\ failedAttempts[a].until > clock)
      BY DEF Lo!SendUnauthorized, Lo!IsRateLimited, Lo!HasEntry
    <3>2. failedAttempts[a].count \in Nat /\ failedAttempts[a].until \in Nat
      BY <1>2 DEF EntryInv, EntryTypes
    <3>3. Lo!Pruned(a) = failedAttempts[a]
      BY <2>1 DEF Lo!Pruned
    <3> QED BY <3>1, <3>2, <3>3, <1>1
  <2>2. CASE ~Lo!Stays(a)
    BY <2>2 DEF Lo!Pruned, Lo!None
  <2> QED BY <2>1, <2>2
<1>6. EntryInv(Lo!Counted(Lo!Pruned(a)), Append(Lo!Known(a), clock), clock)
  BY <1>4, <1>5, EntryCounted
<1>7. ASSUME NEW b \in Addresses PROVE EntryInv(failedAttempts'[b], guesses'[b], clock')
  <2>1. CASE b = a
    BY <2>1, <1>1, <1>3, <1>6
  <2>2. CASE b # a
    BY <2>2, <1>1, <1>3, <1>4
  <2> QED BY <2>1, <2>2
<1>8. DoorTypes'
  <2>1. \A b \in Addresses : EntryShape(failedAttempts'[b], guesses'[b])
    BY <1>7 DEF EntryInv
  <2>2. failedAttempts' = [b \in Addresses |-> failedAttempts'[b]] /\ guesses' = [b \in Addresses |-> guesses'[b]]
    BY DEF Lo!SendUnauthorized, Lo!RecordFailedAttempt
  <2> QED BY <2>1, <2>2, <1>1 DEF DoorTypes, EntryShape
<1>9. CookiesKept'
  <2>1. CookiesKept
    BY DEF LoginInv
  <2>2. UNCHANGED <<secrets, cookie, incarnation>> /\ ~Lo!IsAuthenticated(a, means)
        /\ strangers' = IF means = "cookie" THEN strangers \cup {a} ELSE strangers
    BY DEF Lo!SendUnauthorized
  <2>3. means = "cookie" /\ "pass" \in secrets => cookie[a] = 0
    BY <2>2 DEF Lo!IsAuthenticated, Lo!HasValidSessionCookie
  <2> QED BY <2>1, <2>2, <2>3 DEF CookiesKept, Lo!SignedInIsServed
<1> QED BY <1>7, <1>8, <1>9 DEF LoginInv

\* Whoever is let in is forgotten.
LEMMA LoginForgets ==
  ASSUME DecisionsFit, LoginInv, NEW a \in Addresses, Lo!ClearFailedAttempts(a), clock' = clock, CookiesKept'
  PROVE  LoginInv'
<1>1. clock \in Nat /\ DoorTypes
  BY DEF LoginInv, DoorTypes
<1>2. /\ failedAttempts' = [failedAttempts EXCEPT ![a] = Lo!None]
      /\ guesses' = [guesses EXCEPT ![a] = <<>>]
  BY DEF Lo!ClearFailedAttempts
<1>3. DoorTypes'
  BY <1>1, <1>2 DEF DoorTypes, Lo!None
<1>4. ASSUME NEW b \in Addresses PROVE EntryInv(failedAttempts'[b], guesses'[b], clock')
  <2>1. CASE b = a
    <3>1. failedAttempts'[b] = Lo!None /\ guesses'[b] = <<>>
      BY <2>1, <1>1, <1>2 DEF DoorTypes
    <3> QED BY <3>1, <1>1, EntryNew
  <2>2. CASE b # a
    <3>1. failedAttempts'[b] = failedAttempts[b] /\ guesses'[b] = guesses[b]
      BY <2>2, <1>1, <1>2 DEF DoorTypes
    <3> QED BY <3>1 DEF LoginInv
  <2> QED BY <2>1, <2>2
<1> QED BY <1>3, <1>4 DEF LoginInv

LEMMA LoginCsrf ==
  ASSUME DecisionsFit, LoginInv, NEW a \in Addresses, NEW means, NEW wish, NEW echoes,
         Lo!SendCsrfFailure(a, means, wish, echoes)
  PROVE  LoginInv'
<1>1. UNCHANGED <<secrets, clock, cookie, incarnation, strangers>> /\ Lo!ClearFailedAttempts(a)
  BY DEF Lo!SendCsrfFailure
<1>2. CookiesKept'
  BY <1>1 DEF LoginInv, CookiesKept, Lo!SignedInIsServed
<1> QED BY <1>1, <1>2, LoginForgets

LEMMA LoginRouted ==
  ASSUME DecisionsFit, LoginInv, NEW a \in Addresses, NEW means, NEW wish \in Lo!Wishes, NEW echoes,
         Lo!Routed(a, means, wish, echoes)
  PROVE  LoginInv'
<1>1. /\ UNCHANGED <<secrets, clock, incarnation>> /\ Lo!ClearFailedAttempts(a)
      /\ strangers' = IF wish = "page" THEN strangers \ {a} ELSE strangers
  BY DEF Lo!Routed
<1>2. \/ wish = "page" /\ cookie' = [cookie EXCEPT ![a] = incarnation]
      \/ wish # "page" /\ cookie' = [cookie EXCEPT ![a] = 0]
      \/ wish # "page" /\ cookie' = cookie
  BY DEF Lo!Routed
<1>3. CookiesKept
  BY DEF LoginInv
<1>4. CookiesKept'
  BY <1>1, <1>2, <1>3 DEF CookiesKept, Lo!SignedInIsServed
<1> QED BY <1>1, <1>4, LoginForgets

LEMMA LoginStep ==
  ASSUME DecisionsFit, LoginInv, [Lo!Next]_(Lo!loginVars)
  PROVE  LoginInv'
<1>1. CASE UNCHANGED Lo!loginVars
  BY <1>1 DEF Lo!loginVars, LoginInv, CookiesKept, Lo!SignedInIsServed, DoorTypes
<1>2. CASE Lo!Tick
  <2>1. clock' = clock + 1 /\ UNCHANGED <<secrets, failedAttempts, guesses, cookie, incarnation, strangers>>
    BY <1>2 DEF Lo!Tick
  <2>2. CookiesKept' /\ DoorTypes'
    BY <2>1 DEF LoginInv, CookiesKept, Lo!SignedInIsServed, DoorTypes
  <2>3. ASSUME NEW a \in Addresses PROVE EntryInv(failedAttempts'[a], guesses'[a], clock')
    BY <2>1, EntryLater DEF LoginInv
  <2> QED BY <2>2, <2>3 DEF LoginInv
<1>3. CASE Lo!Restarts
  <2>1. /\ incarnation' = incarnation + 1 /\ UNCHANGED <<secrets, clock, cookie, strangers>>
        /\ failedAttempts' = [a \in Addresses |-> Lo!None] /\ guesses' = [a \in Addresses |-> <<>>]
    BY <1>3 DEF Lo!Restarts
  <2>2. CookiesKept'
    BY <2>1 DEF LoginInv, CookiesKept, Lo!SignedInIsServed
  <2>3. DoorTypes'
    BY <2>1 DEF LoginInv, DoorTypes, Lo!None
  <2>4. ASSUME NEW a \in Addresses PROVE EntryInv(failedAttempts'[a], guesses'[a], clock')
    BY <2>1, EntryNew DEF LoginInv, DoorTypes
  <2> QED BY <2>2, <2>3, <2>4 DEF LoginInv
<1>4. ASSUME NEW a \in Addresses, Lo!CookieExpires(a) PROVE LoginInv'
  <2>1. /\ cookie' = [cookie EXCEPT ![a] = 0]
        /\ UNCHANGED <<secrets, clock, failedAttempts, guesses, incarnation, strangers>>
    BY <1>4 DEF Lo!CookieExpires
  <2>2. CookiesKept'
    BY <2>1 DEF LoginInv, CookiesKept, Lo!SignedInIsServed
  <2> QED BY <2>1, <2>2 DEF LoginInv, DoorTypes
<1>5. ASSUME NEW a \in Addresses, NEW means \in Lo!Means, Lo!HandleAdminRequest(a, means) PROVE LoginInv'
  <2>1. CASE Lo!SendRateLimited(a)
    BY <2>1, <1>1 DEF Lo!SendRateLimited
  <2>2. CASE Lo!SendUnauthorized(a, means)
    BY <2>2, LoginUnauthorized
  <2>3. ASSUME NEW wish \in Lo!Wishes, NEW echoes \in BOOLEAN,
               Lo!SendCsrfFailure(a, means, wish, echoes) \/ Lo!Routed(a, means, wish, echoes)
        PROVE  LoginInv'
    BY <2>3, LoginCsrf, LoginRouted
  <2> QED BY <1>5, <2>1, <2>2, <2>3 DEF Lo!HandleAdminRequest
<1> QED BY <1>1, <1>2, <1>3, <1>4, <1>5 DEF Lo!Next

LEMMA LoginHolds ==
  ASSUME DecisionsFit, LoginInv
  PROVE  Lo!GuessesAreFew /\ Lo!BlockedForCause /\ Lo!SignedInIsServed
<1>1. Lo!SignedInIsServed
  BY DEF LoginInv, CookiesKept
<1>2. Lo!GuessesAreFew
  BY DEF LoginInv, EntryInv, Few, Window2, Lo!GuessesAreFew
<1>3. ASSUME NEW a \in Addresses, Lo!IsRateLimited(a)
      PROVE  /\ Len(guesses[a]) >= MaxFailures
             /\ guesses[a][Len(guesses[a])] - guesses[a][Len(guesses[a]) - MaxFailures + 1] <= Window
             /\ clock - guesses[a][Len(guesses[a])] < Block
  <2> DEFINE e == failedAttempts[a]
             g == guesses[a]
             n == Len(g)
  <2>1. EntryInv(e, g, clock) /\ e.count > 0 /\ e.until > clock
    BY <1>3 DEF LoginInv, Lo!IsRateLimited, Lo!HasEntry
  <2> HIDE DEF e, g
  <2>2. EntryCounts(e, g) /\ EntryTypes(e, g, clock)
    BY <2>1 DEF EntryInv
  <2>3. e.count >= MaxFailures /\ e.until = g[n] + Block
    BY <2>1, <2>2 DEF EntryCounts, EntryTypes
  <2>4. n \in Nat /\ e.count \in Nat /\ e.count <= n /\ clock \in Nat /\ e.first \in Nat
    BY <2>2 DEF EntryCounts, EntryTypes
  <2>5. n >= MaxFailures
    BY <2>3, <2>4, LoginConstants
  <2>6. n \in 1..n /\ n - MaxFailures + 1 \in 1..n /\ n - e.count + 1 \in 1..n /\ n > n - e.count
        /\ n - e.count + 1 <= n - MaxFailures + 1
    <3>1. MaxFailures \in Nat /\ MaxFailures >= 2
      BY LoginConstants
    <3> HIDE DEF n
    <3> QED BY <2>3, <2>4, <2>5, <3>1
  <2>7. g[n] - e.first <= Window
    BY <2>2, <2>6 DEF EntryCounts
  <2>8. e.first <= g[n - MaxFailures + 1]
    <3>1. g[n - e.count + 1] <= g[n - MaxFailures + 1]
      BY <2>1, <2>6 DEF EntryInv, InOrder
    <3> QED BY <3>1, <2>2 DEF EntryCounts
  <2>9. g[n] \in Nat /\ g[n - MaxFailures + 1] \in Nat /\ Window \in Nat /\ Block \in Nat
    BY <2>2, <2>6, LoginConstants DEF EntryTypes
  <2>10. g[n] - g[n - MaxFailures + 1] <= Window
    BY <2>7, <2>8, <2>9, <2>4
  <2>11. clock - g[n] < Block
    BY <2>1, <2>3, <2>4, <2>9
  <2> QED BY <2>5, <2>10, <2>11 DEF g, n
<1>4. Lo!BlockedForCause
  BY <1>3 DEF Lo!BlockedForCause
<1> QED BY <1>1, <1>2, <1>4

(***************************************************************************)
(* Login: the bounds of its types.                                         *)
(***************************************************************************)
LEMMA DoorInitTypes == ASSUME DecisionsFit, Lo!Init PROVE Lo!TypeOK
<1>1. 0 \in 0..MaxTime /\ 0 \in 0..(MaxTime + Block) /\ 1 \in 1..(MaxRestarts + 1) /\ 0 \in 0..1
  BY DecisionsFit DEF DecisionsFit, Lo!ConstantAssumption
<1> QED BY <1>1 DEF Lo!Init, Lo!TypeOK, Lo!Times, Lo!Entries, Lo!None

\* An entry as it is counted on, or forgotten.
LEMMA DoorEntries ==
  ASSUME DecisionsFit, Lo!TypeOK, NEW a \in Addresses
  PROVE  /\ Lo!None \in Lo!Entries /\ Lo!Pruned(a) \in Lo!Entries
         /\ Lo!Counted(Lo!Pruned(a)) \in Lo!Entries /\ Lo!Known(a) \in Seq(Lo!Times)
<1>1. MaxTime \in Nat /\ Block \in Nat /\ clock \in 0..MaxTime /\ clock + Block \in 0..(MaxTime + Block)
  BY DecisionsFit DEF DecisionsFit, Lo!ConstantAssumption, Lo!TypeOK, Lo!Times
<1>2. Lo!None \in Lo!Entries
  BY <1>1 DEF Lo!None, Lo!Entries, Lo!Times
<1>3. PICK e \in Lo!Entries : e = Lo!Pruned(a)
  BY <1>2 DEF Lo!TypeOK, Lo!Pruned
<1>4. Lo!Counted(e) \in Lo!Entries
  <2>1. e = [count |-> e.count, first |-> e.first, until |-> e.until]
        /\ e.count \in Nat /\ e.first \in 0..MaxTime /\ e.until \in 0..(MaxTime + Block)
    BY DEF Lo!Entries, Lo!Times
  <2>2. CASE e.count = 0 \/ clock - e.first > Window
    <3>1. 0 \in 0..(MaxTime + Block)
      BY <1>1
    <3>2. Lo!Counted(e) = [count |-> 1, first |-> clock, until |-> 0]
      BY <2>2 DEF Lo!Counted
    <3> QED BY <1>1, <3>1, <3>2 DEF Lo!Entries, Lo!Times
  <2>3. CASE ~(e.count = 0 \/ clock - e.first > Window)
    <3>1. PICK u \in 0..(MaxTime + Block) :
            Lo!Counted(e) = [count |-> e.count + 1, first |-> e.first, until |-> u]
      BY <1>1, <2>1, <2>3 DEF Lo!Counted
    <3>2. e.count + 1 \in Nat
      BY <2>1
    <3> QED BY <2>1, <3>1, <3>2 DEF Lo!Entries, Lo!Times
  <2> QED BY <2>2, <2>3
<1>5. Lo!Known(a) \in Seq(Lo!Times)
  BY DEF Lo!Known, Lo!TypeOK
<1> QED BY <1>2, <1>3, <1>4, <1>5

LEMMA DoorRecords ==
  ASSUME DecisionsFit, Lo!TypeOK, NEW a \in Addresses, Lo!RecordFailedAttempt(a)
  PROVE  /\ failedAttempts' \in [Addresses -> Lo!Entries] /\ guesses' \in [Addresses -> Seq(Lo!Times)]
         /\ older' \in SUBSET (Addresses \X Addresses)
<1>1. clock \in Lo!Times
  BY DEF Lo!TypeOK
<1>2. Append(Lo!Known(a), clock) \in Seq(Lo!Times)
  BY <1>1, DoorEntries
<1>3. Lo!PruneFailedAttempts \subseteq Addresses
  BY DEF Lo!PruneFailedAttempts
<1>4. older' \in SUBSET (Addresses \X Addresses)
  BY <1>3 DEF Lo!RecordFailedAttempt, Lo!TypeOK
<1>5. failedAttempts' \in [Addresses -> Lo!Entries]
  BY DoorEntries DEF Lo!RecordFailedAttempt
<1>6. guesses' \in [Addresses -> Seq(Lo!Times)]
  BY <1>2, DoorEntries DEF Lo!RecordFailedAttempt
<1> QED BY <1>4, <1>5, <1>6

LEMMA DoorClears ==
  ASSUME DecisionsFit, Lo!TypeOK, NEW a \in Addresses, Lo!ClearFailedAttempts(a)
  PROVE  /\ failedAttempts' \in [Addresses -> Lo!Entries] /\ guesses' \in [Addresses -> Seq(Lo!Times)]
         /\ older' \in SUBSET (Addresses \X Addresses)
BY DoorEntries DEF Lo!ClearFailedAttempts, Lo!TypeOK

LEMMA DoorTypesStep == ASSUME DecisionsFit, Lo!TypeOK, [Lo!Next]_(Lo!loginVars) PROVE Lo!TypeOK'
<1>0. MaxRestarts \in Nat /\ MaxTime \in Nat /\ clock \in 0..MaxTime /\ incarnation \in 1..(MaxRestarts + 1)
      /\ cookie \in [Addresses -> 0..incarnation] /\ 0 \in 0..incarnation /\ incarnation \in 0..incarnation
  BY DecisionsFit DEF DecisionsFit, Lo!ConstantAssumption, Lo!TypeOK, Lo!Times
<1>1. CASE UNCHANGED Lo!loginVars
  BY <1>1 DEF Lo!loginVars, Lo!TypeOK
<1>2. CASE Lo!Tick
  <2>1. clock' \in 0..MaxTime
    BY <1>0, <1>2 DEF Lo!Tick
  <2> QED BY <1>2, <2>1 DEF Lo!Tick, Lo!TypeOK, Lo!Times
<1>3. CASE Lo!Restarts
  <2>1. incarnation' \in 1..(MaxRestarts + 1) /\ 0..incarnation \subseteq 0..incarnation'
    BY <1>0, <1>3 DEF Lo!Restarts
  <2>2. cookie' \in [Addresses -> 0..incarnation']
    BY <1>0, <1>3, <2>1 DEF Lo!Restarts
  <2>3. failedAttempts' \in [Addresses -> Lo!Entries]
    BY <1>3, DoorEntries DEF Lo!Restarts
  <2>4. guesses' \in [Addresses -> Seq(Lo!Times)] /\ older' \in SUBSET (Addresses \X Addresses)
    BY <1>3 DEF Lo!Restarts
  <2> QED BY <1>3, <2>1, <2>2, <2>3, <2>4 DEF Lo!Restarts, Lo!TypeOK
<1>4. ASSUME NEW a \in Addresses, Lo!CookieExpires(a) PROVE Lo!TypeOK'
  BY <1>0, <1>4 DEF Lo!CookieExpires, Lo!TypeOK
<1>5. ASSUME NEW a \in Addresses, NEW means \in Lo!Means, Lo!HandleAdminRequest(a, means)
      PROVE  Lo!TypeOK'
  <2>1. CASE Lo!SendRateLimited(a)
    BY <2>1 DEF Lo!SendRateLimited, Lo!loginVars, Lo!TypeOK
  <2>2. CASE Lo!SendUnauthorized(a, means)
    <3>1. strangers' \in SUBSET Addresses
      BY <2>2 DEF Lo!SendUnauthorized, Lo!TypeOK
    <3> QED BY <2>2, <3>1, DoorRecords DEF Lo!SendUnauthorized, Lo!TypeOK
  <2>3. ASSUME NEW wish \in Lo!Wishes, NEW echoes \in BOOLEAN, Lo!SendCsrfFailure(a, means, wish, echoes)
        PROVE  Lo!TypeOK'
    BY <2>3, DoorClears DEF Lo!SendCsrfFailure, Lo!TypeOK
  <2>4. ASSUME NEW wish \in Lo!Wishes, NEW echoes \in BOOLEAN, Lo!Routed(a, means, wish, echoes)
        PROVE  Lo!TypeOK'
    <3>1. strangers' \in SUBSET Addresses
      BY <2>4 DEF Lo!Routed, Lo!TypeOK
    <3>2. cookie' \in [Addresses -> 0..incarnation]
      BY <1>0, <2>4 DEF Lo!Routed
    <3> QED BY <2>4, <3>1, <3>2, DoorClears DEF Lo!Routed, Lo!TypeOK
  <2> QED BY <1>5, <2>1, <2>2, <2>3, <2>4 DEF Lo!HandleAdminRequest
<1> QED BY <1>1, <1>2, <1>3, <1>4, <1>5 DEF Lo!Next
=============================================================================
