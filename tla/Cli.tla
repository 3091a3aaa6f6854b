-------------------------------- MODULE Cli --------------------------------
(***************************************************************************)
(* ncl inside a container: a call is a row of messages_out, the delivery     *)
(* loop dispatches it, and the response is a row of messages_in the call     *)
(* polls for.  A command with access 'approval' is put before an             *)
(* administrator instead, and runs as the host's own when approved.          *)
(*                                                                         *)
(* The rows the poll loop and the MCP tools put between those of the calls   *)
(* are left out, as is the host's own use of ncl, which nothing waits for.    *)
(* Which commands a scope refuses is data.                                    *)
(***************************************************************************)
EXTENDS Naturals, FiniteSets

CONSTANTS
  Calls,       \* runs of ncl
  Scripts,     \* what the calls may be for: [Calls -> command]
  MaxAttempts, \* MAX_DELIVERY_ATTEMPTS
  MaxDeaths    \* bound: restarts of the host

\* "refused" is unknown, out of the agent's scope or has bad arguments; the risky
\* ones have access 'approval'.
Risky == {"change", "restart"}
Commands == {"open", "refused"} \cup Risky

ConstantAssumption ==
  /\ IsFiniteSet(Calls) /\ Scripts # {} /\ Scripts \subseteq [Calls -> Commands]
  /\ MaxAttempts \in Nat \ {0} /\ MaxDeaths \in Nat

VARIABLES
  command,  \* what each call is for
  ncl,      \* the process: "no", "polling", "answered", "late", "killed"
  number,   \* seq in messages_out, 0 before the row is written
  snapshot, \* the rows of calls this drain has still to handle
  handling, \* the call it handles: "card" while its card is awaited, "answer", "mark"
  outcome,  \* delivered table
  attempts, \* deliveryAttempts
  response, \* cli-resp row in messages_in
  cards,    \* cards with their buttons, and a pending row
  asked,    \* history: cards sent
  refused,  \* history: calls whose agent was told that asking failed
  ran,      \* history: times the command was run after an approval
  deaths

rows == <<command, number>>
drain == <<snapshot, handling, attempts>>
vars == <<rows, ncl, drain, outcome, response, cards, asked, refused, ran, deaths>>

TypeOK ==
  /\ command \in Scripts
  /\ ncl \in [Calls -> {"no", "polling", "answered", "late", "killed"}]
  /\ number \in [Calls -> 0..Cardinality(Calls)]
  /\ snapshot \in SUBSET Calls
  /\ handling \in SUBSET [call : Calls, at : {"card", "answer", "mark"}]
  /\ Cardinality(handling) <= 1
  /\ outcome \in [Calls -> {"none", "delivered", "failed"}] /\ attempts \in [Calls -> Nat]
  /\ response \in [Calls -> {"none", "data", "error", "approval-pending"}]
  /\ cards \in [Calls -> Nat] /\ asked \in [Calls -> Nat] /\ refused \in SUBSET Calls
  /\ ran \in [Calls -> Nat] /\ deaths \in 0..MaxDeaths

Init ==
  /\ command \in Scripts /\ ncl = [c \in Calls |-> "no"]
  /\ number = [c \in Calls |-> 0]
  /\ snapshot = {} /\ handling = {}
  /\ outcome = [c \in Calls |-> "none"] /\ attempts = [c \in Calls |-> 0]
  /\ response = [c \in Calls |-> "none"]
  /\ cards = [c \in Calls |-> 0] /\ asked = [c \in Calls |-> 0] /\ refused = {}
  /\ ran = [c \in Calls |-> 0] /\ deaths = 0

(***************************************************************************)
(* The container.                                                          *)
(***************************************************************************)
\* writeRequest takes the next number under BEGIN IMMEDIATE; the polling begins.
WriteRequest(c) ==
  /\ ncl[c] = "no"
  /\ number' = [number EXCEPT ![c] = 1 + Cardinality({d \in Calls : number[d] # 0})]
  /\ ncl' = [ncl EXCEPT ![c] = "polling"]
  /\ UNCHANGED <<command, drain, outcome, response, cards, asked, refused, ran, deaths>>

\* pollResponse finds the row, acks it and prints it.
TakeResponse(c) ==
  /\ ncl[c] = "polling" /\ response[c] # "none"
  /\ ncl' = [ncl EXCEPT ![c] = "answered"]
  /\ UNCHANGED <<rows, drain, outcome, response, cards, asked, refused, ran, deaths>>

\* 30 s: "command timed out".  The row of a later response stays pending.
TimesOut(c) ==
  /\ ncl[c] = "polling"
  /\ ncl' = [ncl EXCEPT ![c] = "late"]
  /\ UNCHANGED <<rows, drain, outcome, response, cards, asked, refused, ran, deaths>>

(***************************************************************************)
(* The host: the drain dispatches.                                         *)
(***************************************************************************)
\* Mutant: rows that were delivered are drained once more.
DrainAll ==
  /\ snapshot = {} /\ handling = {}
  /\ snapshot' = {c \in Calls : number[c] # 0 /\ outcome[c] # "failed"}
  /\ snapshot' # {}
  /\ UNCHANGED <<rows, ncl, handling, outcome, attempts, response, cards, asked, refused, ran,
                 deaths>>

\* What is undelivered, once the drain before is through.
Drain ==
  /\ snapshot = {} /\ handling = {}
  /\ snapshot' = {c \in Calls : number[c] # 0 /\ outcome[c] = "none"}
  /\ snapshot' # {}
  /\ UNCHANGED <<rows, ncl, handling, outcome, attempts, response, cards, asked, refused, ran,
                 deaths>>

First == CHOOSE c \in snapshot : \A d \in snapshot : number[c] <= number[d]

\* dispatch: a command is refused, run, or put before an approver.
Dispatch ==
  /\ handling = {} /\ snapshot # {}
  /\ snapshot' = snapshot \ {First}
  /\ handling' = {[call |-> First, at |-> IF command[First] \in Risky THEN "card" ELSE "answer"]}
  /\ UNCHANGED <<rows, ncl, outcome, attempts, response, cards, asked, refused, ran, deaths>>

Handled == CHOOSE h \in handling : TRUE
At(stage) == handling # {} /\ Handled.at = stage
Goes(stage) == handling' = {[Handled EXCEPT !.at = stage]}

\* Mutant: the handler returns once the card is out, without a response.
RequestApprovalSilent ==
  /\ At("card") /\ Goes("mark")
  /\ cards' = [cards EXCEPT ![Handled.call] = @ + 1]
  /\ asked' = [asked EXCEPT ![Handled.call] = @ + 1]
  /\ UNCHANGED <<refused, rows, ncl, snapshot, attempts, outcome, response, ran, deaths>>

\* requestApproval comes back, with a card, without an approver, or after an error
\* that left the card on the screen; the caller does not learn which.
RequestApproval ==
  /\ At("card") /\ Goes("answer")
  /\ \/ /\ cards' = [cards EXCEPT ![Handled.call] = @ + 1]
        /\ asked' = [asked EXCEPT ![Handled.call] = @ + 1]
        /\ refused' \in {refused, refused \cup {Handled.call}}
     \/ refused' = refused \cup {Handled.call} /\ UNCHANGED <<cards, asked>>
  /\ UNCHANGED <<rows, ncl, snapshot, attempts, outcome, response, ran, deaths>>

Frame(c) == CASE command[c] = "open" -> "data"
              [] command[c] = "refused" -> "error"
              [] OTHER -> "approval-pending"

\* The response is inserted under an id made from the request's: a call that is
\* dispatched again after it was answered throws here, with its card sent.
Respond ==
  LET c == Handled.call
  IN  /\ At("answer")
      /\ IF response[c] = "none"
           THEN /\ response' = [response EXCEPT ![c] = Frame(c)] /\ Goes("mark")
                /\ UNCHANGED <<attempts, outcome>>
           ELSE /\ handling' = {} /\ UNCHANGED response
                /\ IF attempts[c] + 1 >= MaxAttempts
                     THEN /\ outcome' = [outcome EXCEPT ![c] = "failed"]
                          /\ attempts' = [attempts EXCEPT ![c] = 0]
                     ELSE /\ attempts' = [attempts EXCEPT ![c] = @ + 1]
                          /\ UNCHANGED outcome
      /\ UNCHANGED <<rows, ncl, snapshot, cards, asked, refused, ran, deaths>>

\* markDelivered.
MarkDelivered ==
  /\ At("mark") /\ handling' = {}
  /\ outcome' = [outcome EXCEPT ![Handled.call] = "delivered"]
  /\ attempts' = [attempts EXCEPT ![Handled.call] = 0]
  /\ UNCHANGED <<rows, ncl, snapshot, response, cards, asked, refused, ran, deaths>>

(***************************************************************************)
(* The administrator.                                                      *)
(***************************************************************************)
\* restartAgentGroupContainers: what runs in the container dies with it.
KillContainer ==
  ncl' = [c \in Calls |-> IF ncl[c] = "polling" THEN "killed" ELSE ncl[c]]

\* The handler of cli_command: the frame is dispatched once more, for the host,
\* which is neither scoped nor asked; then the agent is told.
Approve(c) ==
  /\ cards[c] > 0
  /\ cards' = [cards EXCEPT ![c] = @ - 1]
  /\ ran' = [ran EXCEPT ![c] = @ + 1]
  /\ IF command[c] = "restart" THEN KillContainer ELSE UNCHANGED ncl
  /\ UNCHANGED <<rows, drain, outcome, response, asked, refused, deaths>>

Reject(c) ==
  /\ cards[c] > 0
  /\ cards' = [cards EXCEPT ![c] = @ - 1]
  /\ UNCHANGED <<rows, ncl, drain, outcome, response, asked, refused, ran, deaths>>

\* The attempts are in memory, the responses, outcomes and cards are not.
HostDies ==
  /\ deaths < MaxDeaths /\ deaths' = deaths + 1
  /\ snapshot' = {} /\ handling' = {} /\ attempts' = [c \in Calls |-> 0]
  /\ UNCHANGED <<rows, ncl, outcome, response, cards, asked, refused, ran>>

Next ==
  \/ \E c \in Calls : WriteRequest(c) \/ TakeResponse(c) \/ TimesOut(c) \/ Approve(c) \/ Reject(c)
  \/ Drain \/ Dispatch \/ RequestApproval \/ Respond \/ MarkDelivered
  \/ HostDies

Spec == Init /\ [][Next]_vars
-----------------------------------------------------------------------------
\* A call is put before the administrator once; each death of the host costs at
\* most as many further cards as a row has attempts, and the command runs at most
\* once for each (dispatch.ts, delivery-action.ts, delivery.ts drainSession).
AskedOnce ==
  \A c \in Calls : asked[c] <= 1 + MaxAttempts * deaths /\ ran[c] + cards[c] <= asked[c]

\* A row is given up only behind a death of the host, and whatever becomes of it,
\* its call has been answered; it is told of a pending approval only when one was
\* asked for or the agent told that none could be (delivery-action.ts).
AnsweredWhenDone ==
  \A c \in Calls :
    /\ outcome[c] # "none" => response[c] # "none"
    /\ outcome[c] = "failed" => deaths > 0
    /\ response[c] = "approval-pending" => asked[c] > 0 \/ c \in refused
=============================================================================
