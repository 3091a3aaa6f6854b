----------------------------- MODULE Accounts ------------------------------
(***************************************************************************)
(* The accounts a user connects with Google and Microsoft, and the briefing    *)
(* of every morning made from them.  /connect gives a link that names its user; *)
(* the link leads to the provider, and from there back to the host, which      *)
(* stores the tokens in Redis.  /disconnect deletes them.  The briefing lists   *)
(* the keys of all tokens, takes the user out of each key, refreshes the tokens *)
(* and stores them again under that user.                                   *)
(*                                                                         *)
(* A key is split at its colons.  Users the router knows are named wa:.. or      *)
(* tg:.. , and of such a name the split finds the tag only.  What the providers  *)
(* hold, and the copy of the tokens in DynamoDB, which nobody reads and         *)
(* /disconnect does not delete, are left out.                               *)
(***************************************************************************)
EXTENDS Naturals, Sequences, FiniteSets, SequencesExt

CONSTANTS
  Bare,      \* users with a name of one part
  Tagged,    \* users with a tag before their name
  Tag,       \* that tag
  NoBody,    \* the address that a tag makes
  MaxLinks,  \* bound: links asked for
  MaxDays,   \* bound: mornings
  MaxFaults  \* bound: failures and crashes

Users == Bare \cup Tagged
Services == {"google", "microsoft"}
Links == 1..MaxLinks

ConstantAssumption ==
  /\ IsFiniteSet(Users)
  /\ Bare \cap Tagged = {} /\ {Tag, NoBody} \cap Users = {} /\ Tag # NoBody
  /\ {MaxLinks, MaxDays, MaxFaults} \subseteq Nat

VARIABLES
  links,   \* the links, with how far each has got
  tokens,  \* oauth:tokens:<name>:<service>: the link whose tokens they are, or 0
  meant,   \* history: what the user was last told is connected
  unsure,  \* history: the users and services told so while something overlapped
  roster,  \* whom the briefing still has to write to; the first is being worked on
  day,     \* mornings so far
  twice,   \* history: mornings on which the timer fired twice
  mail,    \* history: briefings sent
  faults

vars == <<links, tokens, meant, unsure, roster, day, twice, mail, faults>>

None == 0
Names == Users \cup {Tag}
Grants == [Services -> {None} \cup Links]

TypeOK ==
  /\ links \in Seq([user : Users, service : Services, at : {"open", "read", "granted", "over"}])
  /\ Len(links) <= MaxLinks
  /\ tokens \in [Names -> Grants] /\ meant \in [Users -> Grants]
  /\ unsure \in SUBSET (Users \X Services)
  /\ roster \in Seq([name : Names, grants : Grants, left : SUBSET Services])
  /\ day \in 0..MaxDays /\ twice \in SUBSET (1..MaxDays)
  /\ mail \in Seq([to : Users \cup {NoBody}, grants : Grants, day : 1..MaxDays])
  /\ faults \in 0..MaxFaults

Init ==
  /\ links = <<>> /\ roster = <<>> /\ mail = <<>>
  /\ tokens = [n \in Names |-> [s \in Services |-> None]]
  /\ meant = [u \in Users |-> [s \in Services |-> None]]
  /\ unsure = {} /\ day = 0 /\ twice = {} /\ faults = 0

Fault == faults < MaxFaults /\ faults' = faults + 1

(***************************************************************************)
(* Links.                                                                  *)
(***************************************************************************)
\* handle_connect: oauth:state:<state>, EX 600.
Connect(u, s) ==
  /\ Len(links) < MaxLinks
  /\ links' = Append(links, [user |-> u, service |-> s, at |-> "open"])
  /\ UNCHANGED <<tokens, meant, unsure, roster, day, twice, mail, faults>>

\* The ten minutes pass, or the user says no.
Expire(i) ==
  /\ links[i].at = "open" /\ links' = [links EXCEPT ![i].at = "over"]
  /\ UNCHANGED <<tokens, meant, unsure, roster, day, twice, mail, faults>>

\* The provider sends the user back: the state of the link is read, then deleted.
Callback(i) ==
  /\ links[i].at = "open" /\ links' = [links EXCEPT ![i].at = "read"]
  /\ UNCHANGED <<tokens, meant, unsure, roster, day, twice, mail, faults>>

\* The code is exchanged for tokens; if that fails the link is used up.
Exchange(i) ==
  /\ links[i].at = "read"
  /\ \/ links' = [links EXCEPT ![i].at = "granted"] /\ UNCHANGED faults
     \/ links' = [links EXCEPT ![i].at = "over"] /\ Fault
  /\ UNCHANGED <<tokens, meant, unsure, roster, day, twice, mail>>

\* The briefing has yet to write back tokens of this user and service, or a link of
\* theirs other than this one is on its way to be stored.
Overlapped(u, s, i) ==
  \/ \E k \in DOMAIN roster : roster[k].name = u /\ s \in roster[k].left
  \/ \E j \in DOMAIN links \ {i} :
       links[j].user = u /\ links[j].service = s /\ links[j].at \in {"read", "granted"}

\* The user is told what holds from now on.
Tell(u, s, grant, overlapped) ==
  /\ meant' = [meant EXCEPT ![u][s] = grant]
  /\ unsure' = IF overlapped THEN unsure \cup {<<u, s>>} ELSE unsure \ {<<u, s>>}

\* storeTokens, and the page and the note that say so.  They do also when the host, about
\* to stop, has no Redis any more and stores nothing; and the page says that something
\* went wrong when the tokens are stored but the copy cannot be queued.
Store(i) ==
  LET l == links[i]
  IN  /\ l.at = "granted" /\ links' = [links EXCEPT ![i].at = "over"]
      /\ \/ /\ tokens' = [tokens EXCEPT ![l.user][l.service] = i]
            /\ Tell(l.user, l.service, i, Overlapped(l.user, l.service, i))
            /\ UNCHANGED faults
         \/ /\ Fault /\ UNCHANGED tokens
            /\ Tell(l.user, l.service, i, TRUE)
         \/ /\ Fault /\ tokens' = [tokens EXCEPT ![l.user][l.service] = i]
            /\ unsure' = unsure \cup {<<l.user, l.service>>} /\ UNCHANGED meant
      /\ UNCHANGED <<roster, day, twice, mail>>

\* Mutant: the key is not deleted.
Forgotten(u, s) == tokens

\* The tokens once the key is deleted.
Without(u, s) == [tokens EXCEPT ![u][s] = None]

\* handle_disconnect (of what was never asked for it changes nothing).  The request
\* that follows is unknown to the gateway; if it cannot be queued the user is told
\* that it failed.
Disconnect(u, s) ==
  /\ \E i \in DOMAIN links : links[i].user = u /\ links[i].service = s
  /\ tokens' = Without(u, s)
  /\ \/ Tell(u, s, None, Overlapped(u, s, None)) /\ UNCHANGED faults
     \/ Fault /\ unsure' = unsure \cup {<<u, s>>} /\ UNCHANGED meant
  /\ UNCHANGED <<links, roster, day, twice, mail>>

(***************************************************************************)
(* The briefing.                                                           *)
(***************************************************************************)
\* The third part of a key.
NamedBy(n) == IF n \in Tagged THEN Tag ELSE n

\* Whom a briefing to this name reaches.
Address(n) == IF n = Tag THEN NoBody ELSE n

Connected == {n \in Names : \E s \in Services : tokens[n][s] # None}

\* What the keys of one name may yield: of several keys for a service the last counts,
\* in whatever order Redis lists them.
Found(name, s) ==
  LET known == {tokens[n][s] : n \in {m \in Connected : NamedBy(m) = name}} \ {None}
  IN  IF known = {} THEN {None} ELSE known

Entry(name, grants) ==
  [name |-> name, grants |-> grants, left |-> {s \in Services : grants[s] # None}]

\* runBriefing up to the first user: all keys are listed and read.
Gather ==
  \E names \in SetToSeqs({NamedBy(n) : n \in Connected}) :
    \E grants \in [DOMAIN names -> Grants] :
      /\ \A k \in DOMAIN names : \A s \in Services : grants[k][s] \in Found(names[k], s)
      /\ roster' = [k \in DOMAIN names |-> Entry(names[k], grants[k])]

Morning ==
  /\ roster = <<>> /\ day < MaxDays /\ day' = day + 1
  /\ Gather
  /\ UNCHANGED <<links, tokens, meant, unsure, twice, mail, faults>>

\* The timer counts a day of its own, and may fire before the clock says 23:00 UTC; the
\* next is then for this very morning (and would overlap this one).
MorningAgain ==
  /\ roster = <<>> /\ day > 0 /\ Fault
  /\ twice' = twice \cup {day}
  /\ Gather
  /\ UNCHANGED <<links, tokens, meant, unsure, day, mail>>

\* Google is gone through before Microsoft.
First(left) == IF "google" \in left THEN "google" ELSE "microsoft"

\* One provider: refreshed tokens are stored, as they were read, unless that fails.
WriteBack ==
  /\ roster # <<>> /\ Head(roster).left # {}
  /\ roster' = [roster EXCEPT ![1].left = @ \ {First(@)}]
  /\ LET r == Head(roster)  s == First(r.left)
     IN  \/ tokens' = [tokens EXCEPT ![r.name][s] = r.grants[s]] /\ UNCHANGED faults
         \/ Fault /\ UNCHANGED tokens
  /\ UNCHANGED <<links, meant, unsure, day, twice, mail>>

Letter == [to |-> Address(Head(roster).name), grants |-> Head(roster).grants, day |-> day]

\* Mutant: the briefing is sent for each provider.
SendEach ==
  /\ roster # <<>>
  /\ LET r == Head(roster)
     IN  roster' = IF r.left = {} THEN Tail(roster) ELSE [roster EXCEPT ![1].left = @ \ {First(@)}]
  /\ mail' = Append(mail, Letter)
  /\ UNCHANGED <<links, tokens, meant, unsure, day, twice, faults>>

SendBriefing ==
  /\ roster # <<>> /\ Head(roster).left = {}
  /\ roster' = Tail(roster)
  /\ \/ mail' = Append(mail, Letter) /\ UNCHANGED faults
     \/ Fault /\ UNCHANGED mail
  /\ UNCHANGED <<links, tokens, meant, unsure, day, twice>>

\* The host stops: what it was at is lost, the timer is set anew.
Stop ==
  /\ Fault /\ roster' = <<>>
  /\ links' = [i \in DOMAIN links |->
                 IF links[i].at \in {"read", "granted"} THEN [links[i] EXCEPT !.at = "over"]
                 ELSE links[i]]
  /\ UNCHANGED <<tokens, meant, unsure, day, twice, mail>>

Next ==
  \/ \E u \in Users, s \in Services : Connect(u, s) \/ Disconnect(u, s)
  \/ \E i \in DOMAIN links : Expire(i) \/ Callback(i) \/ Exchange(i) \/ Store(i)
  \/ Morning \/ MorningAgain \/ WriteBack \/ SendBriefing \/ Stop

Spec == Init /\ [][Next]_vars

(***************************************************************************)
(* Properties.                                                             *)
(***************************************************************************)
\* A user's key holds what the user was last told is connected, be it nothing, unless
\* the briefing or another link overlapped the telling, or it was told amiss.  No key
\* holds tokens of another user, but for the one a tag makes.
TokensAsTold ==
  \A u \in Users, s \in Services :
    /\ <<u, s>> \notin unsure => tokens[u][s] = meant[u][s]
    /\ tokens[u][s] # None => links[tokens[u][s]].user = u

\* A briefing that reaches somebody is drawn from that user's accounts, and one comes
\* each morning, or two when the timer fired twice.
BriefedOnce ==
  /\ \A k \in DOMAIN mail : \A s \in Services :
       mail[k].to # NoBody /\ mail[k].grants[s] # None => links[mail[k].grants[s]].user = mail[k].to
  /\ \A k, m \in DOMAIN mail :
       (k # m /\ mail[k].to = mail[m].to /\ mail[k].day = mail[m].day) =>
         mail[k].day \in twice
=============================================================================
