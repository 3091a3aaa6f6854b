----------------------------- MODULE MCServices -----------------------------
EXTENDS Services, TLC

\* What the user says to whom, and what is known of the user before.
Says(texts, isKnown, isCached, maxFaults) ==
  [says |-> texts, consent |-> "granted", wizard |-> "none", greeted |-> TRUE,
   known |-> isKnown, cached |-> isCached, faults |-> maxFaults]

MCSayings ==
  { Says(<<"depth", "domain">>, TRUE, TRUE, 1),
    Says(<<"depth", "domain", "depth">>, TRUE, FALSE, 0),
    Says(<<"depth", "domain">>, FALSE, FALSE, 0),
    Says(<<"text", "text">>, FALSE, FALSE, 1),
    Says(<<"text", "text", "text">>, FALSE, FALSE, 0),
    Says(<<"text", "forget">>, TRUE, TRUE, 0),
    [Says(<<"text", "text">>, FALSE, FALSE, 1) EXCEPT !.greeted = FALSE],
    [Says(<<"text", "1", "short">>, FALSE, FALSE, 0) EXCEPT !.wizard = "name"],
    [Says(<<"1", "short">>, FALSE, FALSE, 1) EXCEPT !.wizard = "use"],
    [Says(<<"no", "yes">>, TRUE, FALSE, 0) EXCEPT !.consent = "none"] }

\* Lives of the host: shutdowns that overlap while adapters start, crashes in a row, and
\* settings changed before a restart.
MCLives ==
  { [cloud |-> TRUE, adapters |-> {"whatsapp", "telegram"}, changes |-> 0, signals |-> 2,
     starts |-> 1],
    [cloud |-> FALSE, adapters |-> {"telegram"}, changes |-> 0, signals |-> 1,
     starts |-> 4],
    [cloud |-> TRUE, adapters |-> {}, changes |-> 4, signals |-> 0, starts |-> 2] }

\* A call that waits while another restarts the container, and one that is refused.
MCCallScripts == {("a" :> "restart") @@ ("b" :> "open"), ("a" :> "change") @@ ("b" :> "refused")}

\* The user sends the draft back under a name that ends with the draft's.
MCLonger == {<<"p", "d">>}

\* What is sent in and asked for: files with faults, links, orders that cross them.
Sends(names, howOften, wishes, most, maxFaults) ==
  [sent |-> names, pastes |-> howOften, asks |-> wishes, orders |-> most, faults |-> maxFaults]

MCPlans ==
  { Sends({"p"}, 0, {"search", "forget"}, 0, 1),
    Sends({"c"}, 0, {"search"}, 0, 1),
    Sends({"l"}, 1, {"search", "forget"}, 0, 1),
    Sends({"l"}, 2, {"unlink"}, 1, 0),
    Sends({"l"}, 1, {"unlink", "links"}, 2, 0),
    Sends({"p", "l"}, 1, {}, 0, 0),
    Sends({"p"}, 0, {"draft", "delete"}, 2, 0),
    Sends({"p"}, 0, {"list"}, 1, 0) }
=============================================================================
