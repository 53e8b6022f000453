---------------------------- MODULE MCCardProfiles ----------------------------
EXTENDS CardProfiles

CONSTANTS hifi, off

MCProfiles == {hifi, off}

\* One profile has a node, the other exposes none.
MCNodeCount == [p \in MCProfiles |-> IF p = hifi THEN 1 ELSE 0]

\* Cards that come back without a request, while others keep disturbing them;
\* a request for a card that may come back meanwhile; one for two cards; the
\* same when the second refuses other profiles, or all, and others interfere.
MCStarts ==
  [profile : {<<hifi, None>>}, refuses : {<<"nothing", "nothing">>},
   intent : {<<off, off>>}, commands : {0}, disturbances : {3}]
  \cup
  [profile : {<<hifi, None>>}, refuses : {<<"nothing", "nothing">>},
   intent : {<<None, off>>}, commands : {1}, disturbances : {1}]
  \cup
  [profile : {<<hifi, off>>}, refuses : {<<"nothing", "nothing">>},
   intent : {<<None, None>>}, commands : {1}, disturbances : {0}]
  \cup
  [profile : {<<hifi, off>>},
   refuses : {<<"nothing", "others">>, <<"nothing", "all">>},
   intent : {<<None, None>>}, commands : {1}, disturbances : {1}]

\* A card comes back while a request arrives.
MCReturns ==
  [profile : {<<hifi, None>>}, refuses : {<<"nothing", "nothing">>},
   intent : {<<None, off>>}, commands : {1}, disturbances : {1}]

=============================================================================
