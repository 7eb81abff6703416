----------------------------- MODULE MCMailSync -----------------------------
EXTENDS MailSync

MCAccounts == {"home", "work"}
MCBoxes == {1, 2}
MCSlots == {1, 2}

Selected(allow) ==
  [account |-> "home", extra |-> TRUE, allow |-> allow, black |-> {}]
Unread(uids) ==
  [b \in MCBoxes |-> IF b = 1 THEN [validity |-> 1, last |-> 2, unread |-> uids]
                     ELSE [validity |-> 1, last |-> 0, unread |-> {}]]
Quiet ==
  [saved |-> Selected({1}), changes |-> 3, calls |-> 2, refuses |-> FALSE, fails |-> FALSE,
   edits |-> FALSE, suspends |-> FALSE, arms |-> FALSE, heavy |-> {},
   start |-> Unread({1, 2})]

MCCases ==
  { \* one call at a time, and everything may happen to it
    [Quiet EXCEPT !.changes = 5, !.calls = 1, !.fails = TRUE],
    \* overlapping calls
    [Quiet EXCEPT !.fails = TRUE, !.start = Unread({2})],
    \* a rotation of the password suspends the network meanwhile
    [Quiet EXCEPT !.changes = 4, !.calls = 1, !.suspends = TRUE, !.fails = TRUE],
    \* rows armed for the second click, while marks fail
    [Quiet EXCEPT !.changes = 4, !.calls = 1, !.arms = TRUE, !.fails = TRUE, !.start = Unread({1})],
    \* two boxes share the budget, and one may be refused
    [Quiet EXCEPT !.saved = Selected({1, 2}), !.refuses = TRUE, !.calls = 1],
    \* a message whose header is too long for the proxy
    [Quiet EXCEPT !.calls = 1, !.heavy = {2}],
    \* the configuration is edited: a new one, one of an older version, and one
    \* with a selection
    [Quiet EXCEPT !.edits = TRUE, !.calls = 1, !.saved = [Selected(NoMail) EXCEPT !.extra = FALSE]],
    [Quiet EXCEPT !.edits = TRUE, !.calls = 1, !.saved = [Selected(NoMail) EXCEPT !.black = {2}]],
    [Quiet EXCEPT !.edits = TRUE, !.changes = 2, !.start = Unread({2})] }
=============================================================================
