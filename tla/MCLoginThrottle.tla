-------------------------- MODULE MCLoginThrottle --------------------------
EXTENDS LoginThrottle

MCIdentities == {"ann", "bob"}
MCSessions == {"s1", "s2"}
MCCredentials == {"right", "wrong"}
MCRequests == {1, 2}

File(form) == [form |-> form, credential |-> IF form = "absent" THEN Nobody ELSE "right"]
Files(ann, bob) == [i \in MCIdentities |-> IF i = "ann" THEN File(ann) ELSE File(bob)]
Made(op, ss, is, cs) == [op: {op}, session: ss, identity: is, credential: cs]

MCThrottleCases ==
  { \* one account is guessed at, and the clock steps back
    [accounts |-> Files("argon2", "absent"), calls |-> 5, may |-> {"step"},
     requests |-> Made("login", {"s1"}, {"ann"}, {"wrong"})],
    \* guesses and successes, with a file that cannot be stored, and restarts
    [accounts |-> Files("legacy", "absent"), calls |-> 4, may |-> {"fail", "restart"},
     requests |-> Made("login", {"s1"}, {"ann"}, MCCredentials)],
    \* the registry is full
    [accounts |-> Files("argon2", "absent"), calls |-> 4, may |-> {},
     requests |-> Made("login", {"s1"}, MCIdentities, {"wrong"})],
    \* two sign-ups of one account, and sign-ins
    [accounts |-> Files("absent", "absent"), calls |-> 3, may |-> {"fail"},
     requests |-> Made("sign", MCSessions, {"ann"}, MCCredentials)
                    \cup Made("login", {"s1"}, {"ann"}, {"right"})],
    \* a session creates accounts, and signs in and fails to
    [accounts |-> Files("absent", "absent"), calls |-> 4, may |-> {},
     requests |-> Made("sign", {"s1"}, MCIdentities, {"right"})
                    \cup Made("login", {"s1"}, {"ann"}, MCCredentials)] }
=============================================================================
