------------------------- MODULE ModuleSync_proofs -------------------------
(***************************************************************************)
(* Proofs about ModuleSync, for any browsers, accounts, documents, calls   *)
(* on their way and bounds.                                                *)
(***************************************************************************)
EXTENDS ModuleSync, TLAPS

-----------------------------------------------------------------------------
(* The inductive invariant. *)

\* What is shown, sent, answered or stored was written under its owner, and
\* not later than now.
Written(table, owner, now) ==
  \A i \in DOMAIN table : table[i].owner = owner /\ table[i].at <= now

\* A holder of a browser where `owner` holds the key: closed it has nothing,
\* open it has the documents of the owner, and its crons follow its network.
HolderOK(h, owner, now) ==
  /\ IsHolder(h)
  /\ h.epoch <= h.opened
  /\ h.epoch = 0 => h.blocks = Nothing /\ h.crons = Nothing
  /\ h.epoch # 0 => h.links \in Links /\ h.links.doc.owner = owner /\ h.links.doc.at <= now
  /\ \A i \in DOMAIN h.blocks : h.blocks[i].doc.owner = owner /\ h.blocks[i].doc.at <= now
  /\ \A i \in DOMAIN h.crons : i \in DOMAIN h.blocks /\ h.crons[i] = ~h.suspended

\* A call of a browser where `owner` holds the key and whose cookie is signed
\* in to `account`: it was sent under both, unless its session is gone.
CallOK(c, owner, account, now) ==
  /\ IsCall(c)
  /\ c.epoch # 0
  /\ account # None => c.account = account
  /\ c.account # None => c.account = owner
  /\ c.step = "auth" => account = None
  /\ Written(c.sent, owner, now) /\ Written(c.answer, owner, now)

Holders == DOMAIN holder = Browsers /\ \A b \in Browsers : HolderOK(holder[b], user[b], time)
Calls ==
  /\ DOMAIN call = Slots
  /\ \A s \in Slots : call[s] # None =>
       CallOK(call[s], user[call[s].browser], session[call[s].browser], time)
Stores ==
  /\ DOMAIN store = Accounts
  /\ \A a \in Accounts : IsTable(store[a], Version) /\ Written(store[a], a, time)

\* The key is that of the cookie while there is one; a sign-out closes the
\* holder first; a Home has an epoch the holder has drawn.
Pages ==
  \A b \in Browsers :
    /\ session[b] # None => user[b] = session[b]
    /\ leaving[b] => holder[b].epoch = 0
    /\ home[b] <= holder[b].opened

Flags ==
  /\ bound \in Cases
  /\ session \in [Browsers -> Accounts \cup {None}]
  /\ user \in [Browsers -> Accounts \cup {None}]
  /\ home \in [Browsers -> Nat]
  /\ leaving \in [Browsers -> BOOLEAN]
  /\ rotating \in [Browsers -> BOOLEAN]
  /\ loaded \in [Browsers -> BOOLEAN]
  /\ editing \in [Browsers -> BOOLEAN]
  /\ time \in Times
  /\ suspends \in [Browsers -> Nat]

IInv == Flags /\ Holders /\ Calls /\ Stores /\ Pages /\ ShownHomeIsLive

-----------------------------------------------------------------------------
(* What the operations on a holder keep. *)

LEMMA Moments == MaxTime \in Nat /\ FirstTime \in Times /\ \A t \in Times : t \in Nat
  BY SyncAssumption DEF Times

\* The parts of a holder, of a call and of a document.
LEMMA HolderParts ==
  ASSUME NEW h, IsHolder(h)
  PROVE  /\ h.epoch \in Nat /\ h.opened \in Nat /\ h.generation \in Nat /\ h.suspended \in BOOLEAN
         /\ h.links \in Links \cup {None} /\ h.due \subseteq Times
         /\ IsTable(h.blocks, Block) /\ IsTable(h.crons, BOOLEAN)
         /\ h = [epoch |-> h.epoch, opened |-> h.opened, generation |-> h.generation,
                 suspended |-> h.suspended, links |-> h.links, blocks |-> h.blocks,
                 crons |-> h.crons, due |-> h.due]
  BY DEF IsHolder

LEMMA CallParts ==
  ASSUME NEW c, IsCall(c)
  PROVE  /\ c.browser \in Browsers /\ c.account \in Accounts \cup {None}
         /\ c.epoch \in Nat /\ c.generation \in Nat /\ c.kind \in Kinds /\ c.live \in BOOLEAN
         /\ c.step \in {"sent", "ok", "error", "auth"}
         /\ IsTable(c.sent, Version) /\ IsTable(c.answer, Version)
         /\ c = [browser |-> c.browser, account |-> c.account, epoch |-> c.epoch,
                 generation |-> c.generation, kind |-> c.kind, sent |-> c.sent,
                 answer |-> c.answer, step |-> c.step, live |-> c.live]
  BY DEF IsCall

LEMMA BlockParts ==
  ASSUME NEW k \in Block
  PROVE  /\ k.doc \in Version /\ k.doc.kind = "block" /\ k.fetched \in Times
         /\ k.dirty \in BOOLEAN /\ k.doc.at \in Nat /\ k.doc.owner \in Accounts
  BY Moments DEF Block, Version

LEMMA LinksParts ==
  ASSUME NEW l \in Links
  PROVE  /\ l.doc \in Version /\ l.doc.kind = "links" /\ l.fetched \in Times
         /\ l.id \in Times /\ l.doc.at \in Nat /\ l.doc.owner \in Accounts
  BY Moments DEF Links, Version

LEMMA NothingIsTable ==
  /\ \A S : IsTable(Nothing, S)
  /\ \A owner, now : Written(Nothing, owner, now)
  /\ DOMAIN Nothing = {}
  BY DEF IsTable, Nothing, Written

LEMMA WrittenLater ==
  ASSUME NEW table, IsTable(table, Version), NEW owner, NEW now \in Nat, NEW later \in Nat,
         now <= later, Written(table, owner, now)
  PROVE  Written(table, owner, later)
  BY Moments DEF IsTable, Written, Version

LEMMA HolderLater ==
  ASSUME NEW h, NEW owner, NEW now \in Nat, NEW later \in Nat, now <= later,
         HolderOK(h, owner, now)
  PROVE  HolderOK(h, owner, later)
<1>1. h.epoch # 0 => h.links.doc.at <= later
  BY LinksParts DEF HolderOK
<1>2. \A i \in DOMAIN h.blocks : h.blocks[i].doc.at <= later
  BY BlockParts DEF HolderOK, IsHolder, IsTable
<1> QED BY <1>1, <1>2 DEF HolderOK

LEMMA NewHolderOK ==
  /\ \A owner, now : HolderOK(NewHolder, owner, now)
  /\ NewHolder.epoch = 0 /\ NewHolder.opened = 0
<1> DEFINE h == NewHolder
<1>1. /\ h.epoch = 0 /\ h.opened = 0 /\ h.generation = 0 /\ h.suspended = FALSE
      /\ h.links = None /\ h.blocks = Nothing /\ h.crons = Nothing /\ h.due = {}
  BY DEF NewHolder
<1>2. IsHolder(h)
  BY NothingIsTable DEF IsHolder, NewHolder
<1> HIDE DEF h
<1>3. \A owner, now : HolderOK(h, owner, now)
  BY <1>1, <1>2, NothingIsTable DEF HolderOK
<1> QED BY <1>1, <1>3 DEF h

LEMMA HolderWith ==
  ASSUME NEW h, IsHolder(h), NEW opened \in Nat, NEW generation \in Nat
  PROVE  /\ IsHolder([h EXCEPT !.opened = opened, !.generation = generation])
         /\ \A links \in Links :
              IsHolder([h EXCEPT !.opened = opened, !.epoch = opened, !.links = links])
  BY HolderParts DEF IsHolder

LEMMA ClosedParts ==
  ASSUME NEW h, IsHolder(h)
  PROVE  LET g == CloseInner(h)
         IN /\ g.epoch = 0 /\ g.opened = h.opened /\ g.suspended = FALSE /\ g.links = None
            /\ g.blocks = Nothing /\ g.crons = Nothing /\ g.due = {} /\ IsHolder(g)
<1> DEFINE g == CloseInner(h)
<1>1. /\ g.epoch = 0 /\ g.opened = h.opened /\ g.generation = h.generation + 1
      /\ g.suspended = FALSE /\ g.links = None
      /\ g.blocks = Nothing /\ g.crons = Nothing /\ g.due = {}
  BY DEF CloseInner, NewHolder
<1>2. IsHolder(NewHolder)
  BY NewHolderOK DEF HolderOK
<1>3. g = [NewHolder EXCEPT !.opened = h.opened, !.generation = h.generation + 1]
  BY DEF CloseInner
<1> HIDE DEF g
<1>4. h.opened \in Nat /\ h.generation + 1 \in Nat
  BY HolderParts
<1>5. IsHolder(g)
  BY <1>2, <1>3, <1>4, HolderWith
<1> QED BY <1>1, <1>5 DEF g

LEMMA ClosedOK ==
  ASSUME NEW h, IsHolder(h), NEW owner, NEW now
  PROVE  /\ HolderOK(CloseInner(h), owner, now)
         /\ CloseInner(h).epoch = 0 /\ CloseInner(h).opened = h.opened
<1> DEFINE g == CloseInner(h)
<1>1. /\ g.epoch = 0 /\ g.opened = h.opened /\ g.blocks = Nothing /\ g.crons = Nothing
      /\ IsHolder(g) /\ h.opened \in Nat
  BY ClosedParts, HolderParts
<1> HIDE DEF g
<1>2. HolderOK(g, owner, now)
  BY <1>1, NothingIsTable DEF HolderOK
<1> QED BY <1>1, <1>2 DEF g

LEMMA CloseIfOK ==
  ASSUME NEW h, NEW owner, NEW now, NEW epoch, HolderOK(h, owner, now)
  PROVE  /\ HolderOK(CloseIf(h, epoch), owner, now)
         /\ CloseIf(h, epoch).opened = h.opened
         /\ CloseIf(h, epoch) = h \/ CloseIf(h, epoch).epoch = 0
<1>1. IsHolder(h)
  BY DEF HolderOK
<1>2. CloseIf(h, epoch) = h \/ CloseIf(h, epoch) = CloseInner(h)
  BY DEF CloseIf
<1>3. /\ HolderOK(CloseInner(h), owner, now)
      /\ CloseInner(h).epoch = 0 /\ CloseInner(h).opened = h.opened
  BY <1>1, ClosedOK
<1> QED BY <1>2, <1>3

LEMMA OpenedOK ==
  ASSUME NEW h, IsHolder(h), NEW owner \in Accounts, NEW now \in Times
  PROVE  /\ HolderOK(OpenInner(h, owner, now), owner, now)
         /\ OpenInner(h, owner, now).epoch = h.opened + 1
         /\ OpenInner(h, owner, now).opened = h.opened + 1
<1> DEFINE doc == [at |-> now, owner |-> owner, kind |-> "links"]
           links == [id |-> now, doc |-> doc, fetched |-> now]
           closed == CloseInner(h)
           open == OpenInner(h, owner, now)
<1>1. links \in Links /\ links.doc.owner = owner /\ links.doc.at = now
  BY DEF Links, Version
<1>2. open = [closed EXCEPT !.opened = h.opened + 1, !.epoch = h.opened + 1, !.links = links]
  BY DEF OpenInner
<1>3. /\ IsHolder(closed) /\ closed.suspended = FALSE /\ closed.blocks = Nothing
      /\ closed.crons = Nothing
  BY ClosedParts
<1> HIDE DEF links, open, closed
<1>4. /\ open.epoch = h.opened + 1 /\ open.opened = h.opened + 1 /\ open.links = links
      /\ open.blocks = closed.blocks /\ open.crons = closed.crons
  BY <1>2, <1>3 DEF IsHolder
<1>5. IsHolder(open)
  <2>1. h.opened + 1 \in Nat
    BY HolderParts
  <2> QED BY <1>1, <1>2, <1>3, <2>1, HolderWith
<1>6. HolderOK(open, owner, now)
  BY <1>1, <1>3, <1>4, <1>5, HolderParts, NothingIsTable, Moments DEF HolderOK
<1> QED BY <1>4, <1>6 DEF open

\* Same(h, g): the holder shows the same under the same epoch.
Same(h, g) ==
  g.epoch = h.epoch /\ g.opened = h.opened /\ g.links = h.links /\ g.blocks = h.blocks

LEMMA SuspendedOK ==
  ASSUME NEW h, NEW owner, NEW now, HolderOK(h, owner, now)
  PROVE  /\ HolderOK(SuspendInner(h), owner, now) /\ Same(h, SuspendInner(h))
         /\ HolderOK(ResumeInner(h), owner, now) /\ Same(h, ResumeInner(h))
<1>1. IsHolder(h)
  BY DEF HolderOK
<1>2. ASSUME NEW on \in BOOLEAN, NEW generation \in Nat
      PROVE  LET g == [h EXCEPT !.generation = generation, !.suspended = on,
                                !.crons = [i \in DOMAIN h.crons |-> ~on]]
             IN HolderOK(g, owner, now) /\ Same(h, g)
  <2> DEFINE crons == [i \in DOMAIN h.crons |-> ~on]
             g == [h EXCEPT !.generation = generation, !.suspended = on, !.crons = crons]
  <2>1. IsTable(crons, BOOLEAN)
    BY <1>1, HolderParts DEF IsTable
  <2>2. h.crons = Nothing => crons = Nothing
    BY DEF Nothing
  <2>3. DOMAIN crons = DOMAIN h.crons /\ \A i \in DOMAIN crons : crons[i] = ~on
    OBVIOUS
  <2> HIDE DEF crons
  <2>4. /\ g.epoch = h.epoch /\ g.opened = h.opened /\ g.links = h.links /\ g.blocks = h.blocks
        /\ g.crons = crons /\ g.suspended = on /\ g.due = h.due
    BY <1>1, HolderParts
  <2>5. IsHolder(g)
    BY <1>1, <1>2, <2>1, HolderParts DEF IsHolder
  <2> HIDE DEF g
  <2>6. HolderOK(g, owner, now)
    BY <2>2, <2>3, <2>4, <2>5 DEF HolderOK
  <2> QED BY <2>4, <2>6 DEF Same, g, crons
<1>3. CASE h.suspended
  <2>1. SuspendInner(h) = h
    BY <1>3 DEF SuspendInner
  <2>2. ResumeInner(h) = [h EXCEPT !.generation = h.generation, !.suspended = FALSE,
                                   !.crons = [i \in DOMAIN h.crons |-> ~FALSE]]
    <3>1. ResumeInner(h) = [h EXCEPT !.suspended = FALSE,
                                     !.crons = [i \in DOMAIN h.crons |-> ~FALSE]]
      BY <1>3 DEF ResumeInner
    <3> QED BY <1>1, <3>1, HolderParts
  <2>3. h.generation \in Nat /\ FALSE \in BOOLEAN
    BY <1>1, HolderParts
  <2>4. HolderOK(ResumeInner(h), owner, now) /\ Same(h, ResumeInner(h))
    BY <1>2, <2>2, <2>3
  <2> QED BY <2>1, <2>4 DEF Same
<1>4. CASE ~h.suspended
  <2>1. ResumeInner(h) = h
    BY <1>4 DEF ResumeInner
  <2>2. SuspendInner(h) = [h EXCEPT !.generation = h.generation + 1, !.suspended = TRUE,
                                    !.crons = [i \in DOMAIN h.crons |-> ~TRUE]]
    BY <1>4 DEF SuspendInner
  <2>3. h.generation + 1 \in Nat /\ TRUE \in BOOLEAN
    BY <1>1, HolderParts
  <2>4. HolderOK(SuspendInner(h), owner, now) /\ Same(h, SuspendInner(h))
    BY <1>2, <2>2, <2>3
  <2> QED BY <2>1, <2>4 DEF Same
<1> QED BY <1>3, <1>4

\* An open holder with other blocks, which hold its crons.
LEMMA BlocksOK ==
  ASSUME NEW h, NEW owner, NEW now, HolderOK(h, owner, now), h.epoch # 0,
         NEW blocks, IsTable(blocks, Block), DOMAIN h.crons \subseteq DOMAIN blocks,
         \A i \in DOMAIN blocks : blocks[i].doc.owner = owner /\ blocks[i].doc.at <= now,
         NEW g, g = [h EXCEPT !.blocks = blocks]
  PROVE  /\ HolderOK(g, owner, now)
         /\ g.epoch = h.epoch /\ g.opened = h.opened /\ g.blocks = blocks
<1>1. IsHolder(h)
  BY DEF HolderOK
<1>2. /\ g.epoch = h.epoch /\ g.opened = h.opened /\ g.links = h.links /\ g.blocks = blocks
      /\ g.crons = h.crons /\ g.suspended = h.suspended
  BY <1>1, HolderParts
<1>3. IsHolder(g)
  BY <1>1, HolderParts DEF IsHolder
<1>4. HolderOK(g, owner, now)
  BY <1>2, <1>3 DEF HolderOK
<1> QED BY <1>2, <1>4

LEMMA LinksOK ==
  ASSUME NEW h, NEW owner, NEW now, HolderOK(h, owner, now), h.epoch # 0,
         NEW links \in Links, links.doc.owner = owner, links.doc.at <= now,
         NEW g, g = [h EXCEPT !.links = links]
  PROVE  /\ HolderOK(g, owner, now)
         /\ g.epoch = h.epoch /\ g.opened = h.opened /\ g.blocks = h.blocks
<1>1. IsHolder(h)
  BY DEF HolderOK
<1>2. /\ g.epoch = h.epoch /\ g.opened = h.opened /\ g.links = links /\ g.blocks = h.blocks
      /\ g.crons = h.crons /\ g.suspended = h.suspended
  BY <1>1, HolderParts
<1>3. IsHolder(g)
  BY <1>1, HolderParts DEF IsHolder
<1>4. HolderOK(g, owner, now)
  BY <1>2, <1>3 DEF HolderOK
<1> QED BY <1>2, <1>4

\* Another set of refreshes to start.
OtherDue(h, g) == \E due \in SUBSET Times : g = [h EXCEPT !.due = due]

LEMMA DueOK ==
  ASSUME NEW h, NEW owner, NEW now, HolderOK(h, owner, now), NEW g, OtherDue(h, g)
  PROVE  HolderOK(g, owner, now) /\ Same(h, g)
<1> PICK due \in SUBSET Times : g = [h EXCEPT !.due = due]
  BY DEF OtherDue
<1>1. IsHolder(h)
  BY DEF HolderOK
<1>2. /\ g.epoch = h.epoch /\ g.opened = h.opened /\ g.links = h.links /\ g.blocks = h.blocks
      /\ g.crons = h.crons /\ g.suspended = h.suspended
  BY <1>1, HolderParts
<1>3. IsHolder(g)
  BY <1>1, HolderParts DEF IsHolder
<1>4. HolderOK(g, owner, now)
  BY <1>2, <1>3 DEF HolderOK
<1> QED BY <1>2, <1>4 DEF Same

\* An answer is imported: what it holds was written under the owner, whose
\* blocks only go forward, and tick.
LEMMA RetrievedOK ==
  ASSUME NEW h, NEW owner, NEW now \in Nat, HolderOK(h, owner, now), h.epoch # 0, ~h.suspended,
         NEW answer, IsTable(answer, Version), Written(answer, owner, now),
         NEW links \in LinksAfter(h, answer), NEW refresh \in BOOLEAN,
         NEW g, g = Retrieved(h, answer, links, refresh)
  PROVE  /\ HolderOK(g, owner, now)
         /\ g.epoch = h.epoch /\ g.opened = h.opened
         /\ \A i \in DOMAIN h.blocks :
              i \in DOMAIN g.blocks /\ g.blocks[i].doc.at >= h.blocks[i].doc.at
<1> DEFINE ids == AnsweredBlocks(answer)
           blocks == [i \in DOMAIN h.blocks \cup ids |->
                        IF i \in ids THEN Imported(h, i, answer[i]) ELSE h.blocks[i]]
           crons == [i \in DOMAIN h.crons \cup ids |-> IF i \in ids THEN TRUE ELSE h.crons[i]]
           due == IF refresh THEN h.due \cup ids ELSE h.due
<1>1. IsHolder(h)
  BY DEF HolderOK
<1>2. g = [h EXCEPT !.links = links, !.blocks = blocks, !.crons = crons, !.due = due]
  BY DEF Retrieved
<1>3. /\ ids \subseteq Times /\ ids \subseteq DOMAIN answer
      /\ \A i \in DOMAIN answer : /\ answer[i] \in Version /\ answer[i].owner = owner
                                  /\ answer[i].at <= now /\ answer[i].at \in Times
      /\ \A i \in ids : answer[i].kind = "block"
  BY DEF AnsweredBlocks, IsTable, Written, Version
<1>4. links \in Links /\ links.doc.owner = owner /\ links.doc.at <= now
  <2>1. CASE links = h.links
    BY <2>1 DEF HolderOK
  <2>2. ASSUME NEW i \in DOMAIN answer, answer[i].kind = "links",
               links = [id |-> i, doc |-> answer[i], fetched |-> answer[i].at]
        PROVE  links \in Links /\ links.doc.owner = owner /\ links.doc.at <= now
    <3>1. i \in Times
      BY DEF IsTable
    <3> QED BY <1>3, <2>2, <3>1 DEF Links
  <2> QED BY <2>1, <2>2 DEF LinksAfter
<1>5. ASSUME NEW i \in DOMAIN h.blocks
      PROVE  /\ i \in Times /\ h.blocks[i] \in Block /\ h.blocks[i].doc.owner = owner
             /\ h.blocks[i].doc.at <= now /\ h.blocks[i].doc.at \in Nat
  BY <1>1, BlockParts, HolderParts DEF HolderOK, IsTable
<1>6. ASSUME NEW i \in ids
      PROVE  LET k == Imported(h, i, answer[i])
             IN /\ k \in Block /\ k.doc.owner = owner /\ k.doc.at <= now
                /\ i \in DOMAIN h.blocks => k.doc.at >= h.blocks[i].doc.at
  <2> DEFINE new == [doc |-> answer[i], fetched |-> answer[i].at, dirty |-> FALSE]
  <2>1. new \in Block /\ new.doc.owner = owner /\ new.doc.at <= now /\ new.doc.at = answer[i].at
    BY <1>3 DEF Block
  <2>2. answer[i].at \in Nat
    BY <1>3, Moments
  <2> HIDE DEF new
  <2>3. \/ Imported(h, i, answer[i]) = new
           /\ (i \in DOMAIN h.blocks => ~(h.blocks[i].doc.at >= answer[i].at))
        \/ i \in DOMAIN h.blocks /\ Imported(h, i, answer[i]) = h.blocks[i]
    BY DEF Imported, new
  <2> QED BY <1>5, <2>1, <2>2, <2>3
<1>7. /\ IsTable(blocks, Block)
      /\ \A i \in DOMAIN blocks : blocks[i].doc.owner = owner /\ blocks[i].doc.at <= now
      /\ \A i \in DOMAIN h.blocks :
           i \in DOMAIN blocks /\ blocks[i].doc.at >= h.blocks[i].doc.at
  BY <1>3, <1>5, <1>6 DEF IsTable
<1>8. /\ IsTable(crons, BOOLEAN)
      /\ \A i \in DOMAIN crons : i \in DOMAIN blocks /\ crons[i] = TRUE
  BY <1>1, <1>3, HolderParts DEF IsTable, HolderOK
<1>9. due \in SUBSET Times
  BY <1>1, <1>3, HolderParts
<1> HIDE DEF blocks, crons, due
<1>10. /\ g.epoch = h.epoch /\ g.opened = h.opened /\ g.links = links /\ g.blocks = blocks
       /\ g.crons = crons /\ g.suspended = h.suspended
  BY <1>1, <1>2, HolderParts
<1>11. IsHolder(g)
  BY <1>1, <1>2, <1>4, <1>7, <1>8, <1>9, HolderParts DEF IsHolder
<1>12. HolderOK(g, owner, now)
  BY <1>4, <1>7, <1>8, <1>10, <1>11 DEF HolderOK
<1> QED BY <1>7, <1>10, <1>12

LEMMA RemovedOK ==
  ASSUME NEW h, NEW owner, NEW now, HolderOK(h, owner, now), NEW ids,
         NEW g, g = Removed(h, ids)
  PROVE  /\ HolderOK(g, owner, now)
         /\ g.epoch = h.epoch /\ g.opened = h.opened
         /\ \A i \in DOMAIN h.blocks \ ids :
              i \in DOMAIN g.blocks /\ g.blocks[i] = h.blocks[i]
<1> DEFINE blocks == Restrict(h.blocks, DOMAIN h.blocks \ ids)
           crons == Restrict(h.crons, DOMAIN h.crons \ ids)
<1>1. IsHolder(h)
  BY DEF HolderOK
<1>2. g = [h EXCEPT !.blocks = blocks, !.crons = crons]
  BY DEF Removed
<1>3. /\ DOMAIN blocks = DOMAIN h.blocks \ ids
      /\ \A i \in DOMAIN blocks : blocks[i] = h.blocks[i]
      /\ DOMAIN crons = DOMAIN h.crons \ ids
      /\ \A i \in DOMAIN crons : crons[i] = h.crons[i]
  BY DEF Restrict
<1>4. IsTable(blocks, Block) /\ IsTable(crons, BOOLEAN)
  BY <1>1, HolderParts DEF IsTable, Restrict
<1>5. /\ h.blocks = Nothing => blocks = Nothing
      /\ h.crons = Nothing => crons = Nothing
  BY DEF Nothing, Restrict
<1> HIDE DEF blocks, crons
<1>6. /\ g.epoch = h.epoch /\ g.opened = h.opened /\ g.links = h.links /\ g.blocks = blocks
      /\ g.crons = crons /\ g.suspended = h.suspended
  BY <1>1, <1>2, HolderParts
<1>7. IsHolder(g)
  BY <1>1, <1>2, <1>4, HolderParts DEF IsHolder
<1>8. HolderOK(g, owner, now)
  BY <1>3, <1>5, <1>6, <1>7 DEF HolderOK
<1> QED BY <1>3, <1>6, <1>8

-----------------------------------------------------------------------------
(* What is sent, stored and answered. *)

LEMMA DocsOK ==
  ASSUME NEW h, NEW owner, NEW now, HolderOK(h, owner, now), h.epoch # 0
  PROVE  /\ IsTable(AllDocs(h), Version) /\ Written(AllDocs(h), owner, now)
         /\ IsTable(EditedDocs(h), Version) /\ Written(EditedDocs(h), owner, now)
         /\ \A i \in DOMAIN h.blocks : /\ IsTable(BlockDocs(h, {i}), Version)
                                       /\ Written(BlockDocs(h, {i}), owner, now)
<1> DEFINE all == AllDocs(h)
           edited == {i \in DOMAIN h.blocks : h.blocks[i].doc.at > h.blocks[i].fetched}
                     \cup (IF h.links.doc.at > h.links.fetched THEN {h.links.id} ELSE {})
<1>1. /\ h.links \in Links /\ h.links.doc.owner = owner /\ h.links.doc.at <= now
      /\ IsTable(h.blocks, Block)
      /\ \A i \in DOMAIN h.blocks : h.blocks[i].doc.owner = owner /\ h.blocks[i].doc.at <= now
  BY HolderParts DEF HolderOK
<1>2. /\ DOMAIN h.blocks \subseteq Times /\ h.links.id \in Times /\ h.links.doc \in Version
      /\ \A i \in DOMAIN h.blocks : h.blocks[i].doc \in Version
  BY <1>1, LinksParts, BlockParts DEF IsTable
<1>3. /\ DOMAIN all = {h.links.id} \cup DOMAIN h.blocks
      /\ \A i \in DOMAIN all : all[i] = IF i = h.links.id THEN h.links.doc ELSE h.blocks[i].doc
      /\ all = [i \in DOMAIN all |-> all[i]]
  BY DEF AllDocs
<1> HIDE DEF all
<1>4. IsTable(all, Version) /\ Written(all, owner, now)
  BY <1>1, <1>2, <1>3 DEF IsTable, Written
<1>5. edited \subseteq DOMAIN all
  BY <1>3
<1>6. EditedDocs(h) = [i \in edited |-> all[i]]
  BY DEF EditedDocs, Restrict, all
<1> HIDE DEF edited
<1>7. IsTable(EditedDocs(h), Version) /\ Written(EditedDocs(h), owner, now)
  BY <1>4, <1>5, <1>6 DEF IsTable, Written
<1>8. \A i \in DOMAIN h.blocks : /\ IsTable(BlockDocs(h, {i}), Version)
                                 /\ Written(BlockDocs(h, {i}), owner, now)
  BY <1>1, <1>2 DEF BlockDocs, IsTable, Written
<1> QED BY <1>4, <1>7, <1>8 DEF all

\* What a call changes of the documents of its account: a document goes back
\* only when a whole page is saved and disappears only when it is removed.
LEMMA StoredOK ==
  ASSUME NEW docs, IsTable(docs, Version), NEW owner, NEW now, Written(docs, owner, now),
         NEW c, IsCall(c), Written(c.sent, owner, now), NEW S \in SUBSET DOMAIN c.sent,
         NEW after, after = StoreAfter(docs, c, S)
  PROVE  /\ IsTable(after, Version) /\ Written(after, owner, now)
         /\ \A i \in DOMAIN docs :
              \/ i \in DOMAIN after /\ after[i].at >= docs[i].at
              \/ i \in S /\ c.kind = (IF i \in DOMAIN after THEN "saveAll" ELSE "remove")
<1>1. /\ DOMAIN docs \subseteq Times /\ DOMAIN c.sent \subseteq Times
      /\ docs = [i \in DOMAIN docs |-> docs[i]]
      /\ \A i \in DOMAIN docs : docs[i] \in Version /\ docs[i].at \in Nat
                                /\ docs[i].owner = owner /\ docs[i].at <= now
      /\ \A i \in DOMAIN c.sent : c.sent[i] \in Version /\ c.sent[i].at \in Nat
                                  /\ c.sent[i].owner = owner /\ c.sent[i].at <= now
  BY CallParts, Moments DEF IsTable, Version, Written
<1>2. CASE c.kind \in {"save", "saveAll"}
  <2> DEFINE overwrite == c.kind = "saveAll"
             merged == [i \in DOMAIN docs \cup S |->
                          IF i \in S THEN Put(docs, i, c.sent[i], overwrite) ELSE docs[i]]
  <2>1. after = merged
    BY <1>2 DEF StoreAfter
  <2>2. \A i \in S : \/ i \in DOMAIN docs /\ Put(docs, i, c.sent[i], overwrite) = docs[i]
                     \/ /\ Put(docs, i, c.sent[i], overwrite) = c.sent[i]
                        /\ i \in DOMAIN docs /\ ~overwrite => ~(docs[i].at >= c.sent[i].at)
    BY DEF Put
  <2> HIDE DEF overwrite
  <2>3. DOMAIN after = DOMAIN docs \cup S /\ after = [i \in DOMAIN after |-> after[i]]
    BY <2>1
  <2>4. \A i \in DOMAIN after :
          \/ i \in DOMAIN docs /\ after[i] = docs[i]
          \/ /\ i \in S /\ after[i] = c.sent[i]
             /\ i \in DOMAIN docs /\ ~overwrite => ~(docs[i].at >= c.sent[i].at)
    BY <2>1, <2>2
  <2> HIDE DEF merged
  <2>5. IsTable(after, Version) /\ Written(after, owner, now)
    BY <1>1, <2>3, <2>4 DEF IsTable, Written
  <2>6. \A i \in DOMAIN docs : \/ i \in DOMAIN after /\ after[i].at >= docs[i].at
                               \/ i \in S /\ i \in DOMAIN after /\ overwrite
    BY <1>1, <2>3, <2>4
  <2> QED BY <2>5, <2>6 DEF overwrite
<1>3. CASE c.kind = "remove"
  <2>1. after = [i \in DOMAIN docs \ S |-> docs[i]]
    BY <1>3 DEF StoreAfter, Restrict
  <2> QED BY <1>1, <1>3, <2>1 DEF IsTable, Written
<1>4. CASE c.kind \notin {"save", "saveAll", "remove"}
  <2>1. after = docs
    BY <1>4 DEF StoreAfter
  <2> QED BY <1>1, <2>1
<1> QED BY <1>2, <1>3, <1>4

LEMMA AnswerOK ==
  ASSUME NEW docs, IsTable(docs, Version), NEW owner, NEW now, Written(docs, owner, now),
         NEW c
  PROVE  IsTable(AnswerOf(docs, c), Version) /\ Written(AnswerOf(docs, c), owner, now)
<1> DEFINE newer == {i \in DOMAIN c.sent \cap DOMAIN docs : docs[i].at > c.sent[i].at}
<1>1. \/ AnswerOf(docs, c) = [i \in newer \cup (DOMAIN docs \ DOMAIN c.sent) |-> docs[i]]
      \/ AnswerOf(docs, c) = [i \in newer |-> docs[i]]
      \/ AnswerOf(docs, c) = Nothing
  BY DEF AnswerOf, Restrict
<1>2. newer \subseteq DOMAIN docs /\ newer \cup (DOMAIN docs \ DOMAIN c.sent) \subseteq DOMAIN docs
  OBVIOUS
<1> HIDE DEF newer
<1>3. ASSUME NEW ids \in SUBSET DOMAIN docs, AnswerOf(docs, c) = [i \in ids |-> docs[i]]
      PROVE  IsTable(AnswerOf(docs, c), Version) /\ Written(AnswerOf(docs, c), owner, now)
  BY <1>3 DEF IsTable, Written
<1> QED BY <1>1, <1>2, <1>3, NothingIsTable

-----------------------------------------------------------------------------
(* What a step keeps of the calls on their way. *)

LEMMA CallLater ==
  ASSUME NEW c, NEW owner, NEW account, NEW now \in Nat, NEW later \in Nat, now <= later,
         CallOK(c, owner, account, now)
  PROVE  CallOK(c, owner, account, later)
  BY WrittenLater, CallParts DEF CallOK

\* A call nobody waits for any more.
LEMMA CallDropped ==
  ASSUME NEW c, NEW owner, NEW account, NEW now, CallOK(c, owner, account, now),
         NEW d, d = [c EXCEPT !.live = FALSE]
  PROVE  CallOK(d, owner, account, now) /\ d.browser = c.browser
<1>1. IsCall(c)
  BY DEF CallOK
<1>2. IsCall(d)
  BY <1>1, CallParts DEF IsCall
<1>3. /\ d.browser = c.browser /\ d.epoch = c.epoch /\ d.account = c.account /\ d.step = c.step
      /\ d.sent = c.sent /\ d.answer = c.answer
  BY <1>1, CallParts
<1> QED BY <1>2, <1>3 DEF CallOK

\* The calls stay or are forgotten, and the time passes or a session expires.
LEMMA CallsKept ==
  ASSUME IInv, DOMAIN call' = Slots, \A s \in Slots : call'[s] \in {None, call[s]},
         user' = user, time' \in Nat, time <= time',
         \A b \in Browsers : session'[b] \in {None, session[b]}
  PROVE  Calls'
<1> SUFFICES ASSUME NEW s \in Slots, call'[s] # None
             PROVE  CallOK(call'[s], user'[call'[s].browser], session'[call'[s].browser], time')
  BY DEF Calls
<1> DEFINE c == call[s]
<1>1. call'[s] = c /\ CallOK(c, user[c.browser], session[c.browser], time)
  BY DEF IInv, Calls
<1>2. CallOK(c, user[c.browser], session[c.browser], time')
  <2>1. time \in Nat
    BY Moments DEF IInv, Flags
  <2> QED BY <1>1, <2>1, CallLater
<1>3. session'[c.browser] \in {None, session[c.browser]}
  BY <1>1, CallParts DEF CallOK
<1> QED BY <1>1, <1>2, <1>3 DEF CallOK

\* The tasks of a browser end: only there may the key and the session change.
LEMMA CallsCancelled ==
  ASSUME IInv, NEW b \in Browsers, NEW gone \in BOOLEAN, call' = Cancelled(b, gone),
         time' \in Nat, time <= time',
         \A other \in Browsers : other # b \/ ~gone =>
           user'[other] = user[other] /\ session'[other] = session[other]
  PROVE  Calls'
<1>1. DOMAIN call' = Slots
  BY DEF Cancelled
<1> SUFFICES ASSUME NEW s \in Slots, call'[s] # None
             PROVE  CallOK(call'[s], user'[call'[s].browser], session'[call'[s].browser], time')
  BY <1>1 DEF Calls
<1> DEFINE c == call[s]
           dropped == [c EXCEPT !.live = FALSE]
<1>2. /\ c # None /\ (call'[s] = c \/ call'[s] = dropped)
      /\ c.browser # b \/ ~gone
  BY DEF Cancelled
<1>3. CallOK(c, user[c.browser], session[c.browser], time) /\ time \in Nat
  BY <1>2, Moments DEF IInv, Calls, Flags
<1>4. c.browser \in Browsers
  BY <1>3, CallParts DEF CallOK
<1>5. user'[c.browser] = user[c.browser] /\ session'[c.browser] = session[c.browser]
  BY <1>2, <1>4
<1>7. CallOK(dropped, user[c.browser], session[c.browser], time) /\ dropped.browser = c.browser
  BY <1>3, CallDropped
<1> HIDE DEF dropped, c
<1>8. /\ CallOK(c, user[c.browser], session[c.browser], time')
      /\ CallOK(dropped, user[c.browser], session[c.browser], time')
  BY <1>3, <1>7, CallLater
<1> QED BY <1>2, <1>5, <1>7, <1>8

LEMMA NewCallOK ==
  ASSUME IInv, NEW b \in Browsers, Active(b), NEW kind \in Kinds,
         NEW sent, IsTable(sent, Version), Written(sent, user[b], time)
  PROVE  /\ NewCall(b, kind, sent).browser = b
         /\ CallOK(NewCall(b, kind, sent), user[b], session[b], time)
<1> DEFINE c == NewCall(b, kind, sent)
<1>1. holder[b].epoch \in Nat /\ holder[b].generation \in Nat /\ holder[b].epoch # 0
  BY HolderParts DEF IInv, Holders, HolderOK, Active
<1>2. session[b] \in Accounts \cup {None} /\ (session[b] # None => session[b] = user[b])
  BY DEF IInv, Flags, Pages
<1>3. /\ c.browser = b /\ c.account = session[b] /\ c.epoch = holder[b].epoch
      /\ c.step = "sent" /\ c.sent = sent /\ c.answer = Nothing /\ c.kind = kind
  BY DEF NewCall
<1>4. IsCall(c)
  BY <1>1, <1>2, NothingIsTable DEF IsCall, NewCall
<1> HIDE DEF c
<1>5. CallOK(c, user[b], session[b], time)
  BY <1>1, <1>2, <1>3, <1>4, NothingIsTable DEF CallOK
<1> QED BY <1>3, <1>5 DEF c

LEMMA CallsSent ==
  ASSUME IInv, NEW b \in Browsers, Active(b), NEW kind \in Kinds,
         NEW sent, IsTable(sent, Version), Written(sent, user[b], time), Send(b, kind, sent),
         UNCHANGED <<user, session, time>>
  PROVE  Calls'
<1> DEFINE c == NewCall(b, kind, sent)
<1>1. PICK s \in Slots : call' = [call EXCEPT ![s] = c]
  BY DEF Send
<1>2. c.browser = b /\ CallOK(c, user[b], session[b], time)
  BY NewCallOK
<1> HIDE DEF c
<1> QED BY <1>1, <1>2 DEF IInv, Calls

LEMMA CallsAnswered ==
  ASSUME IInv, NEW s \in Slots, Reaches(s), NEW step \in {"ok", "error", "auth"},
         step = "auth" => session[call[s].browser] = None,
         NEW answer, IsTable(answer, Version), Written(answer, user[call[s].browser], time),
         Answered(s, step, answer), UNCHANGED <<user, session, time>>
  PROVE  Calls' /\ call'[s] # call[s]
<1> DEFINE c == call[s]
           d == [c EXCEPT !.step = step, !.answer = answer]
<1>1. /\ call' = [call EXCEPT ![s] = IF c.live THEN d ELSE None] /\ c # None /\ c.step = "sent"
  BY DEF Answered, Reaches
<1>2. CallOK(c, user[c.browser], session[c.browser], time)
  BY <1>1 DEF IInv, Calls
<1>3. IsCall(c) /\ IsCall(d)
  BY <1>2, CallParts DEF IsCall, CallOK
<1>4. /\ d.browser = c.browser /\ d.epoch = c.epoch /\ d.account = c.account /\ d.step = step
      /\ d.sent = c.sent /\ d.answer = answer
  BY <1>3, CallParts
<1> HIDE DEF d
<1>7. CallOK(d, user[c.browser], session[c.browser], time)
  BY <1>2, <1>3, <1>4 DEF CallOK
<1>5. Calls'
  BY <1>1, <1>4, <1>7 DEF IInv, Calls
<1>6. call'[s] = (IF c.live THEN d ELSE None)
  BY <1>1 DEF IInv, Calls
<1> QED BY <1>1, <1>4, <1>5, <1>6

-----------------------------------------------------------------------------
(* What a step keeps of the holders, of the documents and of the pages. *)

\* Block i goes to later versions only, or the server has removed it.
Forward(b, h, i) ==
  \/ i \in DOMAIN h.blocks /\ h.blocks[i].doc.at >= holder[b].blocks[i].doc.at
  \/ \E s \in Slots :
       /\ call[s] # None /\ call[s].browser = b /\ call[s].kind = "remove"
       /\ call[s].step = "ok" /\ i \in DOMAIN call[s].sent
GoesForward ==
  \A b \in Browsers :
    holder'[b].epoch = holder[b].epoch => \A i \in DOMAIN holder[b].blocks : Forward(b, holder'[b], i)

\* One holder changes; what it shows, if its epoch is the same, goes forward.
LEMMA HolderAt ==
  ASSUME IInv, NEW b \in Browsers, NEW h, holder' = [holder EXCEPT ![b] = h],
         time' \in Times, time <= time', HolderOK(h, user'[b], time'),
         \A other \in Browsers \ {b} : user'[other] = user[other],
         h.epoch = holder[b].epoch => \A i \in DOMAIN holder[b].blocks : Forward(b, h, i)
  PROVE  Holders' /\ GoesForward
<1>1. time \in Nat /\ time' \in Nat /\ DOMAIN holder = Browsers
  BY Moments DEF IInv, Flags, Holders
<1>2. holder'[b] = h /\ \A other \in Browsers \ {b} : holder'[other] = holder[other]
  BY <1>1
<1>3. \A other \in Browsers : HolderOK(holder[other], user[other], time')
  BY <1>1, HolderLater DEF IInv, Holders
<1>4. Holders'
  BY <1>1, <1>2, <1>3 DEF Holders
<1>5. ASSUME NEW other \in Browsers, NEW i \in DOMAIN holder[other].blocks
      PROVE  holder[other].blocks[i].doc.at >= holder[other].blocks[i].doc.at
  <2>1. holder[other].blocks[i].doc.at \in Nat
    BY <1>3, HolderParts, BlockParts DEF HolderOK, IsTable
  <2> QED BY <2>1
<1>6. GoesForward
  BY <1>2, <1>5 DEF GoesForward, Forward
<1> QED BY <1>4, <1>6

LEMMA HoldersKept ==
  ASSUME IInv, UNCHANGED <<holder, user>>, time' \in Times, time <= time'
  PROVE  Holders' /\ GoesForward
<1>1. time \in Nat /\ time' \in Nat
  BY Moments DEF IInv, Flags
<1>2. \A b \in Browsers : HolderOK(holder[b], user[b], time')
  BY <1>1, HolderLater DEF IInv, Holders
<1>3. ASSUME NEW b \in Browsers, NEW i \in DOMAIN holder[b].blocks
      PROVE  holder[b].blocks[i].doc.at >= holder[b].blocks[i].doc.at
  <2>1. holder[b].blocks[i].doc.at \in Nat
    BY <1>2, HolderParts, BlockParts DEF HolderOK, IsTable
  <2> QED BY <2>1
<1> QED BY <1>2, <1>3 DEF IInv, Holders, GoesForward, Forward

LEMMA StoresKept ==
  ASSUME IInv, store' = store, time' \in Times, time <= time'
  PROVE  Stores'
<1>1. time \in Nat /\ time' \in Nat
  BY Moments DEF IInv, Flags
<1> QED BY <1>1, WrittenLater DEF IInv, Stores

\* No document goes back, unless a whole page is saved, and none disappears,
\* unless it is removed.
BackBy(a, i) ==
  \/ i \in DOMAIN store'[a] /\ store'[a][i].at >= store[a][i].at
  \/ \E s \in Slots :
       /\ call[s] # None /\ call[s].step = "sent" /\ call'[s] # call[s]
       /\ call[s].kind = IF i \in DOMAIN store'[a] THEN "saveAll" ELSE "remove"
       /\ i \in DOMAIN call[s].sent
GoesBackBySaveAll == \A a \in Accounts : \A i \in DOMAIN store[a] : BackBy(a, i)

LEMMA StoresForward ==
  ASSUME IInv, store' = store
  PROVE  GoesBackBySaveAll
<1> SUFFICES ASSUME NEW a \in Accounts, NEW i \in DOMAIN store[a]
             PROVE  store[a][i].at >= store[a][i].at
  BY DEF GoesBackBySaveAll, BackBy
<1>1. store[a][i].at \in Nat
  BY Moments DEF IInv, Stores, IsTable, Version
<1> QED BY <1>1

\* All that a step must show.
Goal == IInv' /\ GoesForward /\ GoesBackBySaveAll

\* A step of the user, of a rotation or of an answer: one holder changes, and
\* stays open or closed under its epoch.
LEMMA HolderStep ==
  ASSUME IInv, UNCHANGED <<bound, store, session, user, home, leaving>>,
         rotating' \in [Browsers -> BOOLEAN], loaded' \in [Browsers -> BOOLEAN],
         editing' \in [Browsers -> BOOLEAN], suspends' \in [Browsers -> Nat],
         time' \in Times, time <= time', NEW b \in Browsers,
         NEW h, holder' = [holder EXCEPT ![b] = h], HolderOK(h, user[b], time'),
         h.epoch = holder[b].epoch, h.opened = holder[b].opened,
         \A i \in DOMAIN holder[b].blocks : Forward(b, h, i), Calls'
  PROVE  Goal
<1>1. Flags'
  BY DEF IInv, Flags
<1>2. Holders' /\ GoesForward
  BY HolderAt
<1>3. Stores' /\ GoesBackBySaveAll
  BY StoresKept, StoresForward
<1>4. \A other \in Browsers : /\ holder'[other].epoch = holder[other].epoch
                              /\ holder'[other].opened = holder[other].opened
  BY DEF IInv, Holders
<1>5. Pages' /\ ShownHomeIsLive'
  BY <1>4 DEF IInv, Pages, ShownHomeIsLive
<1> QED BY <1>1, <1>2, <1>3, <1>5 DEF IInv, Goal

LEMMA SameHolderStep ==
  ASSUME IInv, UNCHANGED <<bound, store, session, user, home, leaving, rotating, loaded, suspends,
                           holder>>,
         editing' \in [Browsers -> BOOLEAN], time' = time, Calls'
  PROVE  Goal
<1>1. Flags' /\ time' \in Times /\ time <= time'
  BY Moments DEF IInv, Flags
<1>2. Holders' /\ GoesForward
  BY <1>1, HoldersKept
<1>3. Stores' /\ GoesBackBySaveAll
  BY <1>1, StoresKept, StoresForward
<1>5. Pages' /\ ShownHomeIsLive'
  BY DEF IInv, Pages, ShownHomeIsLive
<1> QED BY <1>1, <1>2, <1>3, <1>5 DEF IInv, Goal

\* A holder that shows the same goes forward.
LEMMA SameForward ==
  ASSUME IInv, NEW b \in Browsers, NEW h, h.blocks = holder[b].blocks
  PROVE  \A i \in DOMAIN holder[b].blocks : Forward(b, h, i)
<1> SUFFICES ASSUME NEW i \in DOMAIN holder[b].blocks
             PROVE  holder[b].blocks[i].doc.at >= holder[b].blocks[i].doc.at
  BY DEF Forward
<1>1. holder[b].blocks[i].doc.at \in Nat
  BY HolderParts, BlockParts DEF IInv, Holders, HolderOK, IsTable
<1> QED BY <1>1

\* A holder that is closed, or opened anew.
LEMMA ClosedForward ==
  ASSUME IInv, NEW b \in Browsers, NEW h, HolderOK(h, user'[b], time'),
         h.epoch = 0 \/ h.epoch > holder[b].opened,
         h.epoch = holder[b].epoch
  PROVE  \A i \in DOMAIN holder[b].blocks : Forward(b, h, i)
<1>1. HolderOK(holder[b], user[b], time)
  BY DEF IInv, Holders
<1>2. holder[b].epoch = 0
  BY <1>1, HolderParts DEF HolderOK
<1> QED BY <1>1, <1>2, NothingIsTable DEF HolderOK

-----------------------------------------------------------------------------
(* The steps of the pages. *)

LEMMA TimePasses ==
  ASSUME IInv
  PROVE  /\ time \in Times /\ time \in Nat /\ time <= time
         /\ time < bound.time => time + 1 \in Times /\ time + 1 \in Nat /\ time <= time + 1
<1>1. bound.time \in 0..MaxTime
  BY SyncAssumption DEF IInv, Flags
<1> QED BY <1>1, Moments DEF IInv, Flags, Times

LEMMA HolderNow ==
  ASSUME IInv, NEW b \in Browsers
  PROVE  /\ HolderOK(holder[b], user[b], time) /\ IsHolder(holder[b])
         /\ holder[b].epoch \in Nat /\ holder[b].opened \in Nat
         /\ holder[b].epoch <= holder[b].opened
         /\ home[b] \in Nat /\ home[b] <= holder[b].opened
  BY HolderParts DEF IInv, Flags, Holders, Pages, HolderOK

LEMMA StepSignIn ==
  ASSUME IInv, NEW b \in Browsers, NEW a \in Accounts, SignIn(b, a)
  PROVE  Goal
<1> USE DEF SignIn
<1> DEFINE h == CloseInner(holder[b])
<1>1. HolderOK(h, user'[b], time') /\ h.epoch = 0 /\ h.opened = holder[b].opened
  BY HolderNow, ClosedOK
<1>2. time' = time /\ time' \in Times /\ time' \in Nat /\ time <= time'
  BY TimePasses
<1>3. holder' = [holder EXCEPT ![b] = h]
  BY DEF IInv, Holders
<1> HIDE DEF h
<1>4. Flags'
  BY NoneIsNothing DEF IInv, Flags
<1>5. user'[b] = a /\ session'[b] = a
      /\ \A other \in Browsers \ {b} : user'[other] = user[other] /\ session'[other] = session[other]
  BY DEF IInv, Flags
<1>6. Holders' /\ GoesForward
  BY <1>1, <1>2, <1>3, <1>5, ClosedForward, HolderAt
<1>7. Calls'
  BY <1>2, <1>5, CallsCancelled
<1>8. Stores' /\ GoesBackBySaveAll
  BY <1>2, StoresKept, StoresForward
<1>9. holder'[b] = h /\ \A other \in Browsers \ {b} : holder'[other] = holder[other]
  BY <1>3 DEF IInv, Holders
<1>10. Pages' /\ ShownHomeIsLive'
  BY <1>1, <1>5, <1>9 DEF IInv, Pages, ShownHomeIsLive
<1> QED BY <1>4, <1>6, <1>7, <1>8, <1>10 DEF IInv, Goal

LEMMA StepMount ==
  ASSUME IInv, NEW b \in Browsers, Mount(b)
  PROVE  Goal
<1> USE DEF Mount
<1> DEFINE h == OpenInner(holder[b], user[b], time + 1)
<1>1. time' \in Times /\ time' \in Nat /\ time <= time' /\ time' = time + 1
  BY TimePasses
<1>2. user[b] \in Accounts /\ user' = user /\ session' = session
  BY DEF IInv, Flags
<1>3. /\ HolderOK(h, user[b], time')
      /\ h.epoch = holder[b].opened + 1 /\ h.opened = holder[b].opened + 1
  BY <1>1, <1>2, HolderNow, OpenedOK
<1>4. holder' = [holder EXCEPT ![b] = h]
  <2>1. h.epoch # home[b]
    BY <1>3, HolderNow
  <2>2. CloseIf(h, home[b]) = h
    BY <2>1 DEF CloseIf
  <2>3. holder' = [holder EXCEPT ![b] = IF home[b] = 0 THEN h ELSE CloseIf(h, home[b])]
    OBVIOUS
  <2> QED BY <2>2, <2>3
<1> HIDE DEF h
<1>5. Flags'
  <2>1. holder[b].opened + 1 \in Nat
    BY HolderNow
  <2> QED BY <1>1, <2>1 DEF IInv, Flags
<1>6. h.epoch > holder[b].opened
  BY <1>3, HolderNow
<1>7. Holders' /\ GoesForward
  BY <1>1, <1>2, <1>3, <1>4, <1>6, ClosedForward, HolderAt
<1>8. Calls'
  <2>1. FALSE \in BOOLEAN
    OBVIOUS
  <2> QED BY <1>1, <1>2, <2>1, CallsCancelled
<1>9. Stores' /\ GoesBackBySaveAll
  BY <1>1, StoresKept, StoresForward
<1>10. /\ holder'[b] = h /\ home'[b] = holder[b].opened + 1
       /\ \A other \in Browsers \ {b} : holder'[other] = holder[other] /\ home'[other] = home[other]
  BY <1>4 DEF IInv, Holders, Flags
<1>11. Pages' /\ ShownHomeIsLive'
  BY <1>2, <1>3, <1>10, HolderNow DEF IInv, Pages, ShownHomeIsLive
<1> QED BY <1>5, <1>7, <1>8, <1>9, <1>11 DEF IInv, Goal

LEMMA StepLeave ==
  ASSUME IInv, NEW b \in Browsers, Leave(b)
  PROVE  Goal
<1> USE DEF Leave
<1> DEFINE h == CloseIf(holder[b], home[b])
<1>1. time' = time /\ time' \in Times /\ time' \in Nat /\ time <= time'
  BY TimePasses
<1>2. /\ HolderOK(h, user[b], time') /\ h.opened = holder[b].opened
      /\ h = holder[b] \/ h.epoch = 0
  BY <1>1, HolderNow, CloseIfOK
<1>3. holder' = [holder EXCEPT ![b] = h] /\ user' = user /\ session' = session
  BY DEF IInv, Holders
<1> HIDE DEF h
<1>4. Flags'
  BY DEF IInv, Flags
<1>5. h.epoch = holder[b].epoch => \A i \in DOMAIN holder[b].blocks : Forward(b, h, i)
  <2>1. CASE h = holder[b]
    BY <2>1, SameForward
  <2>2. CASE h.epoch = 0
    BY <1>2, <1>3, <2>2, ClosedForward
  <2> QED BY <1>2, <2>1, <2>2
<1>6. Holders' /\ GoesForward
  BY <1>1, <1>2, <1>3, <1>5, HolderAt
<1>7. Calls'
  <2>1. FALSE \in BOOLEAN
    OBVIOUS
  <2> QED BY <1>1, <1>3, <2>1, CallsCancelled
<1>8. Stores' /\ GoesBackBySaveAll
  BY <1>1, StoresKept, StoresForward
<1>9. /\ holder'[b] = h /\ home'[b] = 0
      /\ \A other \in Browsers \ {b} : holder'[other] = holder[other] /\ home'[other] = home[other]
  BY <1>3 DEF IInv, Holders, Flags
<1>10. Pages' /\ ShownHomeIsLive'
  BY <1>2, <1>3, <1>9, HolderNow DEF IInv, Pages, ShownHomeIsLive
<1> QED BY <1>4, <1>6, <1>7, <1>8, <1>10 DEF IInv, Goal

LEMMA StepSignOut ==
  ASSUME IInv, NEW b \in Browsers, SignOut(b)
  PROVE  Goal
<1> USE DEF SignOut
<1> DEFINE h == CloseInner(holder[b])
<1>1. time' = time /\ time' \in Times /\ time' \in Nat /\ time <= time'
  BY TimePasses
<1>2. HolderOK(h, user'[b], time') /\ h.epoch = 0 /\ h.opened = holder[b].opened
  BY HolderNow, ClosedOK
<1>3. holder' = [holder EXCEPT ![b] = h] /\ user' = user /\ session' = session
  BY DEF IInv, Holders
<1> HIDE DEF h
<1>4. Flags'
  BY DEF IInv, Flags
<1>5. Holders' /\ GoesForward
  BY <1>1, <1>2, <1>3, ClosedForward, HolderAt
<1>6. Calls'
  <2>1. FALSE \in BOOLEAN
    OBVIOUS
  <2> QED BY <1>1, <1>3, <2>1, CallsCancelled
<1>7. Stores' /\ GoesBackBySaveAll
  BY <1>1, StoresKept, StoresForward
<1>8. /\ holder'[b] = h /\ leaving'[b] = TRUE
      /\ \A other \in Browsers \ {b} :
           holder'[other] = holder[other] /\ leaving'[other] = leaving[other]
  BY <1>3 DEF IInv, Holders, Flags
<1>9. Pages' /\ ShownHomeIsLive'
  BY <1>2, <1>3, <1>8 DEF IInv, Pages, ShownHomeIsLive
<1> QED BY <1>4, <1>5, <1>6, <1>7, <1>9 DEF IInv, Goal

\* A closed holder has nothing of anyone.
LEMMA ClosedIsAnyones ==
  ASSUME NEW h, NEW owner, NEW other, NEW now, HolderOK(h, owner, now), h.epoch = 0
  PROVE  HolderOK(h, other, now)
  BY NothingIsTable DEF HolderOK

LEMMA StepSignedOut ==
  ASSUME IInv, NEW b \in Browsers, SignedOut(b)
  PROVE  Goal
<1> USE DEF SignedOut
<1> DEFINE h == CloseIf(holder[b], home[b])
<1>1. time' = time /\ time' \in Times /\ time' \in Nat /\ time <= time'
  BY TimePasses
<1>2. holder[b].epoch = 0
  BY DEF IInv, Pages
<1>3. HolderOK(holder[b], user'[b], time')
  BY <1>1, <1>2, HolderNow, ClosedIsAnyones
<1>4. /\ HolderOK(h, user'[b], time') /\ h.opened = holder[b].opened
      /\ h.epoch = 0
  BY <1>2, <1>3, CloseIfOK
<1>5. holder' = [holder EXCEPT ![b] = h]
  BY DEF IInv, Holders
<1> HIDE DEF h
<1>6. Flags'
  BY DEF IInv, Flags
<1>7. /\ user'[b] = None /\ session'[b] = None /\ home'[b] = 0 /\ leaving'[b] = FALSE
      /\ \A other \in Browsers \ {b} :
           /\ user'[other] = user[other] /\ session'[other] = session[other]
           /\ home'[other] = home[other] /\ leaving'[other] = leaving[other]
  BY DEF IInv, Flags
<1>8. Holders' /\ GoesForward
  BY <1>1, <1>4, <1>5, <1>7, ClosedForward, HolderAt
<1>9. Calls'
  BY <1>1, <1>7, CallsCancelled
<1>10. Stores' /\ GoesBackBySaveAll
  BY <1>1, StoresKept, StoresForward
<1>11. holder'[b] = h /\ \A other \in Browsers \ {b} : holder'[other] = holder[other]
  BY <1>5 DEF IInv, Holders
<1>12. Pages' /\ ShownHomeIsLive'
  BY <1>4, <1>7, <1>11, HolderNow DEF IInv, Pages, ShownHomeIsLive
<1> QED BY <1>6, <1>8, <1>9, <1>10, <1>12 DEF IInv, Goal

LEMMA StepExpire ==
  ASSUME IInv, NEW b \in Browsers, Expire(b)
  PROVE  Goal
<1> USE DEF Expire
<1>1. time' = time /\ time' \in Times /\ time' \in Nat /\ time <= time'
  BY TimePasses
<1>2. Flags'
  BY DEF IInv, Flags
<1>3. \A other \in Browsers : session'[other] \in {None, session[other]}
  BY DEF IInv, Flags
<1>4. Holders' /\ GoesForward
  BY <1>1, HoldersKept
<1>5. Calls'
  <2>1. DOMAIN call' = Slots
    BY DEF IInv, Calls
  <2> QED BY <1>1, <1>3, <2>1, CallsKept
<1>6. Stores' /\ GoesBackBySaveAll
  BY <1>1, StoresKept, StoresForward
<1>7. Pages' /\ ShownHomeIsLive'
  BY <1>3 DEF IInv, Pages, ShownHomeIsLive
<1> QED BY <1>2, <1>4, <1>5, <1>6, <1>7 DEF IInv, Goal

-----------------------------------------------------------------------------
(* The steps of a rotation and of the user. *)

LEMMA StepSuspends ==
  ASSUME IInv, NEW b \in Browsers,
         RotationStarts(b) \/ RotationEnds(b) \/ PendingRotation(b)
  PROVE  Goal
<1> USE DEF RotationStarts, RotationEnds, PendingRotation
<1>1. time' = time /\ time' \in Times /\ time' \in Nat /\ time <= time'
  BY TimePasses
<1>2. PICK h : /\ holder' = [holder EXCEPT ![b] = h]
               /\ h = SuspendInner(holder[b]) \/ h = ResumeInner(holder[b])
  BY DEF IInv, Holders
<1>3. HolderOK(h, user[b], time') /\ Same(holder[b], h)
  BY <1>1, <1>2, HolderNow, SuspendedOK
<1>4. \A i \in DOMAIN holder[b].blocks : Forward(b, h, i)
  BY <1>3, SameForward DEF Same
<1>5. Calls'
  <2>1. DOMAIN call' = Slots
    BY DEF IInv, Calls
  <2> QED BY <1>1, <2>1, CallsKept
<1>6. /\ UNCHANGED <<bound, store, session, user, home, leaving>>
      /\ rotating' \in [Browsers -> BOOLEAN] /\ loaded' \in [Browsers -> BOOLEAN]
      /\ editing' \in [Browsers -> BOOLEAN]
  BY DEF IInv, Flags
<1>7. suspends' \in [Browsers -> Nat]
  BY DEF IInv, Flags
<1> QED BY <1>1, <1>2, <1>3, <1>4, <1>5, <1>6, <1>7, HolderStep DEF Same

LEMMA StepFirstLoad ==
  ASSUME IInv, NEW b \in Browsers, FirstLoad(b)
  PROVE  Goal
<1> USE DEF FirstLoad
<1> DEFINE h == ResumeInner(holder[b])
<1>1. time' = time /\ time' \in Times /\ time' \in Nat /\ time <= time'
  BY TimePasses
<1>2. holder' = [holder EXCEPT ![b] = h]
  BY DEF IInv, Holders
<1>3. HolderOK(h, user[b], time') /\ Same(holder[b], h)
  BY <1>1, HolderNow, SuspendedOK
<1> HIDE DEF h
<1>4. \A i \in DOMAIN holder[b].blocks : Forward(b, h, i)
  BY <1>3, SameForward DEF Same
<1>5. Calls'
  <2>1. CASE user[b] = None
    <3>1. call' = call /\ DOMAIN call' = Slots
      BY <2>1 DEF IInv, Calls
    <3> QED BY <1>1, <3>1, CallsKept
  <2>2. CASE user[b] # None
    <3>1. holder[b].epoch # 0
      BY DEF Active
    <3>2. IsTable(AllDocs(holder[b]), Version) /\ Written(AllDocs(holder[b]), user[b], time)
      BY <3>1, HolderNow, DocsOK
    <3>3. "load" \in Kinds
      BY DEF Kinds
    <3> QED BY <1>1, <2>2, <3>2, <3>3, CallsSent
  <2> QED BY <2>1, <2>2
<1>6. /\ UNCHANGED <<bound, store, session, user, home, leaving>>
      /\ rotating' \in [Browsers -> BOOLEAN] /\ loaded' \in [Browsers -> BOOLEAN]
      /\ editing' \in [Browsers -> BOOLEAN] /\ suspends' \in [Browsers -> Nat]
  BY DEF IInv, Flags
<1> QED BY <1>1, <1>2, <1>3, <1>4, <1>5, <1>6, HolderStep DEF Same

LEMMA UserStep ==
  ASSUME IInv, UnchangedByUser, editing' \in [Browsers -> BOOLEAN],
         time' \in Times, time <= time', NEW b \in Browsers,
         NEW h, holder' = [holder EXCEPT ![b] = h], HolderOK(h, user[b], time'),
         h.epoch = holder[b].epoch, h.opened = holder[b].opened,
         \A i \in DOMAIN holder[b].blocks : Forward(b, h, i), Calls'
  PROVE  Goal
<1>1. /\ UNCHANGED <<bound, store, session, user, home, leaving>>
      /\ rotating' \in [Browsers -> BOOLEAN] /\ loaded' \in [Browsers -> BOOLEAN]
      /\ suspends' \in [Browsers -> Nat]
  BY DEF IInv, Flags, UnchangedByUser
<1> QED BY <1>1, HolderStep

LEMMA CallsAsBefore ==
  ASSUME IInv, UNCHANGED <<call, user, session>>, time' \in Times, time <= time'
  PROVE  Calls'
<1>1. DOMAIN call' = Slots
  BY DEF IInv, Calls
<1> QED BY <1>1, CallsKept, Moments

\* What an edit makes of a document.
LEMMA EditedParts ==
  ASSUME NEW doc \in Version, NEW at \in Times, NEW edited, edited = [doc EXCEPT !.at = at]
  PROVE  edited \in Version /\ edited.at = at /\ edited.owner = doc.owner /\ edited.kind = doc.kind
  BY DEF Version

LEMMA StepEditBlock ==
  ASSUME IInv, NEW b \in Browsers, NEW i \in Times, NEW dirty \in BOOLEAN, EditBlock(b, i, dirty)
  PROVE  Goal
<1> USE DEF EditBlock
<1> DEFINE old == holder[b]
           k == old.blocks[i]
           flag == k.dirty \/ dirty
           doc == [k.doc EXCEPT !.at = time + 1]
           new == [k EXCEPT !.doc = doc, !.dirty = flag]
           blocks == [old.blocks EXCEPT ![i] = new]
           h == [old EXCEPT !.blocks = blocks]
<1>1. time' = time + 1 /\ time' \in Times /\ time' \in Nat /\ time <= time' /\ time \in Nat
  BY TimePasses
<1>2. holder' = [holder EXCEPT ![b] = h]
  BY Zenon DEF Edited
<1>3. /\ old.epoch # 0 /\ i \in DOMAIN old.blocks
      /\ HolderOK(old, user[b], time) /\ HolderOK(old, user[b], time')
  BY <1>1, HolderNow, HolderLater DEF Active
<1>4. /\ IsTable(old.blocks, Block) /\ DOMAIN old.crons \subseteq DOMAIN old.blocks
      /\ \A j \in DOMAIN old.blocks : /\ old.blocks[j] \in Block
                                      /\ old.blocks[j].doc.owner = user[b]
                                      /\ old.blocks[j].doc.at <= time
                                      /\ old.blocks[j].doc.at \in Nat
  BY <1>3, HolderParts, BlockParts DEF HolderOK, IsTable
<1>5. new \in Block /\ new.doc.at = time' /\ new.doc.owner = user[b]
  <2>1. flag \in BOOLEAN /\ k \in Block
    BY <1>3, <1>4
  <2> HIDE DEF flag
  <2>2. doc = [k.doc EXCEPT !.at = time']
    BY <1>1
  <2> HIDE DEF doc
  <2>3. /\ doc \in Version /\ doc.at = time' /\ doc.owner = k.doc.owner /\ doc.kind = "block"
        /\ k.doc.owner = user[b]
    BY <1>1, <1>3, <1>4, <2>1, <2>2, BlockParts, EditedParts
  <2>4. new.doc = doc /\ new \in [doc: Version, fetched: Times, dirty: BOOLEAN]
    BY <2>1, <2>3 DEF Block
  <2> QED BY <2>3, <2>4 DEF Block
<1> HIDE DEF new
<1>6. /\ IsTable(blocks, Block) /\ DOMAIN blocks = DOMAIN old.blocks
      /\ \A j \in DOMAIN blocks : /\ blocks[j].doc.owner = user[b]
                                  /\ blocks[j].doc.at <= time'
                                  /\ blocks[j].doc.at >= old.blocks[j].doc.at
  BY <1>1, <1>3, <1>4, <1>5 DEF IsTable
<1>7. h = [old EXCEPT !.blocks = blocks]
  OBVIOUS
<1> HIDE DEF blocks, h, old
<1>8. /\ HolderOK(h, user[b], time')
      /\ h.epoch = old.epoch /\ h.opened = old.opened /\ h.blocks = blocks
  BY <1>3, <1>4, <1>6, <1>7, BlocksOK
<1>9. \A j \in DOMAIN old.blocks : Forward(b, h, j)
  BY <1>6, <1>8 DEF Forward, old
<1>10. Calls'
  BY <1>1, CallsAsBefore DEF UnchangedByUser
<1>11. editing' \in [Browsers -> BOOLEAN]
  BY DEF IInv, Flags
<1> QED BY <1>1, <1>2, <1>8, <1>9, <1>10, <1>11, UserStep DEF old

LEMMA StepEditLinks ==
  ASSUME IInv, NEW b \in Browsers, EditLinks(b)
  PROVE  Goal
<1> USE DEF EditLinks
<1> DEFINE old == holder[b]
           doc == [old.links.doc EXCEPT !.at = time + 1]
           links == [old.links EXCEPT !.doc = doc]
           h == [old EXCEPT !.links = links]
<1>1. time' = time + 1 /\ time' \in Times /\ time' \in Nat /\ time <= time' /\ time \in Nat
  BY TimePasses
<1>2. holder' = [holder EXCEPT ![b] = h]
  BY DEF IInv, Holders, Edited
<1>3. /\ old.epoch # 0
      /\ HolderOK(old, user[b], time) /\ HolderOK(old, user[b], time')
  BY <1>1, HolderNow, HolderLater DEF Active
<1>4. old.links \in Links /\ old.links.doc.owner = user[b]
  BY <1>3 DEF HolderOK
<1>5. doc \in Version /\ doc.at = time' /\ doc.owner = user[b] /\ doc.kind = "links"
  <2>1. doc = [old.links.doc EXCEPT !.at = time']
    BY <1>1
  <2> HIDE DEF doc
  <2>2. old.links.doc \in Version /\ old.links.doc.kind = "links"
    BY <1>4, LinksParts
  <2> QED BY <1>1, <1>4, <2>1, <2>2, EditedParts
<1> HIDE DEF doc
<1>6. links \in Links /\ links.doc = doc
  BY <1>4, <1>5 DEF Links
<1>7. h = [old EXCEPT !.links = links]
  OBVIOUS
<1> HIDE DEF links, h, old
<1>8. time' <= time'
  BY <1>1
<1>9. /\ HolderOK(h, user[b], time')
      /\ h.epoch = old.epoch /\ h.opened = old.opened /\ h.blocks = old.blocks
  BY <1>3, <1>5, <1>6, <1>7, <1>8, LinksOK
<1>10. \A j \in DOMAIN old.blocks : Forward(b, h, j)
  BY <1>9, SameForward DEF old
<1>11. Calls'
  BY <1>1, CallsAsBefore DEF UnchangedByUser
<1>12. editing' \in [Browsers -> BOOLEAN]
  BY DEF IInv, Flags
<1> QED BY <1>1, <1>2, <1>9, <1>10, <1>11, <1>12, UserStep DEF old

LEMMA StepAddBlock ==
  ASSUME IInv, NEW b \in Browsers, AddBlock(b)
  PROVE  Goal
<1> USE DEF AddBlock
<1> DEFINE old == holder[b]
           doc == [at |-> time + 1, owner |-> user[b], kind |-> "block"]
           new == [doc |-> doc, fetched |-> time + 1, dirty |-> FALSE]
           blocks == [i \in DOMAIN old.blocks \cup {time + 1} |->
                        IF i = time + 1 THEN new ELSE old.blocks[i]]
           h == [old EXCEPT !.blocks = blocks]
<1>1. time' = time + 1 /\ time' \in Times /\ time' \in Nat /\ time <= time' /\ time \in Nat
  BY TimePasses
<1>2. holder' = [holder EXCEPT ![b] = h]
  BY DEF IInv, Holders
<1>3. /\ old.epoch # 0
      /\ HolderOK(old, user[b], time) /\ HolderOK(old, user[b], time')
  BY <1>1, HolderNow, HolderLater DEF Active
<1>4. /\ IsTable(old.blocks, Block) /\ DOMAIN old.crons \subseteq DOMAIN old.blocks
      /\ \A j \in DOMAIN old.blocks : /\ old.blocks[j] \in Block
                                      /\ old.blocks[j].doc.owner = user[b]
                                      /\ old.blocks[j].doc.at <= time
                                      /\ old.blocks[j].doc.at \in Nat
  BY <1>3, HolderParts, BlockParts DEF HolderOK, IsTable
<1>5. new \in Block /\ new.doc.at = time' /\ new.doc.owner = user[b]
  <2>1. user[b] \in Accounts
    BY DEF IInv, Flags
  <2> QED BY <1>1, <2>1 DEF Block, Version
<1> HIDE DEF new
<1>6. /\ IsTable(blocks, Block) /\ DOMAIN old.blocks \subseteq DOMAIN blocks
      /\ \A j \in DOMAIN blocks : blocks[j].doc.owner = user[b] /\ blocks[j].doc.at <= time'
      /\ \A j \in DOMAIN old.blocks : blocks[j].doc.at >= old.blocks[j].doc.at
  BY <1>1, <1>4, <1>5 DEF IsTable
<1>7. h = [old EXCEPT !.blocks = blocks]
  OBVIOUS
<1> HIDE DEF blocks, h, old
<1>8. /\ HolderOK(h, user[b], time')
      /\ h.epoch = old.epoch /\ h.opened = old.opened /\ h.blocks = blocks
  BY <1>3, <1>4, <1>6, <1>7, BlocksOK
<1>9. \A j \in DOMAIN old.blocks : Forward(b, h, j)
  BY <1>6, <1>8 DEF Forward, old
<1>10. Calls'
  BY <1>1, CallsAsBefore DEF UnchangedByUser
<1>11. editing' \in [Browsers -> BOOLEAN]
  BY DEF IInv, Flags
<1> QED BY <1>1, <1>2, <1>8, <1>9, <1>10, <1>11, UserStep DEF old

\* What a browser sends of the blocks it shows.
LEMMA BlockSent ==
  ASSUME IInv, NEW b \in Browsers, Active(b), NEW i \in DOMAIN holder[b].blocks,
         NEW kind \in Kinds, Send(b, kind, BlockDocs(holder[b], {i})), UnchangedByUser,
         time' = time
  PROVE  Calls'
<1> DEFINE sent == BlockDocs(holder[b], {i})
<1>1. IsTable(sent, Version) /\ Written(sent, user[b], time)
  BY HolderNow, DocsOK DEF Active
<1>2. Send(b, kind, sent) /\ UNCHANGED <<user, session, time>>
  BY DEF UnchangedByUser
<1> HIDE DEF sent
<1> QED BY <1>1, <1>2, CallsSent

LEMMA StepSave ==
  ASSUME IInv, NEW b \in Browsers, NEW i \in Times, Save(b, i)
  PROVE  Goal
<1> USE DEF Save
<1> DEFINE old == holder[b]
           new == [old.blocks[i] EXCEPT !.dirty = FALSE]
           blocks == [old.blocks EXCEPT ![i] = new]
           h == [old EXCEPT !.blocks = blocks]
<1>1. time' = time /\ time' \in Times /\ time' \in Nat /\ time <= time'
  BY TimePasses
<1>2. holder' = [holder EXCEPT ![b] = h]
  BY DEF IInv, Holders
<1>3. old.epoch # 0 /\ i \in DOMAIN old.blocks /\ HolderOK(old, user[b], time')
  BY <1>1, HolderNow DEF Active
<1>4. /\ IsTable(old.blocks, Block) /\ DOMAIN old.crons \subseteq DOMAIN old.blocks
      /\ \A j \in DOMAIN old.blocks : /\ old.blocks[j] \in Block
                                      /\ old.blocks[j].doc.owner = user[b]
                                      /\ old.blocks[j].doc.at <= time'
                                      /\ old.blocks[j].doc.at \in Nat
  BY <1>3, HolderParts, BlockParts DEF HolderOK, IsTable
<1>5. new \in Block /\ new.doc = old.blocks[i].doc
  BY <1>3, <1>4 DEF Block
<1> HIDE DEF new
<1>6. /\ IsTable(blocks, Block) /\ DOMAIN blocks = DOMAIN old.blocks
      /\ \A j \in DOMAIN blocks : /\ blocks[j].doc.owner = user[b]
                                  /\ blocks[j].doc.at <= time'
                                  /\ blocks[j].doc.at >= old.blocks[j].doc.at
  BY <1>1, <1>3, <1>4, <1>5 DEF IsTable
<1>7. h = [old EXCEPT !.blocks = blocks]
  OBVIOUS
<1> HIDE DEF blocks, h, old
<1>8. /\ HolderOK(h, user[b], time')
      /\ h.epoch = old.epoch /\ h.opened = old.opened /\ h.blocks = blocks
  BY <1>3, <1>4, <1>6, <1>7, BlocksOK
<1>9. \A j \in DOMAIN old.blocks : Forward(b, h, j)
  BY <1>6, <1>8 DEF Forward, old
<1>10. Calls'
  <2>1. CASE MaySend(b)
    <3>1. "save" \in Kinds
      BY DEF Kinds
    <3> QED BY <2>1, <3>1, BlockSent
  <2>2. CASE ~MaySend(b)
    BY <1>1, <2>2, CallsAsBefore DEF UnchangedByUser
  <2> QED BY <2>1, <2>2
<1>11. editing' \in [Browsers -> BOOLEAN]
  BY DEF IInv, Flags
<1> QED BY <1>1, <1>2, <1>8, <1>9, <1>10, <1>11, UserStep DEF old

LEMMA StepTick ==
  ASSUME IInv, NEW b \in Browsers, NEW i \in Times, Tick(b, i) \/ Refresh(b, i)
  PROVE  Goal
<1> USE DEF Tick, Refresh
<1>1. time' = time /\ time' \in Times /\ time' \in Nat /\ time <= time'
  BY TimePasses
<1>2. PICK due \in SUBSET Times :
        holder' = [holder EXCEPT ![b] = [holder[b] EXCEPT !.due = due]]
  <2>1. holder[b].due \subseteq Times
    BY HolderNow, HolderParts
  <2> QED BY <2>1 DEF IInv, Holders
<1> DEFINE h == [holder[b] EXCEPT !.due = due]
<1>3. HolderOK(h, user[b], time') /\ Same(holder[b], h)
  <2>1. OtherDue(holder[b], h)
    BY DEF OtherDue
  <2> HIDE DEF h
  <2> QED BY <1>1, <2>1, HolderNow, DueOK
<1>4. holder' = [holder EXCEPT ![b] = h]
  BY <1>2
<1> HIDE DEF h
<1>5. \A j \in DOMAIN holder[b].blocks : Forward(b, h, j)
  BY <1>3, SameForward DEF Same
<1>6. Calls'
  <2>1. CASE UNCHANGED call
    BY <1>1, <2>1, CallsAsBefore DEF UnchangedByUser
  <2>2. CASE MaySend(b) /\ i \in DOMAIN holder[b].blocks /\ Refresh(b, i)
    <3>1. "get" \in Kinds
      BY DEF Kinds
    <3> QED BY <1>1, <2>2, <3>1, BlockSent DEF MaySend
  <2> QED BY <2>1, <2>2
<1>7. editing' \in [Browsers -> BOOLEAN]
  BY DEF IInv, Flags
<1> QED BY <1>1, <1>3, <1>4, <1>5, <1>6, <1>7, UserStep DEF Same

LEMMA StepStillHolder ==
  ASSUME IInv, NEW b \in Browsers,
         \/ StartEditing(b) \/ SaveAll(b) \/ Cancel(b)
         \/ \E i \in Times : Remove(b, i)
  PROVE  Goal
<1> USE DEF StartEditing, SaveAll, Cancel, Remove, EndEditing
<1>1. time' = time /\ time' \in Times /\ time' \in Nat /\ time <= time'
  BY TimePasses
<1>2. UnchangedByUser /\ holder' = holder
  BY DEF UnchangedByUser
<1>3. editing' \in [Browsers -> BOOLEAN]
  BY DEF IInv, Flags
<1>4. Calls'
  <2>1. CASE UNCHANGED call
    BY <1>1, <1>2, <2>1, CallsAsBefore DEF UnchangedByUser
  <2>2. ASSUME Active(b), NEW kind \in Kinds,
               NEW sent \in {AllDocs(holder[b]), EditedDocs(holder[b])}, Send(b, kind, sent)
        PROVE  Calls'
    <3>1. IsTable(sent, Version) /\ Written(sent, user[b], time)
      BY <2>2, HolderNow, DocsOK DEF Active
    <3> QED BY <1>1, <1>2, <2>2, <3>1, CallsSent DEF UnchangedByUser
  <2>3. ASSUME NEW i \in DOMAIN holder[b].blocks, MaySend(b),
               Send(b, "remove", BlockDocs(holder[b], {i}))
        PROVE  Calls'
    <3>1. "remove" \in Kinds
      BY DEF Kinds
    <3> QED BY <1>1, <1>2, <2>3, <3>1, BlockSent DEF MaySend
  <2>4. "saveAll" \in Kinds /\ "cancel" \in Kinds
    BY DEF Kinds
  <2> QED BY <2>1, <2>2, <2>3, <2>4
<1> QED BY <1>1, <1>2, <1>3, <1>4, SameHolderStep DEF UnchangedByUser

-----------------------------------------------------------------------------
(* The steps of the server and of its answers. *)

LEMMA ServerStep ==
  ASSUME IInv, UnchangedByServer, Calls', Stores', GoesBackBySaveAll
  PROVE  Goal
<1> USE DEF UnchangedByServer
<1>1. time' = time /\ time' \in Times /\ time' \in Nat /\ time <= time'
  BY TimePasses
<1>2. Flags' /\ Pages' /\ ShownHomeIsLive'
  BY DEF IInv, Flags, Pages, ShownHomeIsLive
<1>3. Holders' /\ GoesForward
  BY <1>1, HoldersKept
<1> QED BY <1>2, <1>3 DEF IInv, Goal

\* The server takes a call: it was sent under the account it is stored for.
LEMMA CallTaken ==
  ASSUME IInv, NEW s \in Slots, Reaches(s)
  PROVE  LET c == call[s]
         IN /\ CallOK(c, user[c.browser], session[c.browser], time) /\ IsCall(c)
            /\ c.browser \in Browsers /\ c.step = "sent" /\ c # None
            /\ Accepted(c) => /\ c.account \in Accounts /\ user[c.browser] = c.account
                              /\ Written(c.sent, c.account, time)
            /\ ~Accepted(c) => session[c.browser] = None
<1> DEFINE c == call[s]
<1>1. CallOK(c, user[c.browser], session[c.browser], time) /\ c.step = "sent" /\ c # None
  BY DEF IInv, Calls, Reaches
<1>2. IsCall(c) /\ c.browser \in Browsers /\ c.account \in Accounts \cup {None}
  BY <1>1, CallParts DEF CallOK
<1>3. session[c.browser] # None => session[c.browser] = c.account
  BY <1>1 DEF CallOK
<1>4. c.account # None => user[c.browser] = c.account /\ Written(c.sent, c.account, time)
  BY <1>1 DEF CallOK
<1> QED BY <1>1, <1>2, <1>3, <1>4 DEF Accepted

LEMMA StoreStep ==
  ASSUME IInv, NEW s \in Slots, Reaches(s), Accepted(call[s]),
         NEW S \in SUBSET DOMAIN call[s].sent,
         store' = [store EXCEPT ![call[s].account] =
                     StoreAfter(store[call[s].account], call[s], S)],
         time' = time, call'[s] # call[s]
  PROVE  Stores' /\ GoesBackBySaveAll
<1> DEFINE c == call[s]
           owner == c.account
           after == StoreAfter(store[owner], c, S)
<1>1. IsCall(c) /\ c.step = "sent" /\ c # None /\ owner \in Accounts
      /\ Written(c.sent, owner, time)
  BY CallTaken
<1>2. IsTable(store[owner], Version) /\ Written(store[owner], owner, time)
  BY <1>1 DEF IInv, Stores
<1>3. /\ IsTable(after, Version) /\ Written(after, owner, time)
      /\ \A i \in DOMAIN store[owner] :
           \/ i \in DOMAIN after /\ after[i].at >= store[owner][i].at
           \/ i \in S /\ c.kind = (IF i \in DOMAIN after THEN "saveAll" ELSE "remove")
  BY <1>1, <1>2, StoredOK
<1>4. store' = [store EXCEPT ![owner] = after]
  OBVIOUS
<1> HIDE DEF after
<1>5. store'[owner] = after /\ \A a \in Accounts \ {owner} : store'[a] = store[a]
  BY <1>1, <1>4 DEF IInv, Stores
<1>6. Stores'
  BY <1>3, <1>4, <1>5 DEF IInv, Stores
<1>7. ASSUME NEW a \in Accounts, NEW i \in DOMAIN store[a]
      PROVE  BackBy(a, i)
  <2>1. CASE a # owner
    <3>1. store'[a] = store[a] /\ store[a][i].at \in Nat
      BY <1>5, <2>1, Moments DEF IInv, Stores, IsTable, Version
    <3> QED BY <3>1 DEF BackBy
  <2>2. CASE a = owner
    BY <1>1, <1>3, <1>5, <2>2 DEF BackBy
  <2> QED BY <2>1, <2>2
<1> QED BY <1>6, <1>7 DEF GoesBackBySaveAll

LEMMA StepServe ==
  ASSUME IInv, NEW s \in Slots, Serve(s)
  PROVE  Goal
<1> USE DEF Serve
<1> DEFINE c == call[s]
           docs == store[c.account]
           answer == AnswerOf(docs, c)
           step == IF c.kind = "remove" /\ ~(DOMAIN c.sent \subseteq DOMAIN docs)
                   THEN "error" ELSE "ok"
<1>1. /\ UNCHANGED <<user, session, time>> /\ UnchangedByServer
      /\ step \in {"ok", "error", "auth"} /\ step # "auth"
  BY DEF UnchangedByServer
<1>2. Accepted(c) /\ c.account \in Accounts /\ user[c.browser] = c.account
  BY CallTaken
<1>3. IsTable(docs, Version) /\ Written(docs, c.account, time)
  BY <1>2 DEF IInv, Stores
<1>4. IsTable(answer, Version) /\ Written(answer, user[c.browser], time)
  BY <1>2, <1>3, AnswerOK
<1>5. Answered(s, step, answer)
  OBVIOUS
<1> HIDE DEF step, answer
<1>6. Calls' /\ call'[s] # call[s]
  BY <1>1, <1>4, <1>5, CallsAnswered
<1>7. Stores' /\ GoesBackBySaveAll
  BY <1>1, <1>6, StoreStep
<1> QED BY <1>1, <1>6, <1>7, ServerStep

LEMMA StepRefuse ==
  ASSUME IInv, NEW s \in Slots, Refuse(s)
  PROVE  Goal
<1> USE DEF Refuse
<1>1. UNCHANGED <<user, session, time>> /\ UnchangedByServer /\ store' = store
  BY DEF UnchangedByServer
<1>2. session[call[s].browser] = None
  BY CallTaken
<1>3. "auth" \in {"ok", "error", "auth"} /\ Answered(s, "auth", Nothing)
  OBVIOUS
<1>4. Calls'
  BY <1>1, <1>2, <1>3, NothingIsTable, CallsAnswered
<1>5. Stores' /\ GoesBackBySaveAll
  BY <1>1, TimePasses, StoresKept, StoresForward
<1> QED BY <1>1, <1>4, <1>5, ServerStep

LEMMA StepFail ==
  ASSUME IInv, NEW s \in Slots, Fail(s)
  PROVE  Goal
<1> USE DEF Fail
<1>1. UNCHANGED <<user, session, time>> /\ UnchangedByServer
  BY DEF UnchangedByServer
<1>2. "error" \in {"ok", "error", "auth"} /\ "error" # "auth" /\ Answered(s, "error", Nothing)
  OBVIOUS
<1>3. Calls' /\ call'[s] # call[s]
  BY <1>1, <1>2, NothingIsTable, CallsAnswered
<1>4. PICK S \in SUBSET DOMAIN call[s].sent :
        store' = [store EXCEPT ![call[s].account] =
                    StoreAfter(store[call[s].account], call[s], S)]
  OBVIOUS
<1>5. Stores' /\ GoesBackBySaveAll
  BY <1>1, <1>3, <1>4, StoreStep
<1> QED BY <1>1, <1>3, <1>5, ServerStep

\* An answer applied to the holder that asked for it.
LEMMA AppliedOK ==
  ASSUME IInv, NEW s \in Slots, call[s] # None,
         GenerationIsActive(holder[call[s].browser], call[s].epoch, call[s].generation),
         NEW h \in Applied(holder[call[s].browser], call[s])
  PROVE  LET b == call[s].browser
         IN /\ HolderOK(h, user[b], time)
            /\ h.epoch = holder[b].epoch /\ h.opened = holder[b].opened
            /\ \A i \in DOMAIN holder[b].blocks : Forward(b, h, i)
<1> DEFINE c == call[s]
           b == c.browser
           old == holder[b]
<1>1. CallOK(c, user[b], session[b], time)
  BY DEF IInv, Calls
<1>2. b \in Browsers /\ c.epoch # 0 /\ IsTable(c.answer, Version) /\ Written(c.answer, user[b], time)
  BY <1>1, CallParts DEF CallOK
<1>3. /\ HolderOK(old, user[b], time) /\ old.epoch # 0 /\ ~old.suspended /\ time \in Nat
  BY <1>2, HolderNow, TimePasses DEF GenerationIsActive
<1>4. ASSUME NEW links \in LinksAfter(old, c.answer), NEW refresh \in BOOLEAN,
             h = Retrieved(old, c.answer, links, refresh)
      PROVE  /\ HolderOK(h, user[b], time)
             /\ h.epoch = old.epoch /\ h.opened = old.opened
             /\ \A i \in DOMAIN old.blocks :
                  i \in DOMAIN h.blocks /\ h.blocks[i].doc.at >= old.blocks[i].doc.at
  BY <1>2, <1>3, <1>4, RetrievedOK
<1>5. ASSUME NEW ids, h = Removed(old, ids)
      PROVE  /\ HolderOK(h, user[b], time)
             /\ h.epoch = old.epoch /\ h.opened = old.opened
             /\ \A i \in DOMAIN old.blocks \ ids :
                  i \in DOMAIN h.blocks /\ h.blocks[i] = old.blocks[i]
  BY <1>3, <1>5, RemovedOK
<1>6. \A i \in DOMAIN old.blocks : old.blocks[i].doc.at \in Nat
  BY <1>3, HolderParts, BlockParts DEF HolderOK, IsTable
<1>7. CASE h = old
  BY <1>2, <1>3, <1>7, SameForward
<1>8. CASE c.step = "ok" /\ c.kind \in {"load", "cancel", "get"}
  <2>1. PICK links \in LinksAfter(old, c.answer) :
          h = Retrieved(old, c.answer, links, c.kind # "get")
    BY <1>8 DEF Applied
  <2>2. (c.kind # "get") \in BOOLEAN
    OBVIOUS
  <2>3. /\ HolderOK(h, user[b], time)
        /\ h.epoch = old.epoch /\ h.opened = old.opened
        /\ \A i \in DOMAIN old.blocks :
             i \in DOMAIN h.blocks /\ h.blocks[i].doc.at >= old.blocks[i].doc.at
    BY <1>4, <2>1, <2>2
  <2> QED BY <2>3 DEF Forward
<1>9. CASE c.step = "ok" /\ c.kind = "remove"
  <2>1. h = Removed(old, DOMAIN c.sent)
    BY <1>9 DEF Applied
  <2>2. /\ HolderOK(h, user[b], time)
        /\ h.epoch = old.epoch /\ h.opened = old.opened
        /\ \A i \in DOMAIN old.blocks \ DOMAIN c.sent :
             i \in DOMAIN h.blocks /\ h.blocks[i] = old.blocks[i]
    BY <1>5, <2>1
  <2>3. ASSUME NEW i \in DOMAIN old.blocks
        PROVE  Forward(b, h, i)
    <3>1. CASE i \in DOMAIN c.sent
      BY <1>9, <3>1 DEF Forward
    <3>2. CASE i \notin DOMAIN c.sent
      <4>1. h.blocks[i].doc.at >= old.blocks[i].doc.at
        BY <1>6, <2>2, <3>2
      <4> QED BY <2>2, <3>2, <4>1 DEF Forward
    <3> QED BY <3>1, <3>2
  <2> QED BY <2>2, <2>3
<1> QED BY <1>7, <1>8, <1>9 DEF Applied

LEMMA StepFinish ==
  ASSUME IInv, NEW s \in Slots, Finish(s)
  PROVE  Goal
<1> USE DEF Finish
<1> DEFINE c == call[s]
           b == c.browser
<1>1. time' = time /\ time' \in Times /\ time' \in Nat /\ time <= time'
  BY TimePasses
<1>2. CallOK(c, user[b], session[b], time) /\ c # None
  BY DEF IInv, Calls
<1>3. b \in Browsers /\ c.epoch # 0
  BY <1>2, CallParts DEF CallOK
<1>4. /\ UNCHANGED <<bound, store, session, home, leaving, rotating, loaded, suspends>>
      /\ rotating' \in [Browsers -> BOOLEAN] /\ loaded' \in [Browsers -> BOOLEAN]
      /\ suspends' \in [Browsers -> Nat]
  BY DEF IInv, Flags
<1>5. EditingAfter(c) \in [Browsers -> BOOLEAN]
  BY <1>3 DEF IInv, Flags, EditingAfter
<1>6. ASSUME call' = [call EXCEPT ![s] = None], user' = user
      PROVE  Calls'
  <2>1. DOMAIN call' = Slots /\ \A t \in Slots : call'[t] \in {None, call[t]}
    BY <1>6 DEF IInv, Calls
  <2> QED BY <1>1, <1>4, <1>6, <2>1, CallsKept
<1>7. CASE ~GenerationIsActive(holder[b], c.epoch, c.generation)
  <2>1. call' = [call EXCEPT ![s] = None] /\ editing' = EditingAfter(c) /\ UNCHANGED <<user, holder>>
    BY <1>7
  <2> QED BY <1>1, <1>4, <1>5, <1>6, <2>1, SameHolderStep
<1>8. CASE GenerationIsActive(holder[b], c.epoch, c.generation) /\ c.step # "auth"
  <2>1. PICK h \in Applied(holder[b], c) : holder' = [holder EXCEPT ![b] = h]
    BY <1>8 DEF IInv, Holders
  <2>2. call' = [call EXCEPT ![s] = None] /\ editing' = EditingAfter(c) /\ UNCHANGED user
    BY <1>8
  <2>3. /\ HolderOK(h, user[b], time')
        /\ h.epoch = holder[b].epoch /\ h.opened = holder[b].opened
        /\ \A i \in DOMAIN holder[b].blocks : Forward(b, h, i)
    BY <1>1, <1>2, <1>8, AppliedOK
  <2> HIDE DEF Finish, b, c
  <2> QED BY <1>1, <1>3, <1>4, <1>5, <1>6, <2>1, <2>2, <2>3, HolderStep
<1>9. CASE GenerationIsActive(holder[b], c.epoch, c.generation) /\ c.step = "auth"
  <2> DEFINE h == CloseInner(holder[b])
  <2>1. /\ user' = [user EXCEPT ![b] = None] /\ holder' = [holder EXCEPT ![b] = h]
        /\ call' = Cancelled(b, TRUE) /\ editing' = editing
    BY <1>9 DEF GenerationIsActive, CloseIf
  <2>2. HolderOK(h, user'[b], time') /\ h.epoch = 0 /\ h.opened = holder[b].opened
    BY <1>3, HolderNow, ClosedOK
  <2> HIDE DEF h
  <2>3. session[b] = None
    BY <1>2, <1>9 DEF CallOK
  <2>4. user'[b] = None /\ \A other \in Browsers \ {b} : user'[other] = user[other]
    BY <1>3, <2>1 DEF IInv, Flags
  <2>5. Flags'
    BY <1>3, <1>4, <2>1 DEF IInv, Flags
  <2>6. Holders' /\ GoesForward
    BY <1>1, <1>3, <2>1, <2>2, <2>4, ClosedForward, HolderAt
  <2>7. Calls'
    <3>1. TRUE \in BOOLEAN
      OBVIOUS
    <3> HIDE DEF Finish, b, c
    <3> QED BY <1>1, <1>3, <1>4, <2>1, <2>4, <3>1, CallsCancelled
  <2>8. Stores' /\ GoesBackBySaveAll
    BY <1>1, <1>4, StoresKept, StoresForward
  <2>9. holder'[b] = h /\ \A other \in Browsers \ {b} : holder'[other] = holder[other]
    BY <1>3, <2>1 DEF IInv, Holders
  <2>10. Pages' /\ ShownHomeIsLive'
    BY <1>4, <2>2, <2>3, <2>4, <2>9 DEF IInv, Pages, ShownHomeIsLive
  <2> QED BY <2>5, <2>6, <2>7, <2>8, <2>10 DEF IInv, Goal
<1> QED BY <1>7, <1>8, <1>9

-----------------------------------------------------------------------------
(* The invariant and what follows from it. *)

LEMMA AtFirst ==
  ASSUME Init
  PROVE  IInv
<1> USE DEF Init
<1>1. Flags
  BY Moments DEF Flags
<1>2. \A b \in Browsers : holder[b] = NewHolder
  OBVIOUS
<1>3. Holders
  BY <1>2, NewHolderOK DEF Holders
<1>4. Calls
  BY DEF Calls
<1>5. Stores
  BY SyncAssumption DEF Stores, Written
<1>6. Pages /\ ShownHomeIsLive
  BY <1>2, NewHolderOK DEF Pages, ShownHomeIsLive
<1> QED BY <1>1, <1>3, <1>4, <1>5, <1>6 DEF IInv

LEMMA EachStep ==
  ASSUME IInv, [Next]_vars
  PROVE  Goal
<1>1. CASE UNCHANGED vars
  BY <1>1, TimePasses, CallsAsBefore, SameHolderStep DEF vars, IInv, Flags
<1>2. ASSUME NEW b \in Browsers, NEW a \in Accounts, SignIn(b, a)
      PROVE  Goal
  BY <1>2, StepSignIn
<1>3. ASSUME NEW b \in Browsers,
             Mount(b) \/ Leave(b) \/ SignOut(b) \/ SignedOut(b) \/ Expire(b)
      PROVE  Goal
  BY <1>3, StepMount, StepLeave, StepSignOut, StepSignedOut, StepExpire
<1>4. ASSUME NEW b \in Browsers,
             \/ FirstLoad(b)
             \/ RotationStarts(b) \/ RotationEnds(b) \/ PendingRotation(b)
      PROVE  Goal
  BY <1>4, StepFirstLoad, StepSuspends
<1>5. ASSUME NEW b \in Browsers,
             StartEditing(b) \/ EditLinks(b) \/ AddBlock(b) \/ SaveAll(b) \/ Cancel(b)
      PROVE  Goal
  BY <1>5, StepStillHolder, StepEditLinks, StepAddBlock
<1>6. ASSUME NEW b \in Browsers, NEW i \in Times,
             \/ \E dirty \in BOOLEAN : EditBlock(b, i, dirty)
             \/ Save(b, i) \/ Remove(b, i) \/ Tick(b, i) \/ Refresh(b, i)
      PROVE  Goal
  BY <1>6, StepEditBlock, StepSave, StepStillHolder, StepTick
<1>7. ASSUME NEW s \in Slots, Serve(s) \/ Refuse(s) \/ Fail(s) \/ Finish(s)
      PROVE  Goal
  BY <1>7, StepServe, StepRefuse, StepFail, StepFinish
<1> QED BY <1>1, <1>2, <1>3, <1>4, <1>5, <1>6, <1>7 DEF Next

\* The invariant the theorems rest on: the key is that of the cookie, an open
\* holder and the calls sent from it hold what was written under the key, and
\* the server keeps what was written under each account.
THEOREM SyncInvariant == Spec => []IInv
<1>1. IInv /\ [Next]_vars => IInv'
  BY EachStep DEF Goal
<1> QED BY <1>1, AtFirst, PTL DEF Spec

\* Every variable keeps its type (module_holder.rs, home.rs).
THEOREM SyncTypes == Spec => []TypeOK
<1>1. IInv => TypeOK
  BY DEF IInv, Flags, Holders, HolderOK, Calls, CallOK, Stores, TypeOK
<1> QED BY <1>1, SyncInvariant, PTL

\* Nothing of the account before is shown or stored, whatever closed the
\* holder and however late an answer or a write arrives (lifecycle_close_inner,
\* on_cleanup, user_disconnected).
THEOREM ContentStays == Spec => []ContentStaysWithItsAccount
<1>1. IInv => ContentStaysWithItsAccount
  BY DEF IInv, Holders, HolderOK, Stores, Written, ContentStaysWithItsAccount
<1> QED BY <1>1, SyncInvariant, PTL

\* The crons of a browser are those of the blocks its open holder shows, and
\* tick while its network is not suspended (network_suspend_inner, add_cron).
THEOREM CronsFollow == Spec => []CronsFollowTheNetwork
<1>1. IInv => CronsFollowTheNetwork
  BY NothingIsTable DEF IInv, Holders, HolderOK, CronsFollowTheNetwork
<1> QED BY <1>1, SyncInvariant, PTL

\* The holder of the Home that is shown is open under the epoch of that Home
\* (lifecycle_closeIf).
THEOREM ShownHomeLives == Spec => []ShownHomeIsLive
<1>1. IInv => ShownHomeIsLive
  BY DEF IInv
<1> QED BY <1>1, SyncInvariant, PTL

\* No answer puts an older version of a block on the screen, and none takes
\* a block away that the server has not removed (ModulePositions::import).
THEOREM BlocksGoForward == Spec => ShownBlocksGoForward
<1>1. IInv /\ [Next]_vars =>
        [\A b \in Browsers :
           holder'[b].epoch = holder[b].epoch =>
             \A i \in DOMAIN holder[b].blocks :
               \/ /\ i \in DOMAIN holder'[b].blocks
                  /\ holder'[b].blocks[i].doc.at >= holder[b].blocks[i].doc.at
               \/ \E s \in Slots :
                    /\ call[s] # None /\ call[s].browser = b /\ call[s].kind = "remove"
                    /\ call[s].step = "ok" /\ i \in DOMAIN call[s].sent]_vars
  BY EachStep DEF Goal, GoesForward, Forward
<1> QED BY <1>1, SyncInvariant, PTL DEF Spec, ShownBlocksGoForward

\* A stored document goes back only when a whole page is saved, and disappears
\* only when it is removed (ModuleContent::update).
THEOREM StoredGoesForward == Spec => OnlySaveAllGoesBack
<1>1. IInv /\ [Next]_vars =>
        [\A a \in Accounts : \A i \in DOMAIN store[a] :
           \/ i \in DOMAIN store'[a] /\ store'[a][i].at >= store[a][i].at
           \/ \E s \in Slots :
                /\ call[s] # None /\ call[s].step = "sent" /\ call'[s] # call[s]
                /\ call[s].kind = IF i \in DOMAIN store'[a] THEN "saveAll" ELSE "remove"
                /\ i \in DOMAIN call[s].sent]_vars
  BY EachStep DEF Goal, GoesBackBySaveAll, BackBy
<1> QED BY <1>1, SyncInvariant, PTL DEF Spec, OnlySaveAllGoesBack

=============================================================================
