------------------------- MODULE TerminalProxy_proofs -------------------------
(***************************************************************************)
(* Proofs about TerminalProxy, for any number of messages and any window.  *)
(***************************************************************************)
EXTENDS TerminalProxy, SequenceTheorems, TLAPS

\* Every error in the channel is of a goroutine that has ended, and there is one
\* goroutine for each side.
ReportsInv ==
    /\ cp \in [Sides -> Places]
    /\ errc \in 0..2
    /\ errc > 0 => \E s \in Sides : cp[s] = "ended"
    /\ errc = 2 => \A s \in Sides : cp[s] = "ended"
    /\ handler \in {"start", "dialed"} => errc = 0 /\ \A s \in Sides : cp[s] = "none"

\* Steps of the goroutine of one side that do not report.
LEMMA Copying ==
  ASSUME ReportsInv, NEW s \in Sides, Read(s) \/ ReadFails(s) \/ Write(s) \/ WriteFails(s)
  PROVE  ReportsInv'
<1>1. PICK p \in {"reading", "writing", "failed"} : cp' = [cp EXCEPT ![s] = p]
  BY DEF Read, ReadFails, Write, WriteFails
<1>2. cp[s] \in {"reading", "writing"} /\ UNCHANGED <<handler, errc>>
  BY DEF Read, ReadFails, Write, WriteFails
<1>3. cp' \in [Sides -> Places] /\ \A t \in Sides : t # s => cp'[t] = cp[t]
  BY <1>1 DEF ReportsInv, Places
<1>4. errc # 2
  BY <1>2 DEF ReportsInv
<1> QED
  BY <1>2, <1>3, <1>4 DEF ReportsInv

\* A report adds one error and ends one goroutine.
LEMMA Reporting ==
  ASSUME ReportsInv, NEW s \in Sides, Report(s)
  PROVE  ReportsInv'
<1>1. /\ cp' \in [Sides -> Places] /\ cp'[s] = "ended"
      /\ \A t \in Sides : t # s => cp'[t] = cp[t]
  BY DEF ReportsInv, Report, Places
<1>2. errc' = errc + 1 /\ handler' = handler /\ cp[s] = "failed"
  BY DEF Report
<1>3. errc \in {0, 1}
  BY <1>2 DEF ReportsInv
<1>4. errc = 1 => \A t \in Sides : cp'[t] = "ended"
  BY <1>1, <1>2 DEF ReportsInv, Sides
<1> QED
  BY <1>1, <1>2, <1>3, <1>4 DEF ReportsInv

LEMMA ReportsAreInvariant == Spec => []ReportsInv
<1>1. Init => ReportsInv
  BY DEF Init, ReportsInv, Places
<1>2. ReportsInv /\ [Next]_vars => ReportsInv'
  <2> SUFFICES ASSUME ReportsInv, [Next]_vars PROVE ReportsInv'
    OBVIOUS
  <2>1. CASE UNCHANGED vars
    BY <2>1 DEF vars, goroutines, ReportsInv
  <2>2. CASE Refuse \/ UpgradeFails
    BY <2>2 DEF Refuse, UpgradeFails, goroutines, ReportsInv
  <2>3. ASSUME NEW what, NEW status, Dial(what, status) PROVE ReportsInv'
    BY <2>3 DEF Dial, goroutines, ReportsInv
  <2>4. CASE Upgrade
    BY <2>4 DEF Upgrade, ReportsInv, Places
  <2>5. CASE Return
    BY <2>5 DEF Return, goroutines, ReportsInv
  <2>6. ASSUME NEW s \in Sides, Copy(s) PROVE ReportsInv'
    BY <2>6, Copying, Reporting DEF Copy
  <2>7. ASSUME NEW s \in Sides, PeerSends(s) \/ PeerReceives(s) \/ PeerCloses(s)
        PROVE  ReportsInv'
    BY <2>7 DEF PeerSends, PeerReceives, PeerCloses, goroutines, ReportsInv
  <2>8. CASE Over
    BY <2>8, <2>1 DEF Over
  <2> QED
    BY <2>1, <2>2, <2>3, <2>4, <2>5, <2>6, <2>7, <2>8 DEF Next, ServeWS
<1> QED
  BY <1>1, <1>2, PTL DEF Spec

\* Two places in the channel are enough for two goroutines: neither is ever held up
\* by its report, even when the handler has taken the other one and gone.
THEOREM NoReportWaits == Spec => []ReportsNeverWait
<1>1. ReportsInv => ReportsNeverWait
  BY DEF ReportsInv, ReportsNeverWait, Reports
<1> QED
  BY <1>1, ReportsAreInvariant, PTL

-----------------------------------------------------------------------------
(* Types.                                                                  *)

\* A goroutine, or a peer, moves messages of one side.
LEMMA CopyTyped ==
  ASSUME TypeOK, ReportsNeverWait, NEW s \in Sides, Copy(s)
  PROVE  TypeOK'
<1> USE DEF TypeOK, Places, ends, wires
<1>1. Other(s) \in Sides
  BY DEF Other, Sides
<1>2. CASE Read(s)
  <2>1. inbox[s] \in Seq(Messages) /\ inbox[s] # <<>>
    BY <1>2 DEF Read
  <2>2. <<Head(inbox[s])>> \in Seq(Messages) /\ Tail(inbox[s]) \in Seq(Messages)
    BY <2>1, HeadTailProperties
  <2> QED
    BY <1>2, <2>2 DEF Read
<1>3. CASE ReadFails(s)
  BY <1>3 DEF ReadFails
<1>4. CASE Write(s)
  <2>1. outbox[Other(s)] \in Seq(Messages) /\ held[s] \in Seq(Messages)
    BY <1>1
  <2>2. outbox[Other(s)] \o held[s] \in Seq(Messages)
    BY <2>1, ConcatProperties
  <2>3. <<>> \in Seq(Messages)
    BY EmptySeq
  <2>4. outbox' \in [Sides -> Seq(Messages)]
    BY <1>4, <2>2 DEF Write
  <2>5. held' \in [Sides -> Seq(Messages)]
    BY <1>4, <2>3 DEF Write
  <2> QED
    BY <1>4, <2>4, <2>5 DEF Write
<1>5. CASE WriteFails(s)
  <2>1. <<>> \in Seq(Messages)
    BY EmptySeq
  <2> QED
    BY <1>5, <2>1 DEF WriteFails
<1>6. CASE Report(s)
  <2>1. errc' \in 0..2
    BY <1>6 DEF Report, Reports
  <2> QED
    BY <1>6, <2>1 DEF Report
<1> QED
  BY <1>2, <1>3, <1>4, <1>5, <1>6 DEF Copy

LEMMA PeerTyped ==
  ASSUME TypeOK, NEW s \in Sides, PeerSends(s) \/ PeerReceives(s) \/ PeerCloses(s)
  PROVE  TypeOK'
<1> USE DEF TypeOK, Places, ends, goroutines
<1>1. CASE PeerSends(s)
  <2>1. sent[s] + 1 \in Messages /\ sent[s] + 1 \in 0..MaxMessages
    BY <1>1, ProxyAssumption DEF PeerSends, Messages
  <2>2. Append(inbox[s], sent[s] + 1) \in Seq(Messages)
    BY <2>1, AppendProperties
  <2> QED
    BY <1>1, <2>1, <2>2 DEF PeerSends
<1>2. CASE PeerReceives(s)
  <2>1. outbox[s] \in Seq(Messages) /\ outbox[s] # <<>> /\ got[s] \in Seq(Messages)
    BY <1>2 DEF PeerReceives
  <2>2. Head(outbox[s]) \in Messages /\ Tail(outbox[s]) \in Seq(Messages)
    BY <2>1, HeadTailProperties
  <2>3. Append(got[s], Head(outbox[s])) \in Seq(Messages)
    BY <2>1, <2>2, AppendProperties
  <2> QED
    BY <1>2, <2>2, <2>3 DEF PeerReceives
<1>3. CASE PeerCloses(s)
  <2>1. <<>> \in Seq(Messages)
    BY EmptySeq
  <2>2. /\ [inbox EXCEPT ![s] = <<>>] \in [Sides -> Seq(Messages)]
        /\ [outbox EXCEPT ![s] = <<>>] \in [Sides -> Seq(Messages)]
    BY <2>1
  <2>3. inbox' \in [Sides -> Seq(Messages)] /\ outbox' \in [Sides -> Seq(Messages)]
    BY <1>3, <2>2 DEF PeerCloses
  <2> QED
    BY <1>3, <2>3 DEF PeerCloses
<1> QED
  BY <1>1, <1>2, <1>3

LEMMA HandlerTyped == ASSUME TypeOK, ServeWS PROVE TypeOK'
<1> USE DEF TypeOK, Places, ends, wires, goroutines
<1>1. CASE Refuse
  BY <1>1 DEF Refuse
<1>2. ASSUME NEW what, NEW status, Dial(what, status) PROVE TypeOK'
  BY <1>2 DEF Dial
<1>3. CASE Upgrade
  BY <1>3 DEF Upgrade
<1>4. CASE UpgradeFails
  BY <1>4 DEF UpgradeFails, CloseAll
<1>5. CASE Return
  <2>1. errc' \in 0..2
    BY <1>5 DEF Return
  <2> QED
    BY <1>5, <2>1 DEF Return, CloseAll
<1> QED
  BY <1>1, <1>2, <1>3, <1>4, <1>5 DEF ServeWS

LEMMA StepTyped == TypeOK /\ ReportsInv /\ [Next]_vars => TypeOK'
<1> SUFFICES ASSUME TypeOK, ReportsInv, [Next]_vars PROVE TypeOK'
  OBVIOUS
<1>1. CASE UNCHANGED vars
  BY <1>1 DEF vars, ends, wires, goroutines, TypeOK
<1>2. CASE Over
  BY <1>1, <1>2 DEF Over
<1>3. ReportsNeverWait
  BY DEF ReportsInv, ReportsNeverWait, Reports
<1> QED
  BY <1>1, <1>2, <1>3, CopyTyped, PeerTyped, HandlerTyped DEF Next

LEMMA StartTyped == Init => TypeOK
<1>1. <<>> \in Seq(Messages)
  BY EmptySeq
<1>2. 0 \in 0..MaxMessages
  BY ProxyAssumption
<1> QED
  BY <1>1, <1>2 DEF Init, TypeOK, Places

\* Every variable keeps its type.
THEOREM TypeCorrect == Spec => []TypeOK
  BY StartTyped, StepTyped, ReportsAreInvariant, PTL DEF Spec

-----------------------------------------------------------------------------
(* Order.                                                                  *)

\* The messages after the first n.
Follows(q, n) == \A i \in 1..Len(q) : q[i] = n + i

\* How many messages from s have got past the relay.
Passed(s) == Len(got[Other(s)]) + Len(outbox[Other(s)])

Alive(s) == peer[Other(s)] = "open" /\ cp[s] \in {"none", "reading", "writing"}

\* What is on its way from s: a part that has been lost is not followed by anything,
\* because what lost it has ended a peer or the goroutine.
Order(s) ==
    /\ Follows(got[Other(s)], 0)
    /\ Follows(outbox[Other(s)], Len(got[Other(s)]))
    /\ peer[Other(s)] = "closed" => outbox[Other(s)] = <<>>
    /\ Len(held[s]) = IF cp[s] = "writing" THEN 1 ELSE 0
    /\ Alive(s) =>
        /\ Follows(held[s], Passed(s))
        /\ Follows(inbox[s], Passed(s) + Len(held[s]))
        /\ peer[s] = "open" => Passed(s) + Len(held[s]) + Len(inbox[s]) = sent[s]
    /\ cp[s] \in {"failed", "ended"} =>
        \E e \in Sides : peer[e] = "closed" \/ conn[e] = "closed"

OrderInv == \A s \in Sides : Order(s)

\* Lengths are numbers, and there are two sides.
LEMMA Others ==
  ASSUME NEW s \in Sides
  PROVE  Other(s) \in Sides /\ Other(s) # s /\ Other(Other(s)) = s
         /\ Sides = {s, Other(s)}
  BY DEF Other, Sides

LEMMA Lengths ==
  ASSUME TypeOK, NEW s \in Sides
  PROVE  /\ Len(got[s]) \in Nat /\ Len(outbox[s]) \in Nat
         /\ Len(held[s]) \in Nat /\ Len(inbox[s]) \in Nat
         /\ sent[s] \in Nat
<1>1. /\ got[s] \in Seq(Messages) /\ outbox[s] \in Seq(Messages)
      /\ held[s] \in Seq(Messages) /\ inbox[s] \in Seq(Messages)
      /\ sent[s] \in 0..MaxMessages
  BY DEF TypeOK
<1>2. sent[s] \in Nat
  BY <1>1, ProxyAssumption
<1> QED
  BY <1>1, <1>2, LenProperties

LEMMA PassedIsNumber ==
  ASSUME TypeOK, NEW s \in Sides
  PROVE  Passed(s) \in Nat
<1>1. Other(s) \in Sides
  BY Others
<1>2. Len(got[Other(s)]) \in Nat /\ Len(outbox[Other(s)]) \in Nat
  BY <1>1, Lengths
<1>3. \A x, y \in Nat : x + y \in Nat
  OBVIOUS
<1> QED
  BY <1>2, <1>3, Zenon DEF Passed

\* Messages in order stay so when the first is taken, the next one is added, or those
\* that come next are.
LEMMA FollowsTail ==
  ASSUME NEW q \in Seq(Messages), NEW n \in Nat, q # <<>>, Follows(q, n)
  PROVE  /\ Head(q) = n + 1 /\ Head(q) \in Messages /\ Follows(Tail(q), n + 1)
         /\ Len(q) = Len(Tail(q)) + 1
<1>1. /\ Len(q) \in Nat /\ Len(q) # 0 /\ Len(Tail(q)) = Len(q) - 1
      /\ \A i \in 1..Len(Tail(q)) : Tail(q)[i] = q[i + 1]
      /\ Head(q) = q[1] /\ Head(q) \in Messages
  BY HeadTailProperties, LenProperties, EmptySeq
<1>2. \A i \in 1..Len(q) : q[i] = n + i
  BY DEF Follows
<1>3. Head(q) = n + 1
  BY <1>1, <1>2
<1>4. \A i \in 1..Len(Tail(q)) : Tail(q)[i] = (n + 1) + i
  BY <1>1, <1>2
<1> QED
  BY <1>1, <1>3, <1>4 DEF Follows

LEMMA FollowsConcat ==
  ASSUME NEW q \in Seq(Messages), NEW p \in Seq(Messages), NEW n \in Nat,
         Follows(q, n), Follows(p, n + Len(q))
  PROVE  Follows(q \o p, n) /\ Len(q \o p) = Len(q) + Len(p)
<1> DEFINE c == q \o p
<1>1. /\ Len(c) = Len(q) + Len(p)
      /\ \A i \in 1..Len(q) + Len(p) :
            c[i] = IF i <= Len(q) THEN q[i] ELSE p[i - Len(q)]
  BY ConcatProperties
<1>2. Len(q) \in Nat /\ Len(p) \in Nat
  BY LenProperties
<1> HIDE DEF c
<1>3. ASSUME NEW i \in 1..Len(c) PROVE c[i] = n + i
  <2>1. CASE i <= Len(q)
    BY <1>1, <1>2, <1>3, <2>1 DEF Follows
  <2>2. CASE ~(i <= Len(q))
    <3>1. i - Len(q) \in 1..Len(p) /\ c[i] = p[i - Len(q)]
      BY <1>1, <1>2, <1>3, <2>2
    <3>2. p[i - Len(q)] = (n + Len(q)) + (i - Len(q))
      BY <3>1 DEF Follows
    <3>3. (n + Len(q)) + (i - Len(q)) = n + i
      BY <1>1, <1>2
    <3> QED
      BY <3>1, <3>2, <3>3
  <2> QED
    BY <2>1, <2>2
<1>4. Follows(c, n)
  BY <1>3 DEF Follows
<1> QED
  BY <1>1, <1>4 DEF c

LEMMA FollowsOne ==
  ASSUME NEW n \in Nat
  PROVE  Follows(<<n + 1>>, n) /\ Len(<<n + 1>>) = 1
  BY DEF Follows

LEMMA FollowsAppend ==
  ASSUME NEW q \in Seq(Messages), NEW n \in Nat, NEW e \in Messages,
         Follows(q, n), e = n + Len(q) + 1
  PROVE  Follows(Append(q, e), n) /\ Len(Append(q, e)) = Len(q) + 1
<1>1. Append(q, e) = q \o <<e>> /\ <<e>> \in Seq(Messages) /\ Len(q) \in Nat
  BY AppendIsConcat, LenProperties
<1>2. Follows(<<e>>, n + Len(q)) /\ Len(<<e>>) = 1
  BY <1>1, FollowsOne
<1> QED
  BY <1>1, <1>2, FollowsConcat

\* A message is read: it moves from the inbox to the goroutine.
LEMMA Reading ==
  ASSUME TypeOK, OrderInv, NEW s \in Sides, Read(s)
  PROVE  OrderInv'
<1> DEFINE d == Other(s)
<1>1. /\ UNCHANGED <<peer, conn, outbox, got, sent>>
      /\ cp[s] = "reading" /\ cp'[s] = "writing" /\ cp'[d] = cp[d]
      /\ held'[s] = <<Head(inbox[s])>> /\ held'[d] = held[d]
      /\ inbox[s] # <<>> /\ inbox'[s] = Tail(inbox[s]) /\ inbox'[d] = inbox[d]
  BY Others DEF Read, ends, TypeOK
<1>2. Order(d)'
  <2>1. Order(d) /\ Other(d) = s
    BY Others DEF OrderInv
  <2> QED
    BY <1>1, <2>1 DEF Order, Alive, Passed
<1>3. Order(s)'
  <2>1. Order(s) /\ Len(held[s]) = 0 /\ Len(held'[s]) = 1
    BY <1>1 DEF OrderInv, Order
  <2>2. /\ Passed(s)' = Passed(s) /\ (Alive(s)' <=> Alive(s))
        /\ Passed(s) \in Nat /\ inbox[s] \in Seq(Messages)
    BY <1>1, PassedIsNumber DEF Passed, Alive, TypeOK
  <2>3. ASSUME Alive(s)
        PROVE  /\ Follows(held'[s], Passed(s))
               /\ Follows(inbox'[s], Passed(s) + Len(held'[s]))
               /\ peer'[s] = "open" =>
                    Passed(s) + Len(held'[s]) + Len(inbox'[s]) = sent'[s]
    <3>1. Follows(inbox[s], Passed(s) + 0)
      BY <2>1, <2>3 DEF Order
    <3>2. peer[s] = "open" => Passed(s) + 0 + Len(inbox[s]) = sent[s]
      BY <2>1, <2>3 DEF Order
    <3>3. Passed(s) + 0 = Passed(s)
      BY <2>2
    <3>4. /\ Head(inbox[s]) = Passed(s) + 1
          /\ Follows(inbox'[s], Passed(s) + 1)
          /\ Len(inbox[s]) = Len(inbox'[s]) + 1
      BY <1>1, <2>2, <3>1, <3>3, FollowsTail
    <3>5. Follows(held'[s], Passed(s))
      BY <1>1, <2>2, <3>4, FollowsOne
    <3>6. Len(inbox'[s]) \in Nat
      BY <1>1, <2>2, HeadTailProperties, LenProperties
    <3>7. peer'[s] = "open" => Passed(s) + 1 + Len(inbox'[s]) = sent'[s]
      BY <1>1, <2>2, <3>2, <3>4, <3>6
    <3> QED
      BY <2>1, <3>4, <3>5, <3>7
  <2> QED
    BY <1>1, <2>1, <2>2, <2>3 DEF Order
<1> QED
  BY <1>2, <1>3, Others DEF OrderInv

\* It is written: it moves on to the outbox, or is lost with the peer.
LEMMA Writing ==
  ASSUME TypeOK, OrderInv, NEW s \in Sides, Write(s)
  PROVE  OrderInv'
<1> DEFINE d == Other(s)
<1>1. /\ UNCHANGED <<peer, conn, inbox, got, sent>>
      /\ cp[s] = "writing" /\ cp'[s] = "reading" /\ cp'[d] = cp[d]
      /\ held'[s] = <<>> /\ held'[d] = held[d]
      /\ outbox'[s] = outbox[s]
  BY Others DEF Write, ends, TypeOK
<1>2. Order(d)'
  <2>1. Order(d) /\ Other(d) = s
    BY Others DEF OrderInv
  <2> QED
    BY <1>1, <2>1 DEF Order, Alive, Passed
<1>3. Order(s)'
  <2>1. Order(s) /\ Len(held[s]) = 1 /\ Len(held'[s]) = 0
    BY <1>1, EmptySeq DEF OrderInv, Order
  <2>2. CASE peer[d] = "closed" /\ outbox' = outbox
    <3>1. ~Alive(s)'
      BY <1>1, <2>2 DEF Alive
    <3> QED
      BY <1>1, <2>1, <2>2, <3>1 DEF Order
  <2>3. CASE peer[d] = "open" /\ outbox' = [outbox EXCEPT ![d] = @ \o held[s]]
    <3>1. /\ outbox[d] \in Seq(Messages) /\ held[s] \in Seq(Messages)
          /\ outbox'[d] = outbox[d] \o held[s]
          /\ Len(outbox[d]) \in Nat /\ Len(got[d]) \in Nat /\ Len(inbox[s]) \in Nat
          /\ Passed(s) = Len(got[d]) + Len(outbox[d])
      BY <2>3, Others, Lengths DEF TypeOK, Passed
    <3>2. Alive(s)
      BY <1>1, <2>3 DEF Alive
    <3>3. /\ Follows(outbox[d], Len(got[d])) /\ Follows(held[s], Passed(s))
          /\ Follows(inbox[s], Passed(s) + 1)
          /\ peer[s] = "open" => Passed(s) + 1 + Len(inbox[s]) = sent[s]
      BY <2>1, <3>2 DEF Order
    <3>4. Follows(outbox'[d], Len(got[d])) /\ Len(outbox'[d]) = Len(outbox[d]) + 1
      BY <2>1, <3>1, <3>3, FollowsConcat
    <3>5. Passed(s)' = Len(got[d]) + (Len(outbox[d]) + 1)
      BY <1>1, <3>4 DEF Passed
    <3>6. Passed(s)' + 0 = Passed(s) + 1
      <4>1. \A x, y \in Nat : x + (y + 1) + 0 = x + y + 1
        OBVIOUS
      <4> QED
        BY <3>1, <3>5, <4>1, Zenon
    <3>7. Follows(held'[s], Passed(s)')
      BY <2>1 DEF Follows
    <3>8. Follows(inbox'[s], Passed(s)' + 0)
      BY <1>1, <3>3, <3>6
    <3>9. peer'[s] = "open" => Passed(s)' + 0 + Len(inbox'[s]) = sent'[s]
      BY <1>1, <3>3, <3>6
    <3>10. Follows(got'[d], 0) /\ Follows(outbox'[d], Len(got'[d])) /\ peer'[d] # "closed"
      BY <1>1, <2>1, <2>3, <3>4 DEF Order
    <3> QED
      BY <1>1, <2>1, <3>7, <3>8, <3>9, <3>10 DEF Order
  <2> QED
    BY <2>2, <2>3 DEF Write
<1> QED
  BY <1>2, <1>3, Others DEF OrderInv

\* The goroutine fails, since a connection or a peer has ended, or reports.
LEMMA Ending ==
  ASSUME TypeOK, OrderInv, NEW s \in Sides, ReadFails(s) \/ WriteFails(s) \/ Report(s)
  PROVE  OrderInv'
<1> DEFINE d == Other(s)
<1>1. /\ UNCHANGED <<peer, conn, inbox, outbox, got, sent>>
      /\ cp'[s] \in {"failed", "ended"} /\ cp'[d] = cp[d]
      /\ held'[d] = held[d]
      /\ (cp[s] # "writing" /\ held' = held) \/ held'[s] = <<>>
  BY Others DEF ReadFails, WriteFails, Report, ends, wires, TypeOK
<1>2. \E e \in Sides : peer[e] = "closed" \/ conn[e] = "closed"
  BY Others DEF ReadFails, WriteFails, Report, OrderInv, Order
<1>3. Order(d)'
  <2>1. Order(d) /\ Other(d) = s
    BY Others DEF OrderInv
  <2> QED
    BY <1>1, <2>1 DEF Order, Alive, Passed
<1>4. Order(s)'
  <2>1. Order(s) /\ Len(held'[s]) = 0
    BY <1>1, EmptySeq DEF OrderInv, Order
  <2>2. ~Alive(s)'
    BY <1>1 DEF Alive
  <2> QED
    BY <1>1, <1>2, <2>1, <2>2 DEF Order
<1> QED
  BY <1>3, <1>4, Others DEF OrderInv

\* A peer sends: its message comes after everything that is under way.
LEMMA Sending ==
  ASSUME TypeOK, OrderInv, NEW s \in Sides, PeerSends(s)
  PROVE  OrderInv'
<1> DEFINE d == Other(s)
<1>1. /\ UNCHANGED <<peer, conn, outbox, got, cp, held>>
      /\ peer[s] = "open"
      /\ sent'[s] = sent[s] + 1 /\ sent'[d] = sent[d]
      /\ inbox'[s] = Append(inbox[s], sent[s] + 1) /\ inbox'[d] = inbox[d]
  BY Others DEF PeerSends, ends, goroutines, TypeOK
<1>2. Order(d)'
  <2>1. Order(d) /\ Other(d) = s
    BY Others DEF OrderInv
  <2> QED
    BY <1>1, <2>1 DEF Order, Alive, Passed
<1>3. Order(s)'
  <2>1. Order(s)
    BY DEF OrderInv
  <2>2. /\ Passed(s)' = Passed(s) /\ (Alive(s)' <=> Alive(s))
        /\ Passed(s) \in Nat /\ Len(held[s]) \in Nat /\ Len(inbox[s]) \in Nat
    BY <1>1, PassedIsNumber, Lengths DEF Passed, Alive
  <2>3. inbox[s] \in Seq(Messages) /\ sent[s] + 1 \in Messages
    BY ProxyAssumption DEF TypeOK, PeerSends, Messages
  <2>4. ASSUME Alive(s)
        PROVE  /\ Follows(inbox'[s], Passed(s) + Len(held[s]))
               /\ Passed(s) + Len(held[s]) + Len(inbox'[s]) = sent'[s]
    <3> DEFINE n == Passed(s) + Len(held[s])
    <3>1. Follows(inbox[s], n) /\ n + Len(inbox[s]) = sent[s]
      BY <1>1, <2>1, <2>4 DEF Order
    <3>2. n \in Nat
      BY <2>2
    <3> HIDE DEF n
    <3>3. sent[s] + 1 = n + Len(inbox[s]) + 1
      BY <3>1
    <3>4. Follows(inbox'[s], n) /\ Len(inbox'[s]) = Len(inbox[s]) + 1
      BY <1>1, <2>3, <3>1, <3>2, <3>3, FollowsAppend
    <3>5. n + Len(inbox'[s]) = sent'[s]
      BY <1>1, <2>2, <3>1, <3>2, <3>4
    <3> QED
      BY <3>4, <3>5 DEF n
  <2> QED
    BY <1>1, <2>1, <2>2, <2>4 DEF Order
<1> QED
  BY <1>2, <1>3, Others DEF OrderInv

\* A peer receives: what it gets is the next one.
LEMMA Receiving ==
  ASSUME TypeOK, OrderInv, NEW d \in Sides, PeerReceives(d)
  PROVE  OrderInv'
<1> DEFINE s == Other(d)
<1>1. /\ UNCHANGED <<peer, conn, inbox, sent, cp, held>>
      /\ outbox[d] # <<>> /\ outbox'[d] = Tail(outbox[d]) /\ outbox'[s] = outbox[s]
      /\ got'[d] = Append(got[d], Head(outbox[d])) /\ got'[s] = got[s]
      /\ peer[d] = "open"
  BY Others DEF PeerReceives, ends, goroutines, TypeOK
<1>2. Order(d)'
  <2>1. Order(d)
    BY DEF OrderInv
  <2> QED
    BY <1>1, <2>1 DEF Order, Alive, Passed
<1>3. Order(s)'
  <2>1. Order(s) /\ Other(s) = d
    BY Others DEF OrderInv
  <2>2. /\ outbox[d] \in Seq(Messages) /\ got[d] \in Seq(Messages)
        /\ Len(got[d]) \in Nat /\ Len(outbox'[d]) \in Nat
    <3>1. outbox[d] \in Seq(Messages) /\ got[d] \in Seq(Messages)
      BY DEF TypeOK
    <3> QED
      BY <1>1, <3>1, Lengths, HeadTailProperties, LenProperties
  <2>3. Follows(got[d], 0) /\ Follows(outbox[d], Len(got[d]))
    BY <2>1 DEF Order
  <2>4. /\ Head(outbox[d]) = Len(got[d]) + 1 /\ Head(outbox[d]) \in Messages
        /\ Follows(outbox'[d], Len(got[d]) + 1)
        /\ Len(outbox[d]) = Len(outbox'[d]) + 1
    BY <1>1, <2>2, <2>3, FollowsTail
  <2>5. Follows(got'[d], 0) /\ Len(got'[d]) = Len(got[d]) + 1
    <3>1. Head(outbox[d]) = 0 + Len(got[d]) + 1 /\ 0 \in Nat
      BY <2>2, <2>4
    <3> QED
      BY <1>1, <2>2, <2>3, <2>4, <3>1, FollowsAppend
  <2>6. Follows(outbox'[d], Len(got'[d]))
    BY <2>4, <2>5
  <2>7. Passed(s)' = Passed(s) /\ (Alive(s)' <=> Alive(s))
    <3>1. /\ Passed(s) = Len(got[d]) + Len(outbox[d])
          /\ Passed(s)' = Len(got'[d]) + Len(outbox'[d])
      BY <2>1 DEF Passed
    <3>2. Passed(s)' = Passed(s)
      <4>1. \A x, y \in Nat : (x + 1) + y = x + (y + 1)
        OBVIOUS
      <4> QED
        BY <2>2, <2>4, <2>5, <3>1, <4>1, Zenon
    <3> QED
      BY <1>1, <2>1, <3>2 DEF Alive
  <2> QED
    BY <1>1, <2>1, <2>5, <2>6, <2>7 DEF Order
<1> QED
  BY <1>2, <1>3, Others DEF OrderInv

\* A peer ends.
LEMMA Closing ==
  ASSUME TypeOK, OrderInv, NEW e \in Sides, PeerCloses(e)
  PROVE  OrderInv'
<1> DEFINE s == Other(e)
<1>1. /\ UNCHANGED <<conn, sent, got, cp, held>>
      /\ peer'[e] = "closed" /\ peer'[s] = peer[s]
      /\ outbox'[e] = <<>> /\ outbox'[s] = outbox[s]
      /\ inbox'[e] \in {inbox[e], <<>>} /\ inbox'[s] = inbox[s]
  BY Others DEF PeerCloses, goroutines, TypeOK
<1>2. Order(e)'
  <2>1. Order(e)
    BY DEF OrderInv
  <2>2. Follows(<<>>, Passed(e) + Len(held[e]))
    BY EmptySeq DEF Follows
  <2>3. Passed(e)' = Passed(e) /\ (Alive(e)' <=> Alive(e))
    BY <1>1 DEF Passed, Alive
  <2>4. Alive(e) => Follows(inbox'[e], Passed(e) + Len(held[e]))
    BY <1>1, <2>1, <2>2 DEF Order
  <2> QED
    BY <1>1, <2>1, <2>3, <2>4 DEF Order
<1>3. Order(s)'
  <2>1. Order(s) /\ Other(s) = e
    BY Others DEF OrderInv
  <2>2. ~Alive(s)'
    BY <1>1, <2>1 DEF Alive
  <2>3. Follows(<<>>, Len(got[e]))
    BY EmptySeq DEF Follows
  <2> QED
    BY <1>1, <2>1, <2>2, <2>3 DEF Order
<1> QED
  BY <1>2, <1>3, Others DEF OrderInv

\* The handler leaves what is under way alone, and starts with nothing.
LEMMA Serving ==
  ASSUME TypeOK, ReportsInv, OrderInv, ServeWS
  PROVE  OrderInv'
<1>1. CASE Refuse \/ Return \/ UpgradeFails
  <2>1. /\ UNCHANGED <<peer, wires, goroutines>>
        /\ \A e \in Sides : conn[e] = "closed" => conn'[e] = "closed"
    BY <1>1 DEF Refuse, Return, UpgradeFails, CloseAll, ends
  <2>2. ASSUME NEW s \in Sides PROVE Order(s)'
    BY <2>1 DEF OrderInv, Order, Alive, Passed, wires, goroutines
  <2> QED
    BY <2>2 DEF OrderInv
<1>2. ASSUME NEW what, NEW status, Dial(what, status) PROVE OrderInv'
  <2>1. /\ UNCHANGED <<peer, wires, goroutines>>
        /\ \A e \in Sides : cp[e] = "none"
    BY <1>2 DEF Dial, ReportsInv
  <2>2. ASSUME NEW s \in Sides PROVE Order(s)'
    BY <2>1 DEF OrderInv, Order, Alive, Passed, wires, goroutines
  <2> QED
    BY <2>2 DEF OrderInv
<1>3. CASE Upgrade
  <2>1. /\ UNCHANGED <<peer, wires, held>>
        /\ \A e \in Sides : cp[e] = "none" /\ cp'[e] = "reading"
    BY <1>3 DEF Upgrade, ReportsInv
  <2>2. ASSUME NEW s \in Sides PROVE Order(s)'
    BY <2>1 DEF OrderInv, Order, Alive, Passed, wires
  <2> QED
    BY <2>2 DEF OrderInv
<1> QED
  BY <1>1, <1>2, <1>3 DEF ServeWS

LEMMA StepOrdered == TypeOK /\ ReportsInv /\ OrderInv /\ [Next]_vars => OrderInv'
<1> SUFFICES ASSUME TypeOK, ReportsInv, OrderInv, [Next]_vars PROVE OrderInv'
  OBVIOUS
<1>1. CASE UNCHANGED vars
  <2>1. ASSUME NEW s \in Sides PROVE Order(s)'
    BY <1>1 DEF vars, ends, wires, goroutines, OrderInv, Order, Alive, Passed
  <2> QED
    BY <2>1 DEF OrderInv
<1>2. CASE Over
  BY <1>1, <1>2 DEF Over
<1>3. ASSUME NEW s \in Sides, Copy(s) PROVE OrderInv'
  BY <1>3, Reading, Writing, Ending DEF Copy
<1> QED
  BY <1>1, <1>2, <1>3, Serving, Sending, Receiving, Closing DEF Next

LEMMA StartOrdered == Init => OrderInv
<1> SUFFICES ASSUME Init, NEW s \in Sides PROVE Order(s)
  BY DEF OrderInv
<1>1. Other(s) \in Sides
  BY Others
<1>2. \A n \in Nat : Follows(<<>>, n) /\ Len(<<>>) = 0
  BY EmptySeq DEF Follows
<1>3. /\ got[Other(s)] = <<>> /\ outbox[Other(s)] = <<>> /\ held[s] = <<>>
      /\ inbox[s] = <<>> /\ sent[s] = 0 /\ cp[s] = "none"
  BY <1>1 DEF Init
<1>4. Passed(s) = 0
  BY <1>2, <1>3 DEF Passed
<1> QED
  BY <1>2, <1>3, <1>4 DEF Order

LEMMA MessagesAreOrdered == Spec => []OrderInv
  BY StartOrdered, StepOrdered, TypeCorrect, ReportsAreInvariant, PTL DEF Spec

\* Messages in order are all messages up to the last.
LEMMA FollowsUpTo ==
  ASSUME NEW q \in Seq(Messages), Follows(q, 0)
  PROVE  q = UpTo(Len(q))
<1>1. Len(q) \in Nat /\ DOMAIN q = 1..Len(q) /\ q \in [1..Len(q) -> Messages]
  BY LenProperties
<1>2. \A i \in 1..Len(q) : q[i] = i
  BY <1>1 DEF Follows
<1> QED
  BY <1>1, <1>2 DEF UpTo

\* As long as nothing has ended, every message is on its way, once and in order; what an
\* end has received is always all that was sent up to some message.
THEOREM Ordered == Spec => []RelayedInOrder
<1>1. TypeOK /\ OrderInv => RelayedInOrder
  <2> SUFFICES ASSUME TypeOK, OrderInv, NEW s \in Sides
               PROVE  /\ got[s] = UpTo(Len(got[s]))
                      /\ (\A e \in Sides : /\ peer[e] = "open" /\ conn[e] = "open"
                                           /\ cp[e] # "failed")
                             => Pipe(s) = UpTo(sent[s])
    BY DEF RelayedInOrder
  <2>1. got[s] = UpTo(Len(got[s]))
    <3>1. Follows(got[s], 0)
      BY Others DEF OrderInv, Order
    <3> QED
      BY <3>1, FollowsUpTo DEF TypeOK
  <2>2. ASSUME \A e \in Sides : peer[e] = "open" /\ conn[e] = "open" /\ cp[e] # "failed"
        PROVE  Pipe(s) = UpTo(sent[s])
    <3> DEFINE g == got[Other(s)]  o == outbox[Other(s)]  h == held[s]  b == inbox[s]
    <3>1. /\ g \in Seq(Messages) /\ o \in Seq(Messages) /\ h \in Seq(Messages)
          /\ b \in Seq(Messages)
          /\ Len(g) \in Nat /\ Len(o) \in Nat /\ Len(h) \in Nat
      BY Others, Lengths DEF TypeOK
    <3>2. Order(s) /\ peer[s] = "open" /\ Passed(s) = Len(g) + Len(o)
      BY <2>2 DEF OrderInv, Passed
    <3>3. Alive(s)
      <4>1. cp[s] \notin {"failed", "ended"} /\ peer[Other(s)] = "open"
        BY <2>2, <3>2, Others DEF Order
      <4> QED
        BY <4>1 DEF Alive, TypeOK, Places
    <3>4. /\ Follows(g, 0) /\ Follows(o, Len(g)) /\ Follows(h, Len(g) + Len(o))
          /\ Follows(b, Len(g) + Len(o) + Len(h))
          /\ Len(g) + Len(o) + Len(h) + Len(b) = sent[s]
      BY <3>2, <3>3 DEF Order
    <3> DEFINE go == g \o o  goh == go \o h  all == goh \o b
    <3>5. Pipe(s) = all
      BY DEF Pipe
    <3> HIDE DEF g, o, h, b
    <3>6. \A x \in Nat : 0 + x = x
      OBVIOUS
    <3>7. go \in Seq(Messages) /\ Follows(go, 0) /\ Len(go) = Len(g) + Len(o)
      BY <3>1, <3>4, <3>6, FollowsConcat, ConcatProperties
    <3> HIDE DEF go
    <3>8. Len(go) \in Nat /\ Follows(h, 0 + Len(go))
      BY <3>4, <3>6, <3>7, LenProperties
    <3>9. goh \in Seq(Messages) /\ Follows(goh, 0) /\ Len(goh) = Len(go) + Len(h)
      BY <3>1, <3>7, <3>8, FollowsConcat, ConcatProperties
    <3> HIDE DEF goh
    <3>10. Len(goh) \in Nat /\ Follows(b, 0 + Len(goh))
      BY <3>4, <3>6, <3>7, <3>9, LenProperties
    <3>11. all \in Seq(Messages) /\ Follows(all, 0) /\ Len(all) = sent[s]
      <4>1. /\ all \in Seq(Messages) /\ Follows(all, 0)
            /\ Len(all) = Len(goh) + Len(b)
        BY <3>1, <3>9, <3>10, FollowsConcat, ConcatProperties
      <4> QED
        BY <3>4, <3>7, <3>9, <4>1
    <3> QED
      BY <3>4, <3>5, <3>11, FollowsUpTo
  <2> QED
    BY <2>1, <2>2
<1> QED
  BY <1>1, TypeCorrect, MessagesAreOrdered, PTL
-----------------------------------------------------------------------------
(* What EndsTogether rests on: nobody is forgotten.                        *)

\* The handler sees that a goroutine has ended, since the error is still in the channel; and
\* when it has returned it has left no connection open, so that a goroutine that still
\* copies finds both of its connections closed.
NobodyForgotten ==
    /\ handler = "copying" /\ (\E s \in Sides : cp[s] = "ended") => errc > 0
    /\ handler = "returned" =>
          \A s \in Sides : /\ conn[s] # "open"
                           /\ cp[s] # "none" => conn[s] = "closed"

\* The connections by where the handler stands.
ConnectionsInv ==
    /\ conn \in [Sides -> {"none", "open", "closed"}]
    /\ handler = "start" => \A s \in Sides : conn[s] = "none"
    /\ handler = "dialed" => conn["upstream"] = "open"
    /\ handler = "copying" => \A s \in Sides : conn[s] = "open"
    /\ NobodyForgotten

\* What the goroutines and the ends of the connections do.
LEMMA ConnectionsKept ==
  ASSUME ConnectionsInv, ReportsInv, NEW s \in Sides, UNCHANGED <<handler, conn>>,
         NEW p \in Places \ {"none"},
         cp' = cp \/ (cp[s] # "none" /\ cp' = [cp EXCEPT ![s] = p]),
         errc' = errc \/ errc' = errc + 1, p = "ended" => errc' = errc + 1
  PROVE  ConnectionsInv'
<1>1. errc \in Nat /\ cp \in [Sides -> Places]
  BY DEF ReportsInv
<1>2. \A t \in Sides : cp'[t] = "ended" => cp[t] = "ended" \/ errc' = errc + 1
  BY <1>1
<1>3. \A t \in Sides : cp'[t] # "none" => cp[t] # "none"
  BY <1>1
<1> QED
  BY <1>1, <1>2, <1>3 DEF ConnectionsInv, NobodyForgotten

\* The handler does not wait for an error it has missed, and what it leaves behind is closed,
\* whichever end goes first, whatever is lost and however late the second error comes.
THEOREM NobodyIsForgotten == Spec => []NobodyForgotten
<1>1. Init => ConnectionsInv
  BY DEF Init, ConnectionsInv, NobodyForgotten
<1>2. ASSUME ReportsInv, ConnectionsInv, [Next]_vars PROVE ConnectionsInv'
  <2> USE DEF ends, wires, goroutines
  <2>1. CASE UNCHANGED vars
    BY <1>2, <2>1 DEF vars, ConnectionsInv, NobodyForgotten
  <2>2. CASE \E what \in {"terminal", "shell", "browser"}, status \in Statuses :
                 Dial(what, status)
    BY <1>2, <2>2 DEF Dial, ConnectionsInv, NobodyForgotten, ReportsInv, Sides
  <2>3. CASE Refuse
    BY <1>2, <2>3 DEF Refuse, ConnectionsInv, NobodyForgotten, ReportsInv
  <2>4. CASE Upgrade
    <3>1. \A s \in Sides : conn'[s] = "open"
      BY <1>2, <2>4 DEF Upgrade, ConnectionsInv, ReportsInv, Sides
    <3>2. QED
      BY <1>2, <2>4, <3>1 DEF Upgrade, ConnectionsInv, NobodyForgotten
  <2>5. CASE UpgradeFails
    BY <1>2, <2>5 DEF UpgradeFails, CloseAll, ConnectionsInv, NobodyForgotten, ReportsInv
  <2>6. CASE Return
    BY <1>2, <2>6 DEF Return, CloseAll, ConnectionsInv, NobodyForgotten
  <2>7. ASSUME NEW s \in Sides, Copy(s) PROVE ConnectionsInv'
    <3>1. PICK p \in Places \ {"none"} :
             /\ cp[s] # "none" /\ cp' = [cp EXCEPT ![s] = p] /\ UNCHANGED <<handler, conn>>
             /\ errc' = errc \/ errc' = errc + 1
             /\ p = "ended" => errc' = errc + 1
      BY <2>7 DEF Copy, Read, ReadFails, Write, WriteFails, Report, Places
    <3>2. QED
      BY <1>2, <3>1, ConnectionsKept
  <2>8. ASSUME NEW s \in Sides, PeerSends(s) \/ PeerReceives(s) \/ PeerCloses(s)
        PROVE  ConnectionsInv'
    BY <1>2, <2>8 DEF PeerSends, PeerReceives, PeerCloses, ConnectionsInv, NobodyForgotten
  <2>9. CASE Over
    BY <2>1, <2>9 DEF Over
  <2>10. QED
    BY <1>2, <2>1, <2>2, <2>3, <2>4, <2>5, <2>6, <2>7, <2>8, <2>9 DEF Next, ServeWS
<1>3. ConnectionsInv => NobodyForgotten
  BY DEF ConnectionsInv
<1> QED
  BY <1>1, <1>2, <1>3, ReportsAreInvariant, PTL DEF Spec
=============================================================================
