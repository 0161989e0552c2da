---------------------------- MODULE TerminalProxy ----------------------------
(***************************************************************************)
(* One WebSocket that the lab server relays between a browser and a VM     *)
(* (internal/proxy/proxy.go, and the handlers of cmd/labserver/main.go     *)
(* that lead there): the terminals and the desktop.  Two goroutines copy   *)
(* messages, one in each direction, and the handler waits for the first of *)
(* them to fail.  Nothing but the end of one connection tells the relay    *)
(* that the other one is no longer of use.                                 *)
(***************************************************************************)
EXTENDS Naturals, Sequences

CONSTANTS
    MaxMessages,  \* messages each end sends
    Window        \* messages a connection takes in before its reader reads

ASSUME ProxyAssumption == MaxMessages \in Nat /\ Window \in Nat \ {0}

Sides == {"client", "upstream"}

Other(s) == IF s = "client" THEN "upstream" ELSE "client"

\* Mutant: the channel has room for the error the handler waits for.
ReportsOne == 1

\* The capacity of errc.
Reports == 2

\* Where a goroutine stands: it reads from one side, writes to the other, has an
\* error to report, or has ended.
Places == {"none", "reading", "writing", "failed", "ended"}

VARIABLES
    handler,  \* where proxyWS stands
    conn,     \* side -> the relay's end of the connection
    peer,     \* side -> the browser's or the VM's end of it
    inbox,    \* side -> messages on their way to the relay
    outbox,   \* side -> messages on their way from the relay
    cp,       \* side -> the goroutine that reads from that side
    held,     \* side -> the message that goroutine is about to write, if any
    errc,     \* the errors in the channel
    sent,     \* side -> messages that end has sent
    got       \* side -> messages that end has received

ends == <<conn, peer>>
wires == <<inbox, outbox, sent, got>>
goroutines == <<cp, held>>
vars == <<handler, ends, wires, goroutines, errc>>

Messages == 1..MaxMessages

TypeOK ==
    /\ handler \in {"start", "dialed", "copying", "returned"}
    /\ conn \in [Sides -> {"none", "open", "closed"}]
    /\ peer \in [Sides -> {"open", "closed"}]
    /\ inbox \in [Sides -> Seq(Messages)] /\ outbox \in [Sides -> Seq(Messages)]
    /\ cp \in [Sides -> Places]
    /\ held \in [Sides -> Seq(Messages)]
    /\ errc \in 0..2
    /\ sent \in [Sides -> 0..MaxMessages]
    /\ got \in [Sides -> Seq(Messages)]

Init ==
    /\ handler = "start"
    /\ conn = [s \in Sides |-> "none"] /\ peer = [s \in Sides |-> "open"]
    /\ inbox = [s \in Sides |-> <<>>] /\ outbox = [s \in Sides |-> <<>>]
    /\ cp = [s \in Sides |-> "none"] /\ held = [s \in Sides |-> <<>>]
    /\ errc = 0
    /\ sent = [s \in Sides |-> 0] /\ got = [s \in Sides |-> <<>>]

-----------------------------------------------------------------------------
(* The handler.                                                            *)

\* Mutant: the connection to the VM is left to the goroutines.
CloseClient == conn' = [conn EXCEPT !["client"] = IF @ = "open" THEN "closed" ELSE @]

\* The deferred calls of Close.
CloseAll == conn' = [s \in Sides |-> IF conn[s] = "open" THEN "closed" ELSE conn[s]]

\* The setup terminal is served while the VM is being set up, everything else
\* once the lab is ready.
Allowed(what, status) ==
    \/ status = "Ready"
    \/ what = "terminal" /\ status = "Running"

Statuses == {"Provisioning", "Running", "Ready", "Paused", "Expired"}

\* The connection to the VM comes first.
Dial(what, status) ==
    /\ handler = "start" /\ Allowed(what, status)
    /\ handler' = "dialed"
    /\ conn' = [conn EXCEPT !["upstream"] = "open"]
    /\ UNCHANGED <<peer, wires, goroutines, errc>>

\* The session is in no state to be connected to, or the VM does not answer.
Refuse ==
    /\ handler = "start" /\ handler' = "returned"
    /\ UNCHANGED <<ends, wires, goroutines, errc>>

Upgrade ==
    /\ handler = "dialed" /\ handler' = "copying"
    /\ conn' = [conn EXCEPT !["client"] = "open"]
    /\ cp' = [s \in Sides |-> "reading"]
    /\ UNCHANGED <<peer, wires, held, errc>>

\* The origin is another host, or the browser has gone away.
UpgradeFails ==
    /\ handler = "dialed" /\ handler' = "returned"
    /\ CloseAll
    /\ UNCHANGED <<peer, wires, goroutines, errc>>

\* <-errc: one error is enough.
Return ==
    /\ handler = "copying" /\ errc > 0
    /\ handler' = "returned" /\ errc' = errc - 1
    /\ CloseAll
    /\ UNCHANGED <<peer, wires, goroutines>>

-----------------------------------------------------------------------------
(* The goroutines.  Copy(s) reads from s and writes to the other side.     *)

\* A message that was already there is read even if the connection has ended.
Read(s) ==
    /\ cp[s] = "reading" /\ inbox[s] # <<>>
    /\ cp' = [cp EXCEPT ![s] = "writing"]
    /\ held' = [held EXCEPT ![s] = <<Head(inbox[s])>>]
    /\ inbox' = [inbox EXCEPT ![s] = Tail(@)]
    /\ UNCHANGED <<handler, ends, outbox, sent, got, errc>>

ReadFails(s) ==
    /\ cp[s] = "reading"
    /\ conn[s] = "closed" \/ (peer[s] = "closed" /\ inbox[s] = <<>>)
    /\ cp' = [cp EXCEPT ![s] = "failed"]
    /\ UNCHANGED <<handler, ends, wires, held, errc>>

\* Mutant: the message is counted as written when there is no room for it.
WriteOrDrop(s) ==
    LET d == Other(s) IN
    /\ cp[s] = "writing" /\ conn[d] = "open"
    /\ outbox' = [outbox EXCEPT ![d] = IF Len(@) < Window THEN @ \o held[s] ELSE @]
    /\ held' = [held EXCEPT ![s] = <<>>]
    /\ cp' = [cp EXCEPT ![s] = "reading"]
    /\ UNCHANGED <<handler, ends, inbox, sent, got, errc>>

\* A write waits for room.  One to an end that has gone may still succeed, and the
\* message is lost.
Write(s) ==
    LET d == Other(s) IN
    /\ cp[s] = "writing" /\ conn[d] = "open"
    /\ \/ /\ peer[d] = "open" /\ Len(outbox[d]) < Window
          /\ outbox' = [outbox EXCEPT ![d] = @ \o held[s]]
       \/ /\ peer[d] = "closed"
          /\ UNCHANGED outbox
    /\ held' = [held EXCEPT ![s] = <<>>]
    /\ cp' = [cp EXCEPT ![s] = "reading"]
    /\ UNCHANGED <<handler, ends, inbox, sent, got, errc>>

WriteFails(s) ==
    /\ cp[s] = "writing"
    /\ conn[Other(s)] = "closed" \/ peer[Other(s)] = "closed"
    /\ cp' = [cp EXCEPT ![s] = "failed"]
    /\ held' = [held EXCEPT ![s] = <<>>]
    /\ UNCHANGED <<handler, ends, wires, errc>>

Report(s) ==
    /\ cp[s] = "failed" /\ errc < Reports
    /\ cp' = [cp EXCEPT ![s] = "ended"] /\ errc' = errc + 1
    /\ UNCHANGED <<handler, ends, wires, held>>

Copy(s) ==
    Read(s) \/ ReadFails(s) \/ Write(s) \/ WriteFails(s) \/ Report(s)

-----------------------------------------------------------------------------
(* The browser and the program in the VM.                                  *)

PeerSends(s) ==
    /\ conn[s] = "open" /\ peer[s] = "open"
    /\ sent[s] < MaxMessages /\ Len(inbox[s]) < Window
    /\ sent' = [sent EXCEPT ![s] = @ + 1]
    /\ inbox' = [inbox EXCEPT ![s] = Append(@, sent[s] + 1)]
    /\ UNCHANGED <<handler, ends, outbox, got, goroutines, errc>>

PeerReceives(s) ==
    /\ peer[s] = "open" /\ outbox[s] # <<>>
    /\ got' = [got EXCEPT ![s] = Append(@, Head(outbox[s]))]
    /\ outbox' = [outbox EXCEPT ![s] = Tail(@)]
    /\ UNCHANGED <<handler, ends, inbox, sent, goroutines, errc>>

\* The tab is closed, the shell exits, the VM stops or the network fails.  What was
\* on its way to the relay may be lost with it.
PeerCloses(s) ==
    /\ conn[s] # "none" /\ peer[s] = "open"
    /\ peer' = [peer EXCEPT ![s] = "closed"]
    /\ outbox' = [outbox EXCEPT ![s] = <<>>]
    /\ inbox' \in {inbox, [inbox EXCEPT ![s] = <<>>]}
    /\ UNCHANGED <<handler, conn, sent, got, goroutines, errc>>

\* It has read everything and sees that the relay has closed the connection.
PeerSeesClose(s) == conn[s] = "closed" /\ outbox[s] = <<>> /\ PeerCloses(s)

Over ==
    /\ handler = "returned"
    /\ \A s \in Sides : /\ conn[s] = "none" \/ peer[s] = "closed"
                        /\ cp[s] \in {"none", "ended"}
    /\ UNCHANGED vars

ServeWS ==
    \/ \E what \in {"terminal", "shell", "browser"}, status \in Statuses :
           Dial(what, status)
    \/ Refuse \/ Upgrade \/ UpgradeFails \/ Return

Next ==
    \/ ServeWS
    \/ \E s \in Sides : Copy(s) \/ PeerSends(s) \/ PeerReceives(s) \/ PeerCloses(s)
    \/ Over

Spec == Init /\ [][Next]_vars

\* Goroutines run, and an end that is still there reads what it is sent: neither
\* connection has a deadline for writing, so a browser that stops reading and does
\* not go away holds up the goroutine that writes to it.  Nobody has to send or to
\* close anything.
Fairness ==
    /\ WF_vars(ServeWS)
    /\ \A s \in Sides :
           WF_vars(Copy(s)) /\ WF_vars(PeerReceives(s)) /\ WF_vars(PeerSeesClose(s))

FairSpec == Spec /\ Fairness

-----------------------------------------------------------------------------
(* Properties.                                                             *)

\* From the end that sent them to the end that is to receive them.
Pipe(s) == got[Other(s)] \o outbox[Other(s)] \o held[s] \o inbox[s]

UpTo(n) == [i \in 1..n |-> i]

\* cp: as long as nothing has ended, every message is on its way, once and in
\* order; and what an end has received is all that was sent up to some message,
\* even if the relay has ended.
RelayedInOrder ==
    \A s \in Sides :
        /\ got[s] = UpTo(Len(got[s]))
        /\ (\A t \in Sides : peer[t] = "open" /\ conn[t] = "open" /\ cp[t] # "failed")
               => Pipe(s) = UpTo(sent[s])

\* errc: neither goroutine ever waits to report its error, whatever the handler
\* does, although the handler takes only one.
ReportsNeverWait == \A s \in Sides : cp[s] = "failed" => errc < Reports

Released ==
    /\ handler = "returned"
    /\ \A s \in Sides :
        /\ conn[s] # "open" /\ cp[s] \in {"none", "ended"}
        /\ conn[s] = "closed" => peer[s] = "closed"

\* proxyWS: once either end has gone, or the handler has returned for any other
\* reason, both goroutines end, both connections are closed, and the other end
\* learns of it.
EndsTogether ==
    (handler = "returned" \/ \E s \in Sides : peer[s] = "closed") ~> Released
=============================================================================
