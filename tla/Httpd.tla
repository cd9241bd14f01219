-------------------------------- MODULE Httpd --------------------------------
(***************************************************************************)
(* The web server of the bridge: httpd-simple.c with the one page that     *)
(* slip-bridge.c generates.  uIP calls httpd_appcall for each event of a   *)
(* connection, and the call runs to its end; what goes on over several     *)
(* calls keeps its place in a block of a small pool, except for the page   *)
(* generator, whose buffer and cursors are static.                         *)
(***************************************************************************)
EXTENDS Integers, Sequences, FiniteSets

CONSTANTS
  CONNS,      \* blocks in the pool conns
  UIP_CONNS,  \* connections that uIP can have
  Neighbors, Routes, Sensors,  \* how long the tables are
  Full,       \* so many neighbors (and their heading) fill the buffer
  MaxOpened   \* bound: connections that clients open

ASSUME HttpdAssumption ==
  /\ CONNS \in Nat /\ UIP_CONNS \in Nat
  /\ Neighbors \in Nat /\ Routes \in Nat /\ Sensors \in Nat /\ Full \in Nat /\ Full > 1
  /\ MaxOpened \in Nat

Conns  == 1..UIP_CONNS
Blocks == 1..CONNS
Null   == 0

VARIABLES
  tcp,     \* each connection: "closed", "open", "closing" (by the server), or
           \* "lingering" (reported closed, and still known to uIP)
  state,   \* its appstate.state: the block, or Null
  used,    \* blocks that memb counts as allocated
  httpd,   \* each block's content
  gen,     \* the static variables of generate_routes
  wire,    \* what a connection sent last and the client has not got
  got,     \* history: what the client got of a page that is not mixed
  opened,  \* history: connections opened so far
  mixed,   \* history: connections whose page was sent while another's was
  stolen,  \* history: a block was freed that was not the connection's any more
  dropped  \* history: allocated blocks whose connection uIP dropped without a report

uip  == <<tcp, state>>
hist == <<opened, mixed>>
pool == <<used, dropped>>
vars == <<uip, pool, httpd, gen, wire, got, hist, stolen>>

Tables == {"neighbor", "route", "sensor"}
Row(table, n) == <<table, n>>
Text(name)    == <<name, 0>>     \* a heading, or a part of the frame

\* struct httpd_state: where its threads are, and how much of buf sout sends.  The
\* timer is not told: a poll finds that it expired, or not.
Fresh == [input |-> "method", output |-> FALSE, at |-> "start", sendlen |-> 0]

Init ==
  /\ tcp = [c \in Conns |-> "closed"] /\ state = [c \in Conns |-> Null]
  /\ used = {} /\ httpd = [b \in Blocks |-> Fresh]
  /\ gen = [buf |-> << >>, blen |-> 0, nbr |-> 0, r |-> 0, i |-> 0]
  /\ wire = [c \in Conns |-> << >>] /\ got = [c \in Conns |-> << >>]
  /\ opened = 0 /\ mixed = {} /\ stolen = FALSE /\ dropped = {}

Live(c) == tcp[c] \in {"open", "closing"}

------------------------------------------------------------------------------
(* generate_routes, from the acknowledgement of one SEND_STRING to the next  *)

\* The first and the next entry of a table with n, 0 for NULL.
Head0(n) == IF n = 0 THEN 0 ELSE 1

\* A bug for PageWhole: the last entry is the end.
Next0Short(e, n) == IF e = 0 \/ e + 1 >= n THEN 0 ELSE e + 1

Next0(e, n) == IF e = 0 \/ e = n THEN 0 ELSE e + 1

Add(g, items) == [g EXCEPT !.buf = SubSeq(@, 1, g.blen) \o items, !.blen = @ + Len(items)]

\* A bug for TypeOK: blen keeps its value.
EmptiedNot(g) == g

Emptied(g) == [g EXCEPT !.blen = 0]

\* A step of the page: where it waits next, with the static variables then.
Wait(place, g) == [at |-> place, gen |-> g]

\* The loop over the neighbors from g.nbr on: to a full buffer or the end.
NeighborsFrom(g) ==
  LET room  == IF g.blen < Full THEN Full - g.blen ELSE 1
      left  == IF g.nbr = 0 THEN 0 ELSE Neighbors - g.nbr + 1
      rows(n) == [k \in 1..n |-> Row("neighbor", g.nbr + k - 1)]
  IN  IF room <= left
      THEN Wait("neighbors", [Add(g, rows(room)) EXCEPT !.nbr = @ + room - 1])
      ELSE Wait("routes", [Add(g, rows(left) \o <<Text("Routes")>>) EXCEPT !.nbr = 0])

RoutesFrom(g) == IF g.r # 0 THEN Wait("route", Add(g, <<Row("route", g.r)>>))
                            ELSE Wait("end", Add(g, <<Text("end")>>))

SensorsFrom(g) == IF g.i < Sensors THEN Wait("sensor", Add(g, <<Row("sensor", g.i + 1)>>))
                                   ELSE Wait("endsensors", Add(g, <<Text("end")>>))

\* handle_output with send_headers and generate_routes: what follows each wait.
Resumed(at, g) ==
  CASE at = "start"      -> Wait("headers", g)
    [] at = "headers"    -> Wait("top", g)
    [] at = "top"        -> NeighborsFrom([Add(Emptied(g), <<Text("Neighbors")>>)
                                             EXCEPT !.nbr = Head0(Neighbors)])
    [] at = "neighbors"  -> NeighborsFrom([Emptied(g) EXCEPT !.nbr = Next0(@, Neighbors)])
    [] at = "routes"     -> RoutesFrom([Emptied(g) EXCEPT !.r = Head0(Routes)])
    [] at = "route"      -> RoutesFrom([Emptied(g) EXCEPT !.r = Next0(@, Routes)])
    [] at = "end"        -> IF Sensors > 0 THEN Wait("sensors", Add(g, <<Text("Sensors")>>))
                                           ELSE Wait("bottom", g)
    [] at = "sensors"    -> SensorsFrom([Emptied(g) EXCEPT !.i = 0])
    [] at = "sensor"     -> SensorsFrom([Emptied(g) EXCEPT !.i = @ + 1])
    [] at = "endsensors" -> Wait("bottom", g)
    [] at = "bottom"     -> Wait("start", g)   \* PSOCK_CLOSE, PT_END

Constant == {"headers", "top", "bottom"}

\* What the SEND_STRING at a place hands to uIP: a constant, or n items of buf.
Sends(at, g, n) ==
  IF at \in Constant THEN <<Text(at)>>
  ELSE SubSeq(g.buf, 1, IF n <= Len(g.buf) THEN n ELSE Len(g.buf))

------------------------------------------------------------------------------
(* What a call of httpd_appcall does to connection c and its block b         *)

Sending(c) == wire[c] # << >>

\* handle_output goes on to its next wait, or ends and closes the connection.
Output(c, b, h) ==
  LET next   == Resumed(h.at, gen)
      done   == next.at = "start"
      others == {d \in Conns \ {c} : Sending(d)}
  IN  /\ gen' = next.gen
      /\ httpd' = [httpd EXCEPT ![b] = [h EXCEPT !.at = next.at, !.sendlen = next.gen.blen]]
      /\ wire' = [wire EXCEPT ![c] = IF done THEN << >> ELSE Sends(next.at, next.gen, next.gen.blen)]
      /\ tcp' = [tcp EXCEPT ![c] = IF done THEN "closing" ELSE @]
      /\ mixed' = IF done \/ others = {} THEN mixed ELSE mixed \cup others \cup {c}

\* handle_connection after handle_input has made h of the block.  The output
\* goes on if it is to begin or what it waits for was acknowledged.
HandleConnection(c, b, h, acked) ==
  IF h.output /\ (acked \/ h.at = "start")
  THEN Output(c, b, h)
  ELSE /\ httpd' = [httpd EXCEPT ![b] = h]
       /\ wire' = [wire EXCEPT ![c] = IF acked THEN << >> ELSE @]
       /\ UNCHANGED <<tcp, gen, mixed>>

\* A bug for OneOwner: the first block, free or not.
ConnectAnyBlock(c) ==
  /\ tcp[c] = "closed" /\ opened < MaxOpened /\ opened' = opened + 1
  /\ \E b \in {1} :
       /\ used' = used \cup {b} /\ state' = [state EXCEPT ![c] = b]
       /\ httpd' = [httpd EXCEPT ![b] = Fresh] /\ tcp' = [tcp EXCEPT ![c] = "open"]
  /\ UNCHANGED <<gen, wire, got, mixed, stolen, dropped>>

First(set, x) == x \in set /\ \A y \in set : x <= y

\* uip_connected: the first free block of the pool, or uip_abort if there is none.
\* uIP takes its first free connection.
Connect(c) ==
  /\ First({d \in Conns : tcp[d] = "closed"}, c) /\ opened < MaxOpened /\ opened' = opened + 1
  /\ IF used = Blocks THEN UNCHANGED <<uip, used, httpd>>
     ELSE \E b \in Blocks :
            /\ First(Blocks \ used, b)
            /\ used' = used \cup {b} /\ state' = [state EXCEPT ![c] = b]
            /\ httpd' = [httpd EXCEPT ![b] = Fresh] /\ tcp' = [tcp EXCEPT ![c] = "open"]
  /\ UNCHANGED <<gen, wire, got, mixed, stolen, dropped>>

\* uip_newdata: handle_input gets the method, the path, or more, or what is neither.
NewData(c) ==
  LET b == state[c] h == httpd[b] IN
  /\ tcp[c] = "open"
  /\ \/ \E to \in {"path", "rest"} :
          /\ h.input = "method" \/ (h.input = "path" /\ to = "rest")
          /\ HandleConnection(c, b, [h EXCEPT !.input = to, !.output = @ \/ to = "rest"], FALSE)
     \/ h.input = "rest" /\ HandleConnection(c, b, h, FALSE)
     \/ /\ h.input # "rest"                                     \* PSOCK_CLOSE_EXIT
        /\ httpd' = [httpd EXCEPT ![b] = [h EXCEPT !.input = "method"]]
        /\ tcp' = [tcp EXCEPT ![c] = "closing"]
        /\ UNCHANGED <<gen, wire, mixed>>
  /\ UNCHANGED <<state, pool, got, opened, stolen>>

\* uip_acked.
Acked(c) ==
  /\ tcp[c] = "open" /\ Sending(c)
  /\ HandleConnection(c, state[c], httpd[state[c]], TRUE)
  /\ got' = [got EXCEPT ![c] = IF c \in mixed' THEN << >> ELSE @ \o wire[c]]
  /\ UNCHANGED <<state, pool, opened, stolen>>

\* uip_rexmit: what was sent is lost, and psock_send sends what is there now.
Rexmit(c) ==
  LET b == state[c] h == httpd[b] IN
  /\ tcp[c] = "open" /\ Sending(c)
  /\ IF h.output /\ h.at # "start"
     THEN /\ wire' = [wire EXCEPT ![c] = Sends(h.at, gen, h.sendlen)]
          /\ httpd' = [httpd EXCEPT ![b] = h] /\ UNCHANGED <<tcp, gen, mixed>>
     ELSE HandleConnection(c, b, h, FALSE)
  /\ UNCHANGED <<state, pool, got, opened, stolen>>

\* uIP forgets the connection, or lingers; the client gets no more of it.  The
\* content of a block that no connection works with is not told apart.
Ends(c, to) ==
  /\ tcp' = [tcp EXCEPT ![c] = to]
  /\ state' = [state EXCEPT ![c] = IF to = "lingering" THEN @ ELSE Null]
  /\ wire' = [wire EXCEPT ![c] = << >>] /\ got' = [got EXCEPT ![c] = << >>]
  /\ httpd' = [b \in Blocks |-> IF \E d \in Conns \ {c} : Live(d) /\ state[d] = b
                                THEN httpd[b] ELSE Fresh]
  /\ mixed' = mixed \ {c}
  /\ UNCHANGED <<gen, opened>>

\* memb_free, of a block that may be free already.
Free(b) == used' = used \ {b} /\ dropped' = dropped \ {b}

\* uip_poll, which comes only if nothing is unacknowledged.
Poll(c) ==
  /\ tcp[c] = "open" /\ ~Sending(c)
  /\ HandleConnection(c, state[c], httpd[state[c]], FALSE)
  /\ UNCHANGED <<state, pool, got, opened, stolen>>

\* A bug for NoLeak: the block is not freed.
PollLateLeaks(c) ==
  /\ tcp[c] = "open" /\ ~Sending(c)
  /\ Ends(c, "closed") /\ UNCHANGED <<pool, stolen>>

\* A bug for BlocksComeFree: the timer is forgotten.
PollLateWaits(c) == Poll(c)

\* A poll ten seconds after the last event.  handle_connection still runs on the
\* block that was freed, to no effect: nothing is new, and uip_abort is decided.
PollLate(c) ==
  /\ tcp[c] = "open" /\ ~Sending(c)
  /\ Ends(c, "closed") /\ Free(state[c]) /\ UNCHANGED stolen

\* uip_closed, uip_aborted or uip_timedout: the block is freed.
Freed(c, to) == Ends(c, to) /\ Free(state[c])

ClosedByClient(c) == Live(c) /\ ~Sending(c) /\ Freed(c, "lingering") /\ UNCHANGED stolen
Aborted(c)        == Live(c) /\ Freed(c, "closed") /\ UNCHANGED stolen
TimedOut(c)       == (Sending(c) \/ tcp[c] = "closing") /\ Aborted(c)

\* The client has acknowledged the server's close, and never closes itself: uIP's
\* timer ends the connection (FIN_WAIT_2) without a call, and nobody frees the block.
Dropped(c) ==
  /\ tcp[c] = "closing" /\ Ends(c, "closed")
  /\ dropped' = dropped \cup ({state[c]} \cap used) /\ UNCHANGED <<used, stolen>>

\* The last acknowledgement or a reset: uIP reports the end once more, with the
\* same block, which may be another connection's by now.
ReportedAgain(c) ==
  /\ tcp[c] = "lingering" /\ Freed(c, "closed")
  /\ stolen' = (stolen \/ state[c] \in used)

\* Or it ends without a word.
Forgotten(c) == tcp[c] = "lingering" /\ Ends(c, "closed") /\ UNCHANGED <<pool, stolen>>

Next ==
  \E c \in Conns :
    \/ Connect(c) \/ NewData(c) \/ Acked(c) \/ Rexmit(c) \/ Poll(c) \/ PollLate(c)
    \/ ClosedByClient(c) \/ Aborted(c) \/ TimedOut(c) \/ Dropped(c)
    \/ ReportedAgain(c) \/ Forgotten(c)

\* uIP polls until ten seconds are over; it gets an acknowledgement, or gives up,
\* with a report or, if the client acknowledged the close, without one.
Fairness ==
  \A c \in Conns : WF_vars(PollLate(c)) /\ WF_vars(Acked(c) \/ TimedOut(c) \/ Dropped(c))

Spec == Init /\ [][Next]_vars /\ Fairness

------------------------------------------------------------------------------
(* Properties                                                                *)

Places == Constant \cup {"start", "neighbors", "routes", "route", "end",
                         "sensors", "sensor", "endsensors"}

Item == (Tables \cup Constant \cup {"Neighbors", "Routes", "Sensors", "end"}) \X Nat

Blen == 0..(Full + CONNS)   \* a full buffer, and a heading that each thread adds

HttpdState == [input : {"method", "path", "rest"}, output : BOOLEAN, at : Places,
               sendlen : Blen]

Generator == [buf : Seq(Item), blen : Blen, nbr : 0..Neighbors, r : 0..Routes, i : Nat]

TypeOK ==
  /\ tcp \in [Conns -> {"closed", "open", "closing", "lingering"}]
  /\ state \in [Conns -> Blocks \cup {Null}]
  /\ \A c \in Conns : tcp[c] = "closed" <=> state[c] = Null
  /\ used \subseteq Blocks /\ httpd \in [Blocks -> HttpdState]
  /\ gen \in Generator /\ gen.blen <= Len(gen.buf)
  /\ wire \in [Conns -> Seq(Item)] /\ got \in [Conns -> Seq(Item)]
  /\ opened \in 0..MaxOpened /\ mixed \subseteq Conns /\ stolen \in BOOLEAN
  /\ dropped \subseteq used

(***************************************************************************)
(* A block of the pool is used only for a connection whose end uIP can     *)
(* still report, unless a connection that the server had closed ended      *)
(* without a report: its client never closed, and the block is lost, so    *)
(* that two such clients dry the pool for good.  Nothing else loses one.   *)
(***************************************************************************)
NoLeak == used \subseteq {state[c] : c \in {d \in Conns : Live(d)}} \cup dropped

(***************************************************************************)
(* A live connection has a block that is allocated, and has it for itself, *)
(* as long as the second report of an end did not hit a block in use.      *)
(***************************************************************************)
OneOwner ==
  ~stolen => \A c \in Conns : Live(c) =>
    state[c] \in used /\ \A d \in Conns \ {c} : Live(d) => state[d] # state[c]

\* The rows among the items of a page.
Rows(page) ==
  LET rows[k \in 0..Len(page)] ==
        IF k = 0 THEN << >>
        ELSE IF page[k][1] \in Tables THEN Append(rows[k - 1], page[k]) ELSE rows[k - 1]
  IN  rows[Len(page)]

AllOf(t, n) == [k \in 1..n |-> Row(t, k)]
Contents    == AllOf("neighbor", Neighbors) \o AllOf("route", Routes) \o AllOf("sensor", Sensors)

\* The client has the page, from the headers to the bottom.
Served(c) == tcp[c] = "closing" /\ got[c] # << >> /\ got[c][Len(got[c])] = Text("bottom")

(***************************************************************************)
(* A page that was sent while no other was lists every entry of the three  *)
(* tables once, in order, whatever is lost, and wherever the page before   *)
(* was broken off.                                                         *)
(***************************************************************************)
PageWhole == \A c \in Conns : Served(c) /\ c \notin mixed /\ ~stolen => Rows(got[c]) = Contents

(***************************************************************************)
(* Every block is free again some time, or lost in the one way that NoLeak *)
(* names: the timeout takes connections that ask for nothing, and uIP      *)
(* reports those whose client is gone before the server has closed.        *)
(***************************************************************************)
BlocksComeFree == \A b \in Blocks : b \in used ~> (b \notin used \/ b \in dropped)

(***************************************************************************)
(* httpd-simple.h:45: the web server needs no per-connection output        *)
(* buffer.  uIP keeps no copy of what it sends either: what is sent again  *)
(* should then be what was sent.  It is not, if another page was generated *)
(* since.                                                                  *)
(***************************************************************************)
SentAgainAsItWas == [][\A c \in Conns : Rexmit(c) /\ ~stolen => wire'[c] = wire[c]]_vars
==============================================================================
