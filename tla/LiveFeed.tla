------------------------------ MODULE LiveFeed -------------------------------
(***************************************************************************)
(* The live feed of the dashboard: the list of websockets of the API       *)
(* process and the broadcasts that walk it (ws_manager.py), the handler of *)
(* every socket (ws.py), and the browser tabs that fetch the jobs again at *)
(* every message and reconnect when their socket closes (App.jsx).         *)
(*                                                                         *)
(* All coroutines run in one event loop: whatever another one does between *)
(* two awaits of a broadcast happens to the list it is walking.  Workers   *)
(* are processes of their own, whose lists are empty: what they broadcast  *)
(* reaches nobody.  A message only makes a tab fetch, so its content is    *)
(* left out; the jobs a tab shows are the version of the table it fetched. *)
(***************************************************************************)
EXTENDS Naturals, Sequences, FiniteSets

CONSTANTS
  Tabs,       (* browser tabs                                              *)
  Sockets,    (* websocket connections                                     *)
  Casts,      (* requests of the API that may broadcast at the same time   *)
  Fetches,    (* bound: fetches a tab may have open                        *)
  MaxVersion, (* bound: changes of the table                               *)
  MaxCloses,  (* bound: connections that break or are closed by a logout   *)
  MaxLogins,  (* bound: logins of a tab                                    *)
  NoTab, NoSocket

ASSUME FeedAssumption ==
  /\ NoTab \notin Tabs /\ NoSocket \notin Sockets
  /\ MaxVersion \in Nat /\ MaxCloses \in Nat /\ MaxLogins \in Nat

VARIABLES
  version,  (* committed changes of the table                              *)
  conns,    (* active_connections                                          *)
  sock,     (* every socket: its tab, and how far its handler is           *)
  inbox,    (* messages on their way to the tab                            *)
  cast,     (* every broadcast: position, dead connections; what it reached*)
  tab,      (* every tab: session, wsRef, timers of reconnections          *)
  fetch,    (* fetches of every tab                                        *)
  owed,     (* of every tab: the newest change it was sent a message about *)
            (* and has neither shown nor failed to fetch since, or 0       *)
  closes

server == <<version, conns, sock, inbox, cast>>
browser == <<tab, fetch, closes>>
vars == <<server, browser, owed>>

Socket == [tab: Tabs \cup {NoTab}, state: {"unused", "accepting", "open", "dropped", "ended"}]
NoCast == [on |-> FALSE, version |-> 0, at |-> 0, dead |-> {}, start |-> {}, sent |-> <<>>, left |-> {}]

Fetch == [state: {"none", "asked", "answered"}, version: 0..MaxVersion]
NoFetch == [state |-> "none", version |-> 0]

\* What a list holds, and the list without the elements of D.  (A function and not
\* SelectSeq, whose definition the theorems of LiveFeedProofs could not use.)
ToSet(q) == {q[i] : i \in DOMAIN q}
Kept(q, D) ==
  LET kept[i \in 0..Len(q)] == IF i = 0 THEN <<>>
                               ELSE IF q[i] \in D THEN kept[i - 1]
                               ELSE Append(kept[i - 1], q[i])
  IN  kept
Without(q, D) == Kept(q, D)[Len(q)]

Init ==
  /\ version = 0 /\ conns = <<>>
  /\ sock = [s \in Sockets |-> [tab |-> NoTab, state |-> "unused"]]
  /\ inbox = [s \in Sockets |-> 0]
  /\ cast = [c \in Casts |-> NoCast]
  /\ tab = [t \in Tabs |-> [in |-> FALSE, logins |-> 0, ref |-> NoSocket, timers |-> 0]]
  /\ fetch = [t \in Tabs |-> [f \in Fetches |-> NoFetch]]
  /\ owed = [t \in Tabs |-> 0] /\ closes = 0

-----------------------------------------------------------------------------
(* Tabs.                                                                   *)

Unused == {s \in Sockets : sock[s].state = "unused"}
\* connectWebSocket
Opens(t, s) ==
  /\ s \in Unused
  /\ sock' = [sock EXCEPT ![s] = [tab |-> t, state |-> "accepting"]]

\* Which slot a fetch takes makes no difference.
Slot(t) == CHOOSE f \in Fetches : fetch[t][f] = NoFetch
\* refreshData
Asks(t) ==
  /\ \E f \in Fetches : fetch[t][f] = NoFetch
  /\ fetch' = [fetch EXCEPT ![t][Slot(t)].state = "asked"]

\* The effect of a login loads the data and connects, whatever the tab still has open.
Login(t, s) ==
  /\ ~tab[t].in /\ tab[t].logins < MaxLogins
  /\ Opens(t, s)
  /\ tab' = [tab EXCEPT ![t] = [tab[t] EXCEPT !.in = TRUE, !.logins = tab[t].logins + 1, !.ref = s]]
  /\ Asks(t)
  /\ UNCHANGED <<version, conns, inbox, cast, owed, closes>>

\* Variant: a socket that closes is not opened again.
ClosedForGood(t) == tab[t].timers
\* onclose sets a timer.
Closed(t) == tab[t].timers + 1

Reconnect(t, s) ==
  /\ tab[t].timers > 0
  /\ Opens(t, s)
  /\ tab' = [tab EXCEPT ![t] = [tab[t] EXCEPT !.timers = tab[t].timers - 1, !.ref = s]]
  /\ UNCHANGED <<version, conns, inbox, cast, fetch, owed, closes>>

Live(s) == sock[s].state \in {"accepting", "open"}
Closes(s) ==
  /\ sock' = [sock EXCEPT ![s].state = IF sock[s].state = "open" THEN "dropped" ELSE "ended"]
  /\ inbox' = [inbox EXCEPT ![s] = 0]
  /\ closes < MaxCloses /\ closes' = closes + 1

\* The cleanup of the effect closes the last socket; its onclose sets a timer all the same.
Logout(t) ==
  LET s == tab[t].ref
  IN  /\ tab[t].in
      /\ IF s # NoSocket /\ Live(s)
         THEN Closes(s) /\ tab' = [tab EXCEPT ![t] = [tab[t] EXCEPT !.in = FALSE, !.timers = Closed(t)]]
         ELSE tab' = [tab EXCEPT ![t].in = FALSE] /\ UNCHANGED <<sock, inbox, closes>>
      /\ owed' = [owed EXCEPT ![t] = 0]
      /\ UNCHANGED <<version, conns, cast, fetch>>

\* The connection breaks.
Drop(s) ==
  /\ Live(s) /\ Closes(s)
  /\ tab' = [tab EXCEPT ![sock[s].tab].timers = Closed(sock[s].tab)]
  /\ UNCHANGED <<version, conns, cast, fetch, owed>>

\* onmessage calls refreshData; without a token the API refuses.
Receive(s) ==
  LET t == sock[s].tab
  IN  /\ sock[s].state = "open" /\ inbox[s] > 0
      /\ inbox' = [inbox EXCEPT ![s] = inbox[s] - 1]
      /\ IF tab[t].in THEN Asks(t) ELSE UNCHANGED fetch
      /\ UNCHANGED <<version, conns, sock, cast, tab, owed, closes>>

\* The API reads the table; the answer arrives later, in any order with others.
Read(t, f) ==
  /\ fetch[t][f].state = "asked"
  /\ fetch' = [fetch EXCEPT ![t][f] = [state |-> "answered", version |-> version]]
  /\ UNCHANGED <<server, tab, owed, closes>>

Show(t, f) ==
  /\ fetch[t][f].state = "answered"
  /\ fetch' = [fetch EXCEPT ![t][f] = NoFetch]
  /\ owed' = [owed EXCEPT ![t] = IF fetch[t][f].version >= owed[t] THEN 0 ELSE owed[t]]
  /\ UNCHANGED <<server, tab, closes>>

\* refreshData logs the error; nothing is fetched again.
FetchFails(t, f) ==
  /\ fetch[t][f] # NoFetch
  /\ fetch' = [fetch EXCEPT ![t][f] = NoFetch]
  /\ owed' = [owed EXCEPT ![t] = 0]
  /\ UNCHANGED <<server, tab, closes>>

-----------------------------------------------------------------------------
(* Handlers of the sockets.                                                *)

Joined(s) == Append(conns, s)

\* Variant: a connection is not greeted.
GreetedNever(s) == inbox[s]
Greeted(s) == inbox[s] + 1

\* connect() accepts and appends; the greeting makes the tab fetch.
Accept(s) ==
  /\ sock[s].state = "accepting"
  /\ sock' = [sock EXCEPT ![s].state = "open"]
  /\ conns' = Joined(s)
  /\ inbox' = [inbox EXCEPT ![s] = Greeted(s)]
  /\ UNCHANGED <<version, cast, owed, browser>>

Listed(s) == s \in ToSet(conns)

\* The broadcasts, told which connections leave the list while they walk it.
Losing(gone) ==
  [c \in Casts |-> IF cast[c].on THEN [cast[c] EXCEPT !.left = cast[c].left \cup (gone \cap ToSet(conns))]
                   ELSE cast[c]]

\* Variant: only WebSocketDisconnect is handled.
DisconnectedNever(s) == conns
Disconnected(s) == Without(conns, {s})

\* receive_text raises.
EndHandler(s) ==
  /\ sock[s].state = "dropped"
  /\ sock' = [sock EXCEPT ![s].state = "ended"]
  /\ conns' = Disconnected(s)
  /\ cast' = Losing({s})
  /\ UNCHANGED <<version, inbox, owed, browser>>

-----------------------------------------------------------------------------
(* Broadcasts.                                                             *)

\* A request of the API commits and broadcasts, unless nobody is connected.
Broadcast(c) ==
  /\ ~cast[c].on /\ version < MaxVersion
  /\ version' = version + 1
  /\ cast' = IF conns = <<>> THEN cast
             ELSE [cast EXCEPT ![c] = [NoCast EXCEPT !.on = TRUE, !.version = version + 1,
                                                     !.at = 1, !.start = ToSet(conns)]]
  /\ UNCHANGED <<conns, sock, inbox, owed, browser>>

\* A worker commits and broadcasts in its own process.
WorkerCommits ==
  /\ version < MaxVersion
  /\ version' = version + 1
  /\ UNCHANGED <<conns, sock, inbox, cast, owed, browser>>

At(c) == conns[cast[c].at]

\* Variant: a connection that fails is removed at once.
ConnsAfterPurged(c) == Without(conns, {At(c)})
ConnsAfter(c) == conns

Owes(t, v) == IF tab[t].in /\ v > owed[t] THEN v ELSE owed[t]

\* send_text raises, or does not notice that the other side is gone.
Send(c) ==
  /\ cast[c].on /\ cast[c].at <= Len(conns)
  /\ \/ /\ sock[At(c)].state = "open"
        /\ inbox' = [inbox EXCEPT ![At(c)] = inbox[At(c)] + 1]
        /\ owed' = [owed EXCEPT ![sock[At(c)].tab] = Owes(sock[At(c)].tab, cast[c].version)]
        /\ cast' = [cast EXCEPT ![c] = [cast[c] EXCEPT !.at = cast[c].at + 1, !.sent = Append(cast[c].sent, At(c))]]
        /\ UNCHANGED conns
     \/ /\ sock[At(c)].state # "open"
        /\ \E raises \in BOOLEAN :
             /\ cast' = [cast EXCEPT ![c] =
                  [cast[c] EXCEPT !.at = cast[c].at + 1, !.sent = Append(cast[c].sent, At(c)),
                                  !.dead = IF raises THEN cast[c].dead \cup {At(c)} ELSE cast[c].dead]]
             /\ conns' = IF raises THEN ConnsAfter(c) ELSE conns
        /\ UNCHANGED <<inbox, owed>>
  /\ UNCHANGED <<version, sock, browser>>

\* disconnect() of every dead connection.
EndBroadcast(c) ==
  /\ cast[c].on /\ cast[c].at > Len(conns)
  /\ conns' = Without(conns, cast[c].dead)
  /\ cast' = [Losing(cast[c].dead) EXCEPT ![c] = NoCast]
  /\ UNCHANGED <<version, sock, inbox, owed, browser>>

-----------------------------------------------------------------------------
\* Which unused socket is opened makes no difference.
Fresh == CHOOSE s \in Unused : TRUE

Next ==
  \/ \E t \in Tabs : Login(t, Fresh) \/ Logout(t) \/ Reconnect(t, Fresh)
  \/ \E s \in Sockets : Drop(s) \/ Accept(s) \/ EndHandler(s) \/ Receive(s)
  \/ \E t \in Tabs, f \in Fetches : Read(t, f) \/ Show(t, f) \/ FetchFails(t, f)
  \/ \E c \in Casts : Broadcast(c) \/ Send(c) \/ EndBroadcast(c)
  \/ WorkerCommits

Spec == Init /\ [][Next]_vars

\* The event loops of the API and of the browser go on, the API answers, timers expire.
FairSpec ==
  /\ Spec
  /\ \A t \in Tabs : WF_vars(Reconnect(t, Fresh))
  /\ \A s \in Sockets : WF_vars(Accept(s)) /\ WF_vars(EndHandler(s)) /\ WF_vars(Receive(s))
  /\ \A t \in Tabs, f \in Fetches : WF_vars(Read(t, f) \/ Show(t, f))
  /\ \A c \in Casts : WF_vars(Send(c) \/ EndBroadcast(c))

-----------------------------------------------------------------------------
(* Correctness.                                                            *)

\* The types.
TypeOK ==
  /\ version \in 0..MaxVersion /\ conns \in Seq(Sockets)
  /\ sock \in [Sockets -> Socket] /\ inbox \in [Sockets -> Nat]
  /\ cast \in [Casts -> [on: BOOLEAN, version: Nat, at: Nat, dead: SUBSET Sockets,
                          start: SUBSET Sockets, sent: Seq(Sockets), left: SUBSET Sockets]]
  /\ tab \in [Tabs -> [in: BOOLEAN, logins: 0..MaxLogins, ref: Sockets \cup {NoSocket}, timers: Nat]]
  /\ fetch \in [Tabs -> [Fetches -> Fetch]]
  /\ owed \in [Tabs -> 0..MaxVersion]

\* Every open connection is in the list, none whose handler has ended is, and none is
\* twice (ws_manager.py:18-26, ws.py:17-34).
ListedIsServed ==
  /\ \A s \in Sockets : sock[s].state = "open" => Listed(s)
  /\ \A s \in Sockets : sock[s].state = "ended" => ~Listed(s)
  /\ Cardinality(ToSet(conns)) = Len(conns)

\* A broadcast that is through has left out at most one connection for every connection
\* that left the list meanwhile, and nobody if none did (ws_manager.py:36-43).
SkipsBounded ==
  \A c \in Casts : cast[c].on /\ cast[c].at > Len(conns) =>
    Cardinality(cast[c].start \ ToSet(cast[c].sent)) <= Cardinality(cast[c].left)

\* A login opens one feed of its tab, and through drops, reconnections and logouts none
\* is lost and none ends: the feed of a logged-out tab stays (App.jsx:53-97).
FeedsAreLogins ==
  \A t \in Tabs :
    Cardinality({s \in Sockets : sock[s].tab = t /\ Live(s)}) + tab[t].timers = tab[t].logins

\* A tab that was sent a message about a change comes to show the change, even if the
\* message is lost with its connection, unless a fetch of it fails or it logs out.
TabsCatchUp == \A t \in Tabs : owed[t] # 0 ~> owed[t] = 0
=============================================================================
