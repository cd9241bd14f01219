----------------------------- MODULE Experiment -----------------------------
(***************************************************************************)
(* The processes of run_experiment.sh: the children that bring up the      *)
(* network in the IoT-LAB, then for each experiment a server               *)
(* (scripts/nghttpd.sh) and its clients (scripts/run-http-client.sh), and  *)
(* what the driver reads of their output files when it writes a row.       *)
(*                                                                         *)
(* A child is the subshell of a process substitution.  It holds the        *)
(* reading end of a pipe, whose other end is the driver's descriptor fd.   *)
(* At home the subshell waits for nghttpd.sh, which reads the same pipe;   *)
(* in the lab it becomes the ssh of a terminal on the node.                *)
(*                                                                         *)
(* The driver keeps its children in the arrays fds and pids, and takes     *)
(* them out by assignments without an index: fds=${fds[@]#$1} writes all   *)
(* elements, one of them perhaps emptied, as one text into the first.      *)
(***************************************************************************)
EXTENDS Integers, Sequences, FiniteSets, SequencesExt, FiniteSetsExt

CONSTANTS
  Nodes,         \* nodes of the lab: the first has the server, the others a client
  Suffix,        \* which output files each experiment has: SUFFIX
  Requests,      \* HTTP2_REQUESTS
  MaxCuts,       \* bound: connections of ssh that break
  MaxLate        \* bound: experiments whose server, or clients, it does not see end

Experiments == DOMAIN Suffix  \* bound: experiments of a script

ASSUME ExperimentAssumption ==
  /\ Nodes \in 2..89 /\ Requests \in Nat \ {0} /\ MaxCuts \in Nat /\ MaxLate \in Nat
  /\ Suffix \in Seq(Nat)

\* The children in the order in which they are launched.
Prepared  == 1..Nodes                       \* the router and the bridges
Server(e) == Nodes + e
Children  == 1..(Nodes + Len(Suffix))
Fds       == 10..(10 + Nodes)   \* of two digits: none begins with another

VARIABLES
  iotlab,      \* IOTLAB_SERVER and IOTLAB_CLIENTS are set
  pc,          \* where the driver is
  n,           \* experiments begun
  fd,          \* the descriptor opened last, also server_in
  fds,         \* the array: texts, each a sequence of words, 0 for no word
  pids,        \* the array: for each descriptor the child registered last, or 0
  pipe,        \* the pipe that a descriptor is: its child, or 0 if it is closed
  proc,        \* each child: "none", "up" or "gone"
  server,      \* each nghttpd.sh: "none", "serving", "summing" or "done"
  told,        \* the servers that find a q in their pipe
  nghttpd_out, \* for each suffix, what is in the server's file
  client,      \* the clients that run, with their experiment
  client_out,  \* for each suffix, the clients' summaries in their file
  row,         \* what the driver has read for the last row that it wrote
  late,        \* history: experiments whose server the driver did not see end
  unseen,      \* history: clients, with their experiment, that it did not see end
  leaked,      \* history: the child that a signal kept from being registered, or 0
  closed,      \* history: servers that the driver has closed
  finishes,    \* history: calls of finish
  cuts         \* history: connections broken so far

arrays  == <<fds, pids, pipe>>
driver  == <<pc, n, fd, arrays>>
files   == <<nghttpd_out, client_out>>
world   == <<proc, server, told, client, files>>
history == <<late, unseen, leaked, closed, finishes, cuts>>
vars    == <<iotlab, driver, world, row, history>>

------------------------------------------------------------------------------
(* What the scripts in awk make of the output files                          *)

\* summarize-client-results.awk: what a client reports of the requests it made, and of
\* those that it did not count as processed.
Summary(x, made, processed, success) ==
  LET failed == Requests - processed
  IN  [e |-> x.e, c |-> x.c, total |-> failed + success, success |-> success,
       failed |-> failed + made - success]

SumOf(records, field) == MapThenSumSet(LAMBDA r : r[field], records)

\* summarize-client-totals.awk: without a total it dies where it divides by it.
Totals(records) ==
  [success |-> SumOf(records, "success"),
   failed  |-> SumOf(records, "failed"),
   whole   |-> SumOf(records, "total") # 0]

NoTimes == [of |-> 0, samples |-> FALSE]
NoRow   == [e |-> 0, times |-> NoTimes, totals |-> Totals({})]

Init ==
  /\ iotlab \in BOOLEAN
  /\ pc = IF iotlab THEN "prepare" ELSE "ready"
  /\ n = 0 /\ fd = 0
  /\ fds = << >> /\ pids = [f \in Fds |-> 0] /\ pipe = [f \in Fds |-> 0]
  /\ proc = [k \in Children |-> "none"] /\ server = [e \in Experiments |-> "none"]
  /\ told = {} /\ client = {} /\ row = NoRow
  /\ nghttpd_out = [s \in Range(Suffix) |-> NoTimes]
  /\ client_out = [s \in Range(Suffix) |-> {}]
  /\ late = {} /\ unseen = {} /\ leaked = 0 /\ closed = 0 /\ finishes = 0 /\ cuts = 0

------------------------------------------------------------------------------
(* The arrays                                                                *)

\* A bug for NothingLeft: the text is removed where it stands.
RemovedInPlace(array, f) ==
  [i \in DOMAIN array |->
     IF Head(array[i]) = f THEN <<0>> \o Tail(array[i]) ELSE array[i]]

\* fds=${fds[@]#$1}, which leaves the elements after the first as they are.  It cuts
\* a prefix of the text: the first word, as descriptors have two digits.
Removed(array, f) ==
  LET cut(text) == IF Head(text) = f THEN <<0>> \o Tail(text) ELSE text
  IN  [array EXCEPT ![1] = FlattenSeq([i \in DOMAIN array |-> cut(array[i])])]

\* The children of these descriptors get a SIGTERM.
Terminated(children) ==
  [k \in Children |-> IF k \in children /\ proc[k] = "up" THEN "gone" ELSE proc[k]]

\* close_fd.  pids=${pids[@]#$1} writes only the element 0, which is no descriptor's.
close_fd(f) ==
  /\ fds' = Removed(fds, f)
  /\ pipe' = [pipe EXCEPT ![f] = 0]
  /\ proc' = Terminated({pids[f]})
  /\ UNCHANGED pids

\* exec {fd}> >(..) and what register_fd then does.
redirect_right(child) ==
  /\ fd' = Min({f \in Fds : pipe[f] = 0})
  /\ pipe' = [pipe EXCEPT ![fd'] = child]
  /\ proc' = [proc EXCEPT ![child] = "up"]
  /\ UNCHANGED <<fds, pids>>

\* A bug for TypeOK and NothingLeft: a descriptor keeps the process it had first.
register_fdOnce(child) ==
  /\ pids' = [pids EXCEPT ![fd] = IF @ = 0 THEN child ELSE @]
  /\ fds' = Append(fds, <<fd>>) /\ UNCHANGED pipe

register_fd(child) ==
  /\ pids' = [pids EXCEPT ![fd] = child] /\ fds' = Append(fds, <<fd>>) /\ UNCHANGED pipe

------------------------------------------------------------------------------
(* The driver: preparation, and an experiment up to its clients              *)

Launched == Cardinality({k \in Prepared : proc[k] # "none"})

\* prepare_server and prepare_clients.
Prepare ==
  /\ pc = "prepare" /\ pc' = "prepared"
  /\ redirect_right(Launched + 1)
  /\ UNCHANGED <<iotlab, n, server, told, client, files, row, history>>

RegisterPrepared ==
  /\ pc = "prepared" /\ pc' = IF Launched < Nodes THEN "prepare" ELSE "ready"
  /\ register_fd(Launched)
  /\ UNCHANGED <<iotlab, n, fd, world, row, history>>

RunExperiment ==
  /\ pc = "ready" /\ n + 1 \in Experiments
  /\ n' = n + 1 /\ pc' = "launched"
  /\ redirect_right(Server(n'))
  /\ server' = [server EXCEPT ![n'] = "serving"]
  /\ UNCHANGED <<iotlab, told, client, files, row, history>>

RegisterServer ==
  /\ pc = "launched" /\ pc' = "starting"
  /\ register_fd(Server(n))
  /\ UNCHANGED <<iotlab, n, fd, world, row, history>>

Clients == IF iotlab THEN 2..Nodes ELSE {1}

\* A bug for CountsAreOwn: the header is appended, too.
LaunchClientsAppend ==
  /\ pc = "starting" /\ pc' = "clients"
  /\ client' = client \cup {[e |-> n, c |-> c] : c \in Clients}
  /\ UNCHANGED <<iotlab, n, fd, arrays, proc, server, told, files, row, history>>

LaunchClients ==
  /\ pc = "starting" /\ pc' = "clients"
  /\ client_out' = [client_out EXCEPT ![Suffix[n]] = {}]
  /\ client' = client \cup {[e |-> n, c |-> c] : c \in Clients}
  /\ UNCHANGED <<iotlab, n, fd, arrays, proc, server, told, nghttpd_out, row, history>>

\* Those of an experiment that run.
Running(e) == {x \in client : x.e = e}

\* wait_for_pids sees the subshells of run_in_a8 gone: a client whose ssh broke is done.
ClientsDone ==
  /\ pc = "clients" /\ Running(n) \subseteq unseen /\ pc' = "quit"
  /\ UNCHANGED <<iotlab, n, fd, arrays, world, row, history>>

\* The bound MaxLate.
FewLate == Cardinality(late') + Cardinality({x.e : x \in unseen'}) <= MaxLate

\* wait_for_pids terminates the subshells of run_in_a8; each leaves its ssh behind,
\* and the client on the node runs on.
ClientsTimeOut ==
  /\ pc = "clients" /\ iotlab /\ ~(Running(n) \subseteq unseen) /\ pc' = "quit"
  /\ unseen' = unseen \cup Running(n)
  /\ UNCHANGED <<iotlab, n, fd, arrays, world, row, late, leaked, closed, finishes, cuts>>
  /\ FewLate

------------------------------------------------------------------------------
(* The driver: the end of an experiment                                      *)

\* Somebody has the reading end of the server's pipe.
Read(e) == proc[Server(e)] = "up" \/ (~iotlab /\ server[e] # "done")

\* The descriptors that close_all_fds closes, and what it leaves of the array: the
\* list of its loop is expanded once.
List(array)   == IF array = << >> THEN << >> ELSE array[1]
Listed(array) == Range(List(array)) \ {0}

AfterAll(array) ==
  LET list == List(array)
      after[i \in 0..Len(list)] ==
        IF i = 0 THEN array
        ELSE IF list[i] = 0 THEN after[i - 1] ELSE Removed(after[i - 1], list[i])
  IN  after[Len(list)]

\* finish, the trap of EXIT and of the signals: a signal's handler exits, so that
\* finish is called again.  The driver is gone, with its arrays and descriptors.
finish(calls) ==
  /\ LET list == Listed(fds) \cup IF calls = 1 THEN {} ELSE Listed(AfterAll(fds))
     IN  proc' = Terminated({pids[f] : f \in list})
  /\ fds' = << >> /\ pids' = [f \in Fds |-> 0] /\ pipe' = [f \in Fds |-> 0]
  /\ finishes' = calls /\ pc' = "off"

\* echo q, of which nghttpd.sh reads only the first: without a reader, SIGPIPE ends the driver, which finishes once.
SendQ(next) ==
  IF Read(n)
  THEN /\ pc' = next /\ told' = IF server[n] = "serving" THEN told \cup {n} ELSE told
       /\ UNCHANGED <<arrays, proc, finishes>>
  ELSE finish(1) /\ UNCHANGED told

Quit ==
  /\ pc = "quit" /\ SendQ("wait")
  /\ UNCHANGED <<iotlab, n, fd, server, client, files, row, late, unseen, leaked, closed, cuts>>

\* The server is still there: another q, and a sleep.
WaitLonger ==
  /\ pc = "wait" /\ proc[Server(n)] = "up" /\ pc' = "again"
  /\ UNCHANGED <<iotlab, n, fd, arrays, world, row, history>>

QuitAgain ==
  /\ pc = "again" /\ SendQ("wait")
  /\ UNCHANGED <<iotlab, n, fd, server, client, files, row, late, unseen, leaked, closed, cuts>>

Close(gone) ==
  /\ pc = "wait" /\ pc' = "row"
  /\ late' = IF gone THEN late ELSE late \cup {n}
  /\ closed' = closed + 1
  /\ close_fd(fd)
  /\ UNCHANGED <<iotlab, n, fd, server, told, client, files, row, unseen, leaked, finishes, cuts>>

\* A bug for TimesAreOwn: the driver does not wait for the server.
ServerGoneNotWaited == Close(TRUE)

ServerGone == proc[Server(n)] # "up" /\ Close(TRUE)

\* More than 5 seconds are over.
WaitExpires == Close(FALSE) /\ FewLate

WriteRow ==
  /\ pc = "row" /\ pc' = "ready"
  /\ row' = [e |-> n, times |-> nghttpd_out[Suffix[n]], totals |-> Totals(client_out[Suffix[n]])]
  /\ UNCHANGED <<iotlab, n, fd, arrays, world, history>>

\* The sweeps are through, perhaps because an earlier script had done them.
EndScript ==
  /\ pc = "ready" /\ finish(1)
  /\ UNCHANGED <<iotlab, n, fd, server, told, client, files, row, late, unseen, leaked, closed, cuts>>

\* SIGTERM or SIGINT: finish, and again at the EXIT of its own exit.  The trap waits
\* for the command in the foreground, which at home is the client.
Signal ==
  /\ pc # "off" /\ (~iotlab /\ pc = "clients" => Running(n) = {})
  /\ finish(2)
  /\ leaked' = CASE pc = "prepared" -> Launched
                 [] pc = "launched" -> Server(n)
                 [] OTHER           -> 0
  /\ UNCHANGED <<iotlab, n, fd, server, told, client, files, row, late, unseen, closed, cuts>>

------------------------------------------------------------------------------
(* The server, the clients and the connections                               *)

\* No process has the writing end of the pipe (at home; the clients of the lab inherit it).
AtEnd(e) == \A f \in Fds : pipe[f] # Server(e)

\* A bug for ServersEnd: read fails at the end of the pipe, and is tried again.
CleanupAtQ(e) ==
  /\ server[e] = "serving" /\ (e \in told \/ (iotlab /\ proc[Server(e)] = "gone"))
  /\ server' = [server EXCEPT ![e] = "summing"]
  /\ nghttpd_out' = [nghttpd_out EXCEPT ![Suffix[e]] = [of |-> e, samples |-> FALSE]]
  /\ told' = told \ {e}
  /\ UNCHANGED <<iotlab, driver, proc, client, client_out, row, history>>

\* nghttpd.sh reads a q, or the end of its pipe, or its terminal hangs up: cleanup
\* begins its file afresh, and writes the times.
Cleanup(e) ==
  /\ server[e] = "serving"
  /\ \/ e \in told
     \/ ~iotlab /\ AtEnd(e)
     \/ iotlab /\ proc[Server(e)] = "gone"
  /\ server' = [server EXCEPT ![e] = "summing"]
  /\ nghttpd_out' = [nghttpd_out EXCEPT ![Suffix[e]] = [of |-> e, samples |-> FALSE]]
  /\ told' = told \ {e}
  /\ UNCHANGED <<iotlab, driver, proc, client, client_out, row, history>>

\* cat has copied the last sample that top wrote.
SummaryDone(e) ==
  /\ server[e] = "summing" /\ server' = [server EXCEPT ![e] = "done"]
  /\ nghttpd_out' = [nghttpd_out EXCEPT ![Suffix[e]].samples = @ \/ nghttpd_out[Suffix[e]].of = e]
  /\ UNCHANGED <<iotlab, driver, proc, told, client, client_out, row, history>>

\* The subshell ends after nghttpd.sh, the ssh after its command.
ShellEnds(e) ==
  /\ server[e] = "done" /\ proc[Server(e)] = "up"
  /\ proc' = [proc EXCEPT ![Server(e)] = "gone"]
  /\ UNCHANGED <<iotlab, driver, server, told, client, files, row, history>>

\* How many requests a client has made when it ends, and how many of them it counted:
\* all; or fewer, if its terminal hangs up, perhaps before it counts the last one.  An
\* ssh that is left can break, too.
Ended(x, made, processed) ==
  IF x \in unseen THEN made \in 0..Requests /\ processed \in {made - 1, made} \cap Nat
                  ELSE made = Requests /\ processed = Requests

\* summarize_and_cleanup, the trap of EXIT: a client appends its summary, if it made a
\* request (bound: while the driver runs, for nobody reads it later).
ClientEnds(x) ==
  /\ pc # "off" /\ x \in client /\ client' = client \ {x}
  /\ \E made, processed \in 0..Requests : \E success \in 0..made :
       /\ Ended(x, made, processed)
       /\ client_out' = [client_out EXCEPT ![Suffix[x.e]] =
            @ \cup IF made = 0 THEN {} ELSE {Summary(x, made, processed, success)}]
  /\ UNCHANGED <<iotlab, driver, proc, server, told, nghttpd_out, row, history>>

\* The ssh of a client ends, and with it the subshell of run_in_a8; the client may
\* notice it at once, later or never (bound: while the driver waits for it).
ClientConnectionBreaks(x) ==
  /\ iotlab /\ pc = "clients" /\ cuts < MaxCuts /\ cuts' = cuts + 1
  /\ x \in Running(n) \ unseen /\ unseen' = unseen \cup {x}
  /\ UNCHANGED <<iotlab, driver, world, row, late, leaked, closed, finishes>>
  /\ FewLate

\* The ssh of a child ends: the router's, a bridge's or a server's.
ConnectionBreaks(k) ==
  /\ iotlab /\ cuts < MaxCuts /\ cuts' = cuts + 1
  /\ proc[k] = "up" /\ proc' = [proc EXCEPT ![k] = "gone"]
  /\ late' = IF k \in Prepared THEN late ELSE late \cup {k - Nodes}
  /\ UNCHANGED <<iotlab, driver, server, told, client, files, row, unseen, leaked, closed, finishes>>
  /\ FewLate

Next ==
  \/ Prepare \/ RegisterPrepared \/ RunExperiment \/ RegisterServer
  \/ LaunchClients \/ ClientsDone \/ ClientsTimeOut
  \/ Quit \/ WaitLonger \/ QuitAgain \/ ServerGone \/ WaitExpires \/ WriteRow
  \/ EndScript \/ Signal
  \/ \E e \in Experiments : Cleanup(e) \/ SummaryDone(e) \/ ShellEnds(e)
  \/ \E x \in client : ClientEnds(x) \/ ClientConnectionBreaks(x)
  \/ \E k \in Children : ConnectionBreaks(k)

Spec == Init /\ [][Next]_vars

\* A server reads its pipe and ends, and the driver sends its q.
Fairness ==
  /\ WF_vars(Quit)
  /\ \A e \in Experiments : WF_vars(Cleanup(e)) /\ WF_vars(SummaryDone(e))

FairSpec == Spec /\ Fairness

------------------------------------------------------------------------------
(* Properties                                                                *)

(* During an experiment the descriptor opened last leads to its server.      *)
TypeOK ==
  /\ iotlab \in BOOLEAN /\ n \in 0..Len(Suffix) /\ fd \in Fds \cup {0}
  /\ pc \in {"prepare", "prepared", "ready", "launched", "starting", "clients",
             "quit", "wait", "again", "row", "off"}
  /\ fds \in Seq(Seq(Fds \cup {0})) /\ \A i \in DOMAIN fds : fds[i] # << >>
  /\ pids \in [Fds -> Children \cup {0}] /\ pipe \in [Fds -> Children \cup {0}]
  /\ proc \in [Children -> {"none", "up", "gone"}]
  /\ server \in [Experiments -> {"none", "serving", "summing", "done"}]
  /\ told \subseteq Experiments /\ client \subseteq [e : Experiments, c : 1..Nodes]
  /\ late \subseteq Experiments /\ unseen \subseteq [e : Experiments, c : 1..Nodes] /\ leaked \in Children \cup {0}
  /\ closed \in 0..n /\ finishes \in 0..2 /\ cuts \in 0..MaxCuts
  /\ row.e \in {n - 1, n} \cap Nat
  /\ pc \in {"starting", "clients", "quit", "wait", "again"} =>
       pids[fd] = Server(n) /\ pipe[fd] = Server(n)

(***************************************************************************)
(* When the driver has ended, nothing it started is left in the lab.       *)
(* finish kills the router, the bridges and the server.  It reads but the  *)
(* first text of fds, which has all of them once a descriptor was closed,  *)
(* or finish is called a second time.  So the bridges stay if the driver   *)
(* ends by itself, or by SIGPIPE, before it has closed a server; and a     *)
(* child that a signal keeps from being registered.  It knows nothing of   *)
(* clients: a signal leaves all that run, with their ssh; an end of its    *)
(* own only those that it had given up, or whose ssh broke.                *)
(***************************************************************************)
NothingLeft ==
  pc = "off" /\ iotlab =>
    /\ \A k \in Children : proc[k] = "up" =>
         \/ k = leaked
         \/ k \in Prepared \ {1} /\ finishes = 1 /\ closed = 0
    /\ \A x \in client : x \in unseen \/ (finishes = 2 /\ x.e = n)

(***************************************************************************)
(* A row has the times and all samples of its own experiment's server,     *)
(* although experiments share their output files; unless the driver gave   *)
(* up waiting, for this server or for an earlier one with the same file.   *)
(***************************************************************************)
Earlier(e) == {j \in 1..e : Suffix[j] = Suffix[e]}

TimesAreOwn ==
  row.e # 0 /\ Earlier(row.e) \cap late = {} => row.times = [of |-> row.e, samples |-> TRUE]

(***************************************************************************)
(* The successes and failures in a row are at least the requests of all    *)
(* clients of this experiment that the driver saw end: it waited for their *)
(* records.  They are all, and nobody else's, and the row is whole if one  *)
(* request succeeded, unless there are clients with the same file, here or *)
(* in an earlier experiment, that the driver did not see end: their record *)
(* may be missing, be short, or come when the file is another's.           *)
(***************************************************************************)
Seen == {c \in Clients : [e |-> row.e, c |-> c] \notin unseen}

CountsAreOwn ==
  row.e # 0 =>
    /\ row.totals.success + row.totals.failed >= Requests * Cardinality(Seen)
    /\ (\A x \in unseen : x.e \notin Earlier(row.e)) =>
         /\ row.totals.success + row.totals.failed = Requests * Cardinality(Clients)
         /\ row.totals.whole <=> row.totals.success > 0

(***************************************************************************)
(* No server is left: once the driver is done with the clients, or has     *)
(* ended in whatever way, nghttpd.sh ends, too; except in the lab if a     *)
(* signal kept it from being registered, for nobody kills its ssh then.    *)
(***************************************************************************)
Over(e) == pc = "off" \/ n > e \/ pc \in {"quit", "wait", "again", "row"}

ServersEnd ==
  \A e \in Experiments :
    server[e] = "serving" /\ Over(e) ~> server[e] = "done" \/ (iotlab /\ leaked = Server(e))
==============================================================================
