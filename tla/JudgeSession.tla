------------------------------ MODULE JudgeSession ------------------------------
(***************************************************************************)
(* A client and the duck server over UDP.  For each task the client writes *)
(* the program and its input to the buffer, asks for a judge under a new   *)
(* seq_num and reads stdout back, one packet at a time; when an answer     *)
(* does not come it sends the packet again.  Packets get lost, in both     *)
(* directions, and so arrive several times.  Requests keep their order:    *)
(* client and server share one Ethernet segment, and the rings of the card *)
(* and ducknet's main loop keep it.  Answers may not: one whose receiver's *)
(* Ethernet address is not known waits in ducknet's table, and later ones  *)
(* can overtake it there and on the wire (module Ducknet has the tables).  *)
(* Answers name their operation and carry no sequence number.              *)
(***************************************************************************)
EXTENDS Judger, SequencesExt

CONSTANTS
  NTasks,          \* the tasks of the session
  Script(_),       \* the three packets of a task: write-buffer, judge, read-buffer
  TosendSize,      \* answers that can wait for the client's address
  ChannelBound,    \* bound: packets under way in one direction
  MaxHidden        \* bound: times the client's ARP entry is lost to the search

\* The client's part of the protocol: no two tasks have the same seq_num, and
\* none has the one that stands for "nothing was judged".
ASSUME SessionAssumption ==
  /\ {NTasks, TosendSize, ChannelBound, MaxHidden} \subseteq Nat
  /\ \A t \in 1 .. NTasks :
       /\ \A i \in 1 .. 3 : Script(t)[i] \in Packet
       /\ Script(t)[1].op = "write-buffer"
       /\ Script(t)[2].op = "judge"
       /\ Script(t)[3].op = "read-buffer"
       /\ Script(t)[2].seq_num # NoSeq
       /\ \A u \in 1 .. t - 1 : Script(u)[2].seq_num # Script(t)[2].seq_num

VARIABLES
  to_server,       \* the requests under way, by task and step
  to_client,       \* the answers under way
  known,           \* ducknet_arp_lookup finds the client's Ethernet address
  waiting,         \* the answers in tosend_table, by slot
  hidden,          \* how often the client's ARP entry was lost to the search
  overtaken,       \* history: an answer was put before one that was waiting
  task, step,      \* where the client is: step 1 .. 3 of its task
  verdict,         \* the judge result the client has accepted for the task
  accepted         \* history: verdict and output of each finished task, and
                   \* whether all answers had kept their order until then

answerVars == <<to_client, known, waiting, hidden, overtaken>>
clientVars == <<task, step, verdict, accepted>>
allVars == <<vars, to_server, answerVars, clientVars>>

SessionInit ==
  /\ Init
  /\ to_server = <<>> /\ to_client = <<>>
  /\ known \in BOOLEAN /\ waiting = <<>> /\ hidden = 0 /\ overtaken = FALSE
  /\ task = 1 /\ step = 1
  /\ verdict = <<>> /\ accepted = <<>>

Done == task > NTasks

Request(p) == Script(p[1])[p[2]]

\* The client sends the packet of its step, for the first time or again after a
\* timeout, and the packet arrives.
SendOk ==
  /\ ~ Done
  /\ Len(to_server) < ChannelBound
  /\ to_server' = Append(to_server, <<task, step>>)
  /\ UNCHANGED <<vars, answerVars, clientVars>>

-----------------------------------------------------------------------------
(* Answers *)

\* An answer goes out, past any that still wait, or takes a free slot: the lowest,
\* which can lie before those of older answers, since packets for other hosts come
\* and go in the same table.
ducknet_ipv4_send(r) ==
  \/ /\ known /\ Len(to_client) < ChannelBound
     /\ to_client' = Append(to_client, r)
     /\ overtaken' = (overtaken \/ waiting # <<>>)
     /\ UNCHANGED waiting
  \/ /\ ~ known /\ Len(waiting) < TosendSize
     /\ \E i \in 1 .. Len(waiting) + 1 :
          /\ waiting' = InsertAt(waiting, i, r)
          /\ overtaken' = (overtaken \/ i <= Len(waiting))
     /\ UNCHANGED to_client

\* udp_packet_handle takes the next packet; its answer, if there is one, is sent
\* or is lost.
Serve(answered) ==
  /\ to_server # <<>>
  /\ duck_packet_handle(Request(Head(to_server)))
  /\ to_server' = Tail(to_server)
  /\ IF answered
     THEN reply' # NoReply /\ ducknet_ipv4_send(reply')
     ELSE UNCHANGED <<to_client, waiting, overtaken>>
  /\ UNCHANGED <<known, hidden, clientVars>>

\* ducknet_ipv4_idle, some time after the address became known: what waits is sent
\* in the order of the slots.  An answer that is given up when its time is over is
\* one of those that Serve(FALSE) loses.
SendWaiting ==
  /\ known /\ waiting # <<>>
  /\ to_client' = to_client \o waiting
  /\ waiting' = <<>>
  /\ UNCHANGED <<vars, to_server, known, hidden, overtaken, clientVars>>

\* The client's ARP reply arrives.
Learn ==
  /\ ~ known /\ known' = TRUE
  /\ UNCHANGED <<vars, to_server, to_client, waiting, hidden, overtaken, clientVars>>

\* The ARP reply of a host with a larger address puts its entry where the search
\* no longer finds the client's (StoredIsFound of Ducknet).
Hide ==
  /\ known /\ hidden < MaxHidden
  /\ known' = FALSE /\ hidden' = hidden + 1
  /\ UNCHANGED <<vars, to_server, to_client, waiting, overtaken, clientVars>>

-----------------------------------------------------------------------------
(* The client *)

\* The client drops what does not answer its packet.
Expected(r) == r.op = Script(task)[step].op

ClientDrop ==
  /\ to_client # <<>>
  /\ Done \/ ~ Expected(Head(to_client))
  /\ to_client' = Tail(to_client)
  /\ UNCHANGED <<vars, to_server, known, waiting, hidden, overtaken, clientVars>>

ClientAccept ==
  LET r == Head(to_client)
  IN  /\ ~ Done /\ to_client # <<>>
      /\ Expected(r)
      /\ to_client' = Tail(to_client)
      /\ verdict' = IF step = 2 THEN r.result ELSE verdict
      /\ IF step < 3
         THEN step' = step + 1 /\ UNCHANGED <<task, accepted>>
         ELSE /\ step' = 1 /\ task' = task + 1
              /\ accepted' = Append(accepted, [result |-> verdict, output |-> r.cells,
                                               ordered |-> ~ overtaken])
      /\ UNCHANGED <<vars, to_server, known, waiting, hidden, overtaken>>

SessionNext ==
  \/ SendOk \/ Serve(TRUE) \/ Serve(FALSE)
  \/ SendWaiting \/ Learn \/ Hide
  \/ ClientDrop \/ ClientAccept

\* The server's main loop and the client keep taking packets, what is sent again
\* and again arrives some day, and the client answers the ARP request that an
\* answer without an address makes.
SessionSpec ==
  /\ SessionInit /\ [][SessionNext]_allVars
  /\ WF_allVars(SendOk) /\ WF_allVars(ClientDrop) /\ WF_allVars(ClientAccept)
  /\ WF_allVars(Serve(TRUE) \/ Serve(FALSE)) /\ SF_allVars(Serve(TRUE))
  /\ WF_allVars(SendWaiting) /\ WF_allVars(waiting # <<>> /\ Learn)

-----------------------------------------------------------------------------
(* Properties *)

\* What judging m leaves behind, from buffer b and no earlier result.
Judgements(b, m) ==
  LET error == IF Refused(m) # "" THEN Refused(m) ELSE "Can't load ELF"
  IN  IF Refused(m) # "" \/ RunResults(b, m) = {}
      THEN {[result |-> [NotJudged EXCEPT !.error = error], buffer |-> b]}
      ELSE {[result |-> Verdict(m, res), buffer |-> CopiedBack(b, m, res)] :
              res \in RunResults(b, m)}

\* The runs of task t, its data written to a buffer that held b.
TaskRuns(t, b) == Judgements(Put(b, Script(t)[1].off, Script(t)[1].cells), Script(t)[2])

\* The verdict and the output that a client reads are those of one such run.
Outcome(t, result, output) ==
  \E b \in [Cell -> Byte] : \E run \in TaskRuns(t, b) :
    run.result = result /\ Slice(run.buffer, Script(t)[3].off, Script(t)[3].len) = output

\* As long as no answer has overtaken one that was waiting for the client's
\* Ethernet address: what the client ends up with for a task is the verdict and
\* the output of one and the same run, on that task's input, although packets are
\* lost and repeated and answers do not say what they answer.
EndToEnd ==
  \A t \in DOMAIN accepted :
    accepted[t].ordered => Outcome(t, accepted[t].result, accepted[t].output)

\* A judge packet that is sent again does not run the program again, in whatever
\* order the answers arrive: judge knows it by its seq_num.
OneRunPerTask == n_judges <= task

=============================================================================
