------------------------------ MODULE Streams ------------------------------
(***************************************************************************)
(* Programs at the two ends of TCP connections (lab 6, Assignment/P2):      *)
(*  - echo: EchoServer.c with HandleTcpClient.c, which serves one client     *)
(*    after the other, with client.c and sigPipeClient.c;                   *)
(*  - hi: tcpserver.c, which serves one client, with tcpclient.c;            *)
(*  - web: download.c, download2.c, download3.c, socket.c, daytimetcpcli.c   *)
(*    with a server that answers, or closes when it likes.                  *)
(*                                                                         *)
(* What is sent are items, of which a recv takes any number: the numbers of *)
(* a word's characters (client.c), of a line (sigPipeClient.c), of a file's *)
(* bytes, with Status and Header before them.  A connection has two ends.   *)
(* Each end has an inbox; closing it with something there, or sending to an *)
(* end that is closed, resets the connection: the next recv at the other    *)
(* end fails, later ones return 0, and a send raises SIGPIPE.               *)
(***************************************************************************)
EXTENDS Integers, Sequences, SequencesExt

CONSTANTS Room,      \* items an inbox holds
          Buffer,    \* items a recv takes (RCVBUFSIZE and the like)
          MaxWord,   \* bound: words have 1, MaxWord - 1 or MaxWord characters
          MaxLines,  \* bound: lines typed, "HI"s sent
          FileLen    \* file_len of download.c, and the size of the file

VARIABLES program, kind,          \* which of the three; who each client is
          at,                     \* where each client is, and the server
          inbox, closed,          \* per connection: what the ends hold, which are closed
          rst, err,               \* ends that were reset; and were not told yet
          backlog, serving,       \* connections to accept; the one accepted, or Nobody
          hold,                   \* what the server is sending
          length,                 \* web: Content-Length, -1 without
          out, sent, shown, typed \* clients: to send in this call; all sent, printed or saved; lines

conn == <<inbox, closed, rst, err>>
srv == <<backlog, serving, hold>>
cli == <<out, sent, shown, typed>>
vars == <<program, kind, at, conn, srv, length, cli>>

Clients == {"c1", "c2"}
Nobody == "none"
Ends == {"client", "server"}
Other == [client |-> "server", server |-> "client"]
Readers == {"download", "download2", "download3", "socket", "daytimetcpcli"}
Status == -1
Header == 0
First(k) == [j \in 1 .. k |-> j]
Body == First(IF length = 0 THEN 0 ELSE FileLen)
Response == IF kind["c1"] = "download2" THEN <<>> ELSE <<Status, Header>> \o Body
Ended == {"start", "ended", "failed"}

TypeOK ==
  /\ program \in {"echo", "hi", "web"}
  /\ at \in [Clients \cup {"server"} -> {"start", "send", "type", "recv", "status", "header", "body",
                                         "accept", "ended", "failed"}]
  /\ \A c \in Clients, e \in Ends : Len(inbox[c][e]) <= Room
  /\ closed \in [Clients -> SUBSET Ends] /\ err \in [Clients -> SUBSET Ends] /\ rst \in [Clients -> SUBSET Ends]
  /\ backlog \in Seq(Clients) /\ serving \in Clients \cup {Nobody}
  /\ Len(hold) <= (IF program = "web" THEN FileLen + 2 ELSE Buffer)
  /\ length \in {-1, 0, FileLen} /\ typed \in [Clients -> 0 .. MaxLines]

(* download2 writes one byte of its request, to which no answer is due.     *)
Init ==
  /\ \/ /\ program = "echo" /\ kind \in [Clients -> {"client", "sigPipeClient"}] /\ length = 0 /\ hold = <<>>
        /\ out \in [Clients -> {First(k) : k \in {1, MaxWord - 1, MaxWord}}]
     \/ /\ program = "hi" /\ kind = [c \in Clients |-> "tcpclient"] /\ length = 0 /\ hold = <<>>
        /\ out = [c \in Clients |-> <<>>]
     \/ /\ program = "web" /\ \E r \in Readers : kind = [c1 |-> r, c2 |-> Nobody]
        /\ length \in {-1, 0, FileLen} /\ out = [c \in Clients |-> <<>>]
        /\ hold = Response
  /\ at = [c \in Clients \cup {"server"} |-> IF c = "server" THEN "accept" ELSE "start"]
  /\ inbox = [c \in Clients |-> [e \in Ends |-> <<>>]] /\ closed = [c \in Clients |-> {}]
  /\ rst = closed /\ err = closed /\ backlog = <<>> /\ serving = Nobody
  /\ sent = [c \in Clients |-> <<>>] /\ shown = sent /\ typed = [c \in Clients |-> 0]
-----------------------------------------------------------------------------
(* TCP                                                                     *)

Goes(p, to) == at' = [at EXCEPT ![p] = to]
Adds(f, c, x) == [f EXCEPT ![c] = @ \cup x]
Live(e, c) == e \notin closed[c]

(* Items go into the other inbox while there is room; if the other end is   *)
(* closed they are lost and answered by a reset.                            *)
SendItem(e, c, x) ==
  /\ e \notin rst[c] /\ UNCHANGED closed
  /\ IF Live(Other[e], c)
       THEN Len(inbox[c][Other[e]]) < Room /\ inbox' = [inbox EXCEPT ![c][Other[e]] = Append(@, x)]
            /\ UNCHANGED <<rst, err>>
       ELSE rst' = Adds(rst, c, {e}) /\ err' = Adds(err, c, {e}) /\ UNCHANGED inbox
SendFails(e, c) == e \in rst[c] /\ err' = [err EXCEPT ![c] = @ \ {e}] /\ UNCHANGED <<inbox, closed, rst>>

Takes(e, c, k) ==
  /\ k \in 1 .. Len(inbox[c][e]) /\ k <= Buffer
  /\ inbox' = [inbox EXCEPT ![c][e] = SubSeq(@, k + 1, Len(@))] /\ UNCHANGED <<closed, rst, err>>
Got(e, c, k) == SubSeq(inbox[c][e], 1, k)
RecvFails(e, c) == e \in err[c] /\ err' = [err EXCEPT ![c] = @ \ {e}] /\ UNCHANGED <<inbox, closed, rst>>
AtEnd(e, c) == inbox[c][e] = <<>> /\ e \notin err[c] /\ (e \in rst[c] \/ ~Live(Other[e], c))
NoData(e, c) == e \in err[c] \/ AtEnd(e, c)

(* End e of the connections cs is closed, where hard with a reset.          *)
CloseAll(e, cs, hard) ==
  LET resets == {c \in cs : Live(Other[e], c) /\ (inbox[c][e] # <<>> \/ c \in hard)}
  IN  /\ closed' = [c \in Clients |-> closed[c] \cup {x \in {e} : c \in cs}]
      /\ inbox' = [c \in Clients |-> IF c \in cs THEN [inbox[c] EXCEPT ![e] = <<>>] ELSE inbox[c]]
      /\ rst' = [c \in Clients |-> rst[c] \cup {x \in {Other[e]} : c \in resets}]
      /\ err' = [c \in Clients |-> err[c] \cup {x \in {Other[e]} : c \in resets}]
Leaves(c, how) == Goes(c, how) /\ CloseAll("client", {c}, {}) /\ UNCHANGED <<srv, cli>>
Queued == {backlog[k] : k \in DOMAIN backlog}
ServerExits ==
  /\ CloseAll("server", Queued \cup (Clients \cap {serving}), Queued) /\ Goes("server", "ended")
  /\ backlog' = <<>> /\ serving' = Nobody /\ hold' = <<>> /\ UNCHANGED cli
-----------------------------------------------------------------------------
(* EchoServer.c, HandleTcpClient.c, tcpserver.c.  The latter closes the      *)
(* listening socket when it has a client.                                   *)
Accept ==
  /\ at["server"] = "accept" /\ backlog # <<>> /\ serving' = Head(backlog) /\ Goes("server", "recv")
  /\ IF program = "hi"
       THEN backlog' = <<>> /\ CloseAll("server", Queued \ {Head(backlog)}, Queued)
       ELSE backlog' = Tail(backlog) /\ UNCHANGED conn
  /\ UNCHANGED <<hold, cli>>

HandleRecv ==
  /\ program = "echo" /\ at["server"] = "recv"
  /\ \/ \E k \in 1 .. Buffer : Takes("server", serving, k) /\ hold' = Got("server", serving, k)
        /\ Goes("server", "send") /\ UNCHANGED <<backlog, serving, cli>>
     \/ AtEnd("server", serving) /\ CloseAll("server", {serving}, {})
        /\ Goes("server", "accept") /\ serving' = Nobody /\ UNCHANGED <<backlog, hold, cli>>
     \/ "server" \in err[serving] /\ ServerExits

(* mutated form: what was taken is sent once more                          *)
HandleSendAgain ==
  /\ program = "echo" /\ at["server"] = "send"
  /\ \/ SendItem("server", serving, Head(hold)) /\ hold' = hold
        /\ Goes("server", IF Len(hold) = 1 THEN "recv" ELSE "send") /\ UNCHANGED <<backlog, serving, cli>>
     \/ "server" \in rst[serving] /\ ServerExits

(* send fails, or the signal it raises ends the server.                     *)
HandleSend ==
  /\ program = "echo" /\ at["server"] = "send"
  /\ \/ SendItem("server", serving, Head(hold)) /\ hold' = Tail(hold)
        /\ Goes("server", IF Len(hold) = 1 THEN "recv" ELSE "send") /\ UNCHANGED <<backlog, serving, cli>>
     \/ "server" \in rst[serving] /\ ServerExits

HiRecv ==
  /\ program = "hi" /\ at["server"] = "recv"
  /\ \/ \E k \in 1 .. Buffer : Takes("server", serving, k)
          /\ shown' = [shown EXCEPT ![serving] = @ \o Got("server", serving, k)]
          /\ UNCHANGED <<at, srv, out, sent, typed>>
     \/ AtEnd("server", serving) /\ ServerExits
-----------------------------------------------------------------------------
(* The clients.  A client is connected when the kernel has queued it.       *)

AfterConnect(k) ==
  IF k = "client" THEN "send" ELSE IF k \in {"sigPipeClient", "tcpclient"} THEN "type"
  ELSE IF k = "download3" THEN "status" ELSE "recv"

Connect(c) ==
  /\ at[c] = "start" /\ kind[c] \notin {Nobody, "tcpclient"}
  /\ IF at["server"] = "ended" THEN Goes(c, "failed") /\ UNCHANGED backlog
     ELSE Goes(c, AfterConnect(kind[c])) /\ backlog' = IF program = "web" THEN backlog ELSE Append(backlog, c)
  /\ UNCHANGED <<conn, serving, hold, cli>>

(* The address of tcpclient is never set: it may be any, and nobody looks;  *)
(* a send without a connection ends it.                                     *)
ConnectAnywhere(c) ==
  /\ at[c] = "start" /\ kind[c] = "tcpclient"
  /\ \/ at["server"] = "accept" /\ Goes(c, "type") /\ backlog' = Append(backlog, c)
     \/ Goes(c, "failed") /\ UNCHANGED backlog
  /\ UNCHANGED <<conn, serving, hold, cli>>

(* sigPipeClient sends a line twice, tcpclient its two bytes.               *)
Type(c) ==
  /\ at[c] = "type" /\ typed[c] < MaxLines /\ typed' = [typed EXCEPT ![c] = @ + 1] /\ Goes(c, "send")
  /\ out' = [out EXCEPT ![c] = IF kind[c] = "tcpclient" THEN <<typed[c] + 1>> ELSE <<typed[c] + 1, typed[c] + 1>>]
  /\ UNCHANGED <<conn, srv, sent, shown>>

Quit(c) == at[c] = "type" /\ Leaves(c, "ended")

Sent(c) ==
  /\ out' = [out EXCEPT ![c] = Tail(@)]
  /\ Goes(c, IF Len(out[c]) > 1 THEN "send" ELSE IF kind[c] = "tcpclient" THEN "type" ELSE "recv")

(* Only sigPipeClient handles SIGPIPE.                                     *)
ClientSends(c) ==
  /\ at[c] = "send"
  /\ \/ SendItem("client", c, Head(out[c])) /\ Sent(c) /\ sent' = [sent EXCEPT ![c] = Append(@, Head(out[c]))]
        /\ UNCHANGED <<srv, shown, typed>>
     \/ kind[c] = "sigPipeClient" /\ SendFails("client", c) /\ Sent(c) /\ UNCHANGED <<srv, sent, shown, typed>>
     \/ kind[c] # "sigPipeClient" /\ "client" \in rst[c] /\ Leaves(c, "failed")

Shows(c, k) == Takes("client", c, k) /\ shown' = [shown EXCEPT ![c] = @ \o Got("client", c, k)]

(* mutated form: the client reads to the end of file                       *)
WordRecvToEnd(c) ==
  /\ kind[c] = "client" /\ at[c] = "recv"
  /\ \/ \E k \in 1 .. Buffer : Shows(c, k) /\ Goes(c, "recv") /\ UNCHANGED <<srv, out, sent, typed>>
     \/ NoData("client", c) /\ Leaves(c, "failed")

(* client.c counts what it has received; it may have it all, then closes.   *)
WordRecv(c) ==
  /\ kind[c] = "client" /\ at[c] = "recv"
  /\ \/ Len(shown[c]) < Len(sent[c]) /\ \E k \in 1 .. Buffer :
          Shows(c, k) /\ UNCHANGED <<at, srv, out, sent, typed>>
     \/ Len(shown[c]) < Len(sent[c]) /\ NoData("client", c) /\ Leaves(c, "failed")
     \/ Len(shown[c]) >= Len(sent[c]) /\ Leaves(c, "ended")

(* sigPipeClient makes one recv for its two sends.                          *)
LineRecv(c) ==
  /\ kind[c] = "sigPipeClient" /\ at[c] = "recv" /\ Goes(c, "type")
  /\ \/ \E k \in 1 .. Buffer : Shows(c, k)
     \/ RecvFails("client", c) /\ UNCHANGED shown
     \/ AtEnd("client", c) /\ UNCHANGED <<conn, shown>>
  /\ UNCHANGED <<srv, out, sent, typed>>

(* download.c writes all to the file and ends when it has FileLen bytes, of *)
(* whatever; at the end of file it goes on for ever.                        *)
DownloadRecv(c) ==
  /\ kind[c] = "download" /\ at[c] = "recv"
  /\ \/ Len(shown[c]) < FileLen /\ \E k \in 1 .. Buffer : Shows(c, k) /\ UNCHANGED <<at, srv, out, sent, typed>>
     \/ Len(shown[c]) >= FileLen /\ Leaves(c, "ended")
     \/ Len(shown[c]) < FileLen /\ "client" \in err[c] /\ Leaves(c, "failed")

(* download2.c, socket.c, daytimetcpcli.c read to the end, or until an error; *)
(* socket.c goes on after one, and is told of the end next.                 *)
ReadAll(c) ==
  /\ kind[c] \in {"download2", "socket", "daytimetcpcli"} /\ at[c] = "recv"
  /\ \/ \E k \in 1 .. Buffer : Shows(c, k) /\ UNCHANGED <<at, srv, out, sent, typed>>
     \/ AtEnd("client", c) /\ Leaves(c, "ended")
     \/ kind[c] # "socket" /\ "client" \in err[c] /\ Leaves(c, "ended")
     \/ kind[c] = "socket" /\ RecvFails("client", c) /\ UNCHANGED <<at, srv, cli>>

(* download3.c: a byte at a time as far as the body                         *)
ReadHttpStatus(c) ==
  /\ at[c] = "status"
  /\ \/ Takes("client", c, 1) /\ Goes(c, "header") /\ UNCHANGED <<srv, cli>>
     \/ "client" \in err[c] /\ Leaves(c, "failed")
     \/ AtEnd("client", c) /\ Leaves(c, "ended")

ParseHeader(c) ==
  /\ at[c] = "header"
  /\ \/ Takes("client", c, 1) /\ Goes(c, "body") /\ UNCHANGED <<srv, cli>>
     \/ "client" \in err[c] /\ Leaves(c, "failed")
     \/ AtEnd("client", c) /\ Leaves(c, "ended")

(* A body of length 0 is not read.                                         *)
ReadBody(c) ==
  /\ at[c] = "body"
  /\ \/ Len(shown[c]) # length /\ \E k \in 1 .. Buffer : Shows(c, k) /\ UNCHANGED <<at, srv, out, sent, typed>>
     \/ Len(shown[c]) = length /\ Leaves(c, "ended")
     \/ Len(shown[c]) # length /\ "client" \in err[c] /\ Leaves(c, "failed")
     \/ Len(shown[c]) # length /\ AtEnd("client", c) /\ Leaves(c, "ended")
-----------------------------------------------------------------------------
(* The web server                                                          *)

Connected == program = "web" /\ at["c1"] # "start" /\ Live("server", "c1")
WebSends ==
  /\ Connected /\ hold # <<>> /\ hold' = Tail(hold)
  /\ SendItem("server", "c1", Head(hold)) /\ UNCHANGED <<at, backlog, serving, cli>>
WebCloses ==
  /\ Connected /\ CloseAll("server", {"c1"}, {}) /\ UNCHANGED <<at, srv, cli>>
WebResets ==
  /\ Connected /\ CloseAll("server", {"c1"}, {"c1"}) /\ UNCHANGED <<at, srv, cli>>

choices == <<program, kind, length>>
Server == (Accept \/ HandleRecv \/ HandleSend \/ HiRecv) /\ UNCHANGED choices
Client(c) ==
  /\ \/ ClientSends(c) \/ WordRecv(c) \/ LineRecv(c) \/ DownloadRecv(c) \/ ReadAll(c)
     \/ ReadHttpStatus(c) \/ ParseHeader(c) \/ ReadBody(c)
  /\ UNCHANGED choices
Web == (WebSends \/ WebCloses \/ WebResets) /\ UNCHANGED choices
User(c) == (Connect(c) \/ ConnectAnywhere(c) \/ Type(c) \/ Quit(c)) /\ UNCHANGED choices

Next == Server \/ Web \/ \E c \in Clients : User(c) \/ Client(c)
Spec == Init /\ [][Next]_vars /\ WF_vars(Server) /\ \A c \in Clients : WF_vars(Client(c))
-----------------------------------------------------------------------------
(* What is echoed is what was sent, in its order, each item once: nothing is *)
(* lost between two ends that are open, and client.c ends with its word.     *)
EchoedOnce ==
  \A c \in Clients : kind[c] \in {"client", "sigPipeClient", "tcpclient"} =>
    /\ IsPrefix(shown[c], sent[c])
    /\ closed[c] = {} => LET held == IF serving = c THEN hold ELSE <<>>
                        IN  shown[c] \o inbox[c]["client"] \o held \o inbox[c]["server"] = sent[c]
    /\ kind[c] = "client" /\ at[c] = "ended" => shown[c] = sent[c]

(* Only a client that ends before it has read its echo ends EchoServer, for  *)
(* all: sigPipeClient, which makes one recv for two sends.                   *)
EndedByUnread ==
  program = "echo" /\ at["server"] = "ended" =>
    \E c \in Clients : kind[c] = "sigPipeClient" /\ at[c] = "ended" /\ shown[c] # sent[c]

(* A file holds the beginning of what was sent, headers and all but for      *)
(* download3.  That of download3 is whole if there was a length, unless the   *)
(* server closed; those read to the end hold all that was sent before it.    *)
FilesAreBeginnings ==
  program = "web" => LET f == shown["c1"] IN
    /\ IsPrefix(f, IF kind["c1"] = "download3" THEN Body ELSE Response)
    /\ (kind["c1"] = "download3" /\ at["c1"] = "ended" /\ Live("server", "c1")) => Len(f) = length
    /\ (kind["c1"] = "download" /\ at["c1"] = "ended") => Len(f) >= FileLen
    /\ (kind["c1"] \in {"download2", "socket", "daytimetcpcli"} /\ at["c1"] = "ended"
          /\ "client" \notin rst["c1"]) => f \o hold = Response

StreamsInv == TypeOK /\ EchoedOnce /\ EndedByUnread /\ FilesAreBeginnings

(* client.c sends its whole word before it reads: one that the inboxes and   *)
(* the server's buffer do not hold may leave both waiting to send.           *)
TooLong(c) == kind[c] = "client" /\ Len(sent[c]) + Len(out[c]) > 2 * Room + 1

(* A client.c ends, unless its word is too long or the server serves another *)
(* whose user does not type, or whose word is too long.                      *)
EchoSettles ==
  \A c \in Clients : kind[c] = "client" =>
    <>[](\/ at[c] \in Ended \/ TooLong(c)
         \/ \E d \in Clients \ {c} : serving = d /\ (at[d] = "type" \/ TooLong(d)))

(* tcpserver ends when its client has; a download ends when the server closes *)
(* or, download3, has sent the length it told.  Only download.c does not end  *)
(* when the server closes before it has the bytes it was written for.         *)
OthersSettle ==
  /\ \A c \in Clients : program = "hi" /\ serving = c /\ at[c] = "ended" ~> at["server"] = "ended"
  /\ program = "web" /\ (~Live("server", "c1") \/ (at["c1"] = "body" /\ hold = <<>> /\ length # -1)) ~>
       at["c1"] \in Ended \/ (kind["c1"] = "download" /\ Len(shown["c1"]) < FileLen)

StreamsSettle == EchoSettles /\ OthersSettle
=============================================================================
