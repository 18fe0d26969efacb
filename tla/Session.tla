------------------------------ MODULE Session ------------------------------
(***************************************************************************)
(* The connection of one client and the server: sendData in main.y, main's *)
(* loop in server.c, the stream callbacks in common.c.                     *)
(*                                                                         *)
(* A message is its head (length and command) and its parts, the filters   *)
(* and settings; nanopb calls send for pieces far smaller than a part, and *)
(* Wire shows what the server makes of a message of which only some bytes  *)
(* came.  An answer goes out in packets.  Each direction holds at most     *)
(* Room of them: then send waits.                                          *)
(***************************************************************************)
EXTENDS Naturals, Sequences, SequencesExt

CONSTANTS
    Queries,    \* a statement is the sequence of its filters and settings
    Encodable,  \* those that pb_encode_delimited encodes: at most max_count of each,
                \* every text with its end inside its array
    Texts,      \* answers, sequences of characters
    Piece,      \* characters of a packet (1023)
    Room,       \* parts or packets a direction of the connection holds
    MaxQueries  \* bound: statements

Parts      == UNION {Range(q) : q \in Queries}
Characters == UNION {Range(t) : t \in Texts}

ASSUME SequenceAssumption == Queries \subseteq Seq(Parts) /\ Texts \subseteq Seq(Characters)
ASSUME EncodableAssumption == Encodable \subseteq Queries
ASSUME SizeAssumption     == Piece \in Nat \ {0} /\ Room \in Nat

VARIABLES
    client,     \* "ready" for a statement, "sending", "waiting", "gone"
    unsent,     \* parts still to be sent
    toServer, toClient,     \* the connection
    server,     \* "receiving", "answering", "ended"
    taken,      \* what the server has read of a message
    res,        \* what is still to be sent of the answer
    printed,    \* what the client printed of the current answer
    asked, performed, shown     \* history, as in Service

connection == <<toServer, toClient>>
clientVars == <<client, unsent, printed>>
serverVars == <<server, taken, res>>
history    == <<asked, performed, shown>>
vars == <<clientVars, connection, serverVars, history>>

\* Mutant of Message: the announced length is one too big.
MessageLonger(q) == IF q \in Encodable THEN <<[parts |-> Len(q) + 1]>> \o q ELSE <<>>

\* The message is measured before anything is sent; what cannot be encoded
\* fails there.
Message(q) == IF q \in Encodable THEN <<[parts |-> Len(q)]>> \o q ELSE <<>>

Init ==
    /\ client = "ready" /\ unsent = <<>> /\ printed = <<>>
    /\ toServer = <<>> /\ toClient = <<>>
    /\ server = "receiving" /\ taken = <<>> /\ res = <<>>
    /\ asked = <<>> /\ performed = <<>> /\ shown = <<>>

----------------------------------------------------------------------------
(* The client *)

\* A statement was read; parseQuery has made it a message.  "Encoding failed"
\* is printed, and the client waits for an answer all the same.
Ask(q) ==
    /\ client = "ready" /\ Len(asked) < MaxQueries
    /\ client' = IF q \in Encodable THEN "sending" ELSE "waiting"
    /\ unsent' = Message(q)
    /\ printed' = <<>>
    /\ asked' = Append(asked, q)
    /\ UNCHANGED <<connection, serverVars, performed, shown>>

\* Once the server has ended, what is sent is lost, or a signal ends the
\* client.
Send ==
    /\ client = "sending"
    /\ IF server = "ended"
       THEN /\ client' \in {IF Len(unsent) = 1 THEN "waiting" ELSE "sending", "gone"}
            /\ UNCHANGED toServer
       ELSE /\ Len(toServer) < Room
            /\ client' = IF Len(unsent) = 1 THEN "waiting" ELSE "sending"
            /\ toServer' = Append(toServer, Head(unsent))
    /\ unsent' = Tail(unsent)
    /\ UNCHANGED <<printed, toClient, serverVars, history>>

\* A packet of the answer is printed; the marked one is the last.
ShowPacket ==
    LET p == Head(toClient)
    IN  /\ client = "waiting" /\ toClient # <<>>
        /\ toClient' = Tail(toClient)
        /\ printed' = printed \o p.text
        /\ IF p.last
           THEN /\ client' = "ready"
                /\ shown' = Append(shown, [number |-> Len(asked), text |-> printed'])
           ELSE UNCHANGED <<client, shown>>
        /\ UNCHANGED <<unsent, toServer, serverVars, asked, performed>>

\* "Decode failed": sendData returns, and the next statement is read.
GiveUp ==
    /\ client = "waiting" /\ toClient = <<>> /\ server = "ended"
    /\ client' = "ready"
    /\ UNCHANGED <<unsent, printed, connection, serverVars, history>>

\* The client is killed; what it has sent still arrives.
ClientDies ==
    /\ client # "gone"
    /\ client' = "gone"
    /\ UNCHANGED <<unsent, printed, connection, serverVars, history>>

----------------------------------------------------------------------------
(* The server *)

\* handleQuery, with what was decoded; the answer is whatever it says.
Handled(parts) ==
    /\ \E t \in Texts :
          /\ res' = t
          /\ performed' = Append(performed,
                [number |-> Len(asked), parts |-> parts, text |-> t])
    /\ server' = "answering"
    /\ taken' = <<>>

\* pb_decode_delimited: part by part, until the announced length is reached.
Receive ==
    /\ server = "receiving" /\ toServer # <<>>
    /\ toServer' = Tail(toServer)
    /\ LET all == Append(taken, Head(toServer))
       IN  IF Len(all) = all[1].parts + 1
           THEN Handled(Tail(all))
           ELSE taken' = all /\ UNCHANGED <<server, res, performed>>
    /\ UNCHANGED <<clientVars, toClient, asked, shown>>

\* Mutant of Cut: the end of the input is not an error anywhere.
CutAnywhere(some) == TRUE

\* With the head alone a message can be accepted (see Wire), or the end of the
\* input was inside a part.
Cut(some) == some # <<>>

\* The client has closed the connection: the server returns, or takes what has
\* come for a message.
InputEnds ==
    /\ server = "receiving" /\ toServer = <<>> /\ client = "gone"
    /\ \/ server' = "ended" /\ UNCHANGED <<taken, res, performed>>
       \/ Cut(taken) /\ Handled(IF taken = <<>> THEN <<>> ELSE Tail(taken))
    /\ UNCHANGED <<clientVars, connection, asked, shown>>

\* More than one packet is needed for this.
More(text) == Len(text) > Piece

\* The text of the next packet.
Text == IF Len(res) <= Piece THEN res ELSE SubSeq(res, 1, Piece)

\* Mutant of Rest: res is moved past the terminator, too.
RestFarther == SubSeq(res, Piece + 2, Len(res))

\* Where res points behind a packet.
Rest == SubSeq(res, Piece + 1, Len(res))

\* Mutant of Marked: the mark is set when the next packet will be the last.
MarkedEarly == ~More(Rest)

Marked == ~More(res)

\* Mutant of CanSend: a client that is gone is waited for.
CanSendToAll == Len(toClient) < Room

\* send waits for room, unless nobody is there any more.
CanSend == client = "gone" \/ Len(toClient) < Room

\* The next packet.  If the client is gone it is lost, or a signal ends the
\* server.
Answer ==
    /\ server = "answering" /\ CanSend
    /\ toClient' = IF client = "gone" THEN toClient
                   ELSE Append(toClient, [text |-> Text, last |-> Marked])
    /\ res' = IF More(res) THEN Rest ELSE <<>>
    /\ \/ server' = IF More(res) THEN "answering" ELSE "receiving"
       \/ client = "gone" /\ server' = "ended"
    /\ UNCHANGED <<clientVars, toServer, taken, history>>

\* The server is killed.
ServerDies ==
    /\ server # "ended"
    /\ server' = "ended"
    /\ UNCHANGED <<clientVars, connection, taken, res, history>>

ClientStep == Send \/ ShowPacket \/ GiveUp
ServerStep == Receive \/ InputEnds \/ Answer

Next ==
    \/ ClientStep \/ ServerStep
    \/ \E q \in Queries : Ask(q)
    \/ ClientDies \/ ServerDies

\* Each side goes on when it can; nobody has to ask, and nobody has to die.
Spec == Init /\ [][Next]_vars /\ WF_vars(ClientStep) /\ WF_vars(ServerStep)

----------------------------------------------------------------------------
(* Properties *)

TypeOK ==
    /\ client \in {"ready", "sending", "waiting", "gone"}
    /\ server \in {"receiving", "answering", "ended"}
    /\ (client = "sending") => unsent # <<>>
    /\ Len(toServer) <= Room /\ Len(toClient) <= Room
    /\ Len(taken) <= 1 \/ Len(taken) <= taken[1].parts
    /\ Len(performed) <= Len(asked) /\ Len(shown) <= Len(performed)

\* What is on the way, what the client has printed and what the server has
\* still to send are the answer of the statement last asked, piece by piece:
\* nothing of another answer is ever between them, nothing is lost or doubled.
Joined(packets) == FlattenSeq([i \in DOMAIN packets |-> packets[i].text])
PiecesMakeTheAnswer ==
    client = "waiting" /\ server # "ended" =>
        IF performed # <<>> /\ Last(performed).number = Len(asked)
        THEN printed \o Joined(toClient) \o res = Last(performed).text
        ELSE printed = <<>> /\ toClient = <<>> /\ res = <<>>

\* A client that is ready, or sends, leaves nothing behind on the connection:
\* the answer to one statement is never read as the answer to the next.
NothingLeft == client \in {"ready", "sending"} => toClient = <<>>

\* The client and the server together are what Service promises.
Promise == INSTANCE Service WITH gone <- client = "gone"
ServiceSpec == Promise!Spec

\* Every statement that can be encoded comes to an end: it is answered, the
\* client learns that it cannot be, or is gone.  Packets that fill the
\* connection do not stop it, nor does what came before.  (With a statement
\* that cannot be encoded both sides wait for each other.)
StatementsEnd ==
    client \in {"sending", "waiting"} /\ Last(asked) \in Encodable ~> client \in {"ready", "gone"}

\* The server does not wait for ever for a client that is gone.
ServerEnds == client = "gone" ~> server = "ended"

=============================================================================
