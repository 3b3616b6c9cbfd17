------------------------------- MODULE SDRPP -------------------------------
(***************************************************************************)
(* The SDR++ extension (lua-executor/Extensions/SDR++): remote control of  *)
(* a receiver over one TCP connection.  A command is one line; its reply   *)
(* is recognised by nothing but the pause after it: the first character is *)
(* waited for, the others are read until none is there.                    *)
(*                                                                         *)
(* A unit of the stream is the text of a line, tagged with the command it  *)
(* answers, or the newline behind it.                                      *)
(***************************************************************************)
EXTENDS Integers, Sequences

CONSTANT MaxCommands   \* bound: commands sent

ASSUME SDRPPAssumption == MaxCommands \in Nat

VARIABLES
    whole,      \* the network delivers every reply as a whole
    reader_pc,  \* "idle", or what sdrpp_read_command_result is reading
    open,       \* sdrpp->socket is not nullptr
    command,    \* number and kind of the last command
    buffer,     \* units of the line that is being read
    buffers,    \* the lines read
    answer,     \* what the last call returned: success and the lines behind it
    replies,    \* the replies the server sent, on their way
    received,   \* units that have arrived and wait to be read
    peerClosed  \* the server has closed the connection

clientVars == <<reader_pc, open, command, buffer, buffers, answer>>
serverVars == <<replies, received, peerClosed>>
sdrppVars  == <<whole, clientVars, serverVars>>

(* start, stop, quit, the recorder and the two setters are all "action".   *)
Kinds   == {"action", "get_mode", "get_freq"}
Newline == "\n"

(* The lines the server answers a command with: values, or how it went.    *)
Answers(kind) ==
    CASE kind = "action"   -> {<<"RPRT 0">>, <<"RPRT 1">>}
      [] kind = "get_mode" -> {<<"mode", "bandwidth">>, <<"RPRT 1">>}
      [] kind = "get_freq" -> {<<"frequency">>, <<"RPRT 1">>}

Texts == {"RPRT 0", "RPRT 1", "mode", "bandwidth", "frequency"}
Unit  == [n : Nat, text : Texts \cup {Newline}]

(* The text and the newline of one line or of two.                         *)
Said(n, text) == [n |-> n, text |-> text]
Reply(n, texts) ==
    IF Len(texts) = 1
    THEN <<Said(n, texts[1]), Said(n, Newline)>>
    ELSE <<Said(n, texts[1]), Said(n, Newline), Said(n, texts[2]), Said(n, Newline)>>

Command  == [n : Nat, kind : Kinds \cup {"none"}]
NoAnswer == [success |-> FALSE, lines |-> <<>>]

SDRPPTypeOK ==
    /\ reader_pc \in {"idle", "first", "more"}
    /\ {whole, open, peerClosed} \subseteq BOOLEAN
    /\ command \in Command
    /\ {buffer, received} \subseteq Seq(Unit)
    /\ {buffers, replies} \subseteq Seq(Seq(Unit))
    /\ answer \in [success : BOOLEAN, lines : Seq(Seq(Unit))]

SDRPPInit ==
    /\ whole \in BOOLEAN
    /\ reader_pc = "idle"
    /\ open = FALSE
    /\ command = [n |-> 0, kind |-> "none"]
    /\ buffer = <<>>
    /\ buffers = <<>>
    /\ answer = NoAnswer
    /\ replies = <<>>
    /\ received = <<>>
    /\ peerClosed = FALSE

-----------------------------------------------------------------------------
(* The connection.  What was on its way is lost with the socket.           *)

Closed == open' = FALSE /\ replies' = <<>> /\ received' = <<>> /\ peerClosed' = FALSE

(* An open connection is given up first; resolving the host, opening the   *)
(* socket or connecting may fail and leave none.                           *)
sdrpp_connect ==
    /\ reader_pc = "idle"
    /\ open' \in BOOLEAN
    /\ replies' = <<>>
    /\ received' = <<>>
    /\ peerClosed' = FALSE
    /\ UNCHANGED <<reader_pc, command, buffer, buffers, answer>>

Disconnect ==
    /\ reader_pc = "idle"
    /\ open
    /\ Closed
    /\ UNCHANGED <<reader_pc, command, buffer, buffers, answer>>

-----------------------------------------------------------------------------
(* A call sends its command and reads the result.                          *)

NewCommand(kind) ==
    /\ reader_pc = "idle"
    /\ command.n < MaxCommands
    /\ command' = [n |-> command.n + 1, kind |-> kind]

(* The server answers every command it gets: the reply is on its way.      *)
SendCommand(kind) ==
    /\ NewCommand(kind)
    /\ open
    /\ IF peerClosed
       THEN UNCHANGED replies
       ELSE \E texts \in Answers(kind) :
                replies' = Append(replies, Reply(command'.n, texts))
    /\ buffer' = <<>>
    /\ buffers' = <<>>
    /\ reader_pc' = "first"
    /\ UNCHANGED <<open, answer, received, peerClosed>>

(* Not connected, or sending failed: the call returns false and the socket *)
(* is gone.                                                                *)
SendFails(kind) ==
    /\ NewCommand(kind)
    /\ answer' = NoAnswer
    /\ Closed
    /\ UNCHANGED <<reader_pc, buffer, buffers>>

(* The first character, a newline too, goes to the buffer.                 *)
ReadFirst ==
    /\ reader_pc = "first"
    /\ received # <<>>
    /\ buffer' = <<Head(received)>>
    /\ received' = Tail(received)
    /\ reader_pc' = "more"
    /\ UNCHANGED <<open, command, buffers, answer, replies, peerClosed>>

ReadMore ==
    /\ reader_pc = "more"
    /\ received # <<>>
    /\ received' = Tail(received)
    /\ IF Head(received).text = Newline
       THEN buffers' = Append(buffers, buffer) /\ buffer' = <<>>
       ELSE buffer' = Append(buffer, Head(received)) /\ UNCHANGED buffers
    /\ UNCHANGED <<reader_pc, open, command, answer, replies, peerClosed>>

(* What the functions make of the lines.  The text of an action's line is  *)
(* compared, those of the getters are converted whatever they say: that a  *)
(* frequency could not be had is taken for one.                            *)
Texts1 == [i \in DOMAIN buffers[1] |-> buffers[1][i].text]
Succeeds ==
    CASE command.kind = "action"   -> Len(buffers) = 1 /\ Texts1 = <<"RPRT 0">>
      [] command.kind = "get_mode" -> Len(buffers) = 2
      [] command.kind = "get_freq" -> Len(buffers) = 1

ReturnResult ==
    /\ answer' = [success |-> Succeeds, lines |-> IF Succeeds THEN buffers ELSE <<>>]
    /\ reader_pc' = "idle"
    /\ buffer' = <<>>
    /\ buffers' = <<>>
    /\ UNCHANGED command

(* Nothing is there to be read: the reply is taken to be complete.         *)
ReadNothing ==
    /\ reader_pc = "more"
    /\ received = <<>>
    /\ ReturnResult
    /\ UNCHANGED <<open, serverVars>>

(* Mutant: the socket stays open after an error.                           *)
ReadFailsKeepsSocket ==
    /\ reader_pc # "idle"
    /\ IF reader_pc = "more"
       THEN ReturnResult
       ELSE /\ answer' = NoAnswer
            /\ reader_pc' = "idle"
            /\ UNCHANGED <<command, buffer, buffers>>
    /\ UNCHANGED <<open, serverVars>>

(* Mutant: the end of the connection goes unnoticed at the first read.     *)
ReadFailsLater ==
    /\ reader_pc = "more"
    /\ ReturnResult
    /\ Closed

(* The end of the connection, or an error of the socket: it is disconnected*)
(* and the first read fails the call, a later one completes it.            *)
ReadResultFails ==
    /\ reader_pc # "idle"
    /\ IF reader_pc = "more"
       THEN ReturnResult
       ELSE /\ answer' = NoAnswer
            /\ reader_pc' = "idle"
            /\ UNCHANGED <<command, buffer, buffers>>
    /\ Closed

-----------------------------------------------------------------------------
(* The network and the server.                                             *)

(* TCP delivers in order: some part of the oldest reply, or all of it.     *)
Arrive ==
    /\ replies # <<>>
    /\ \E k \in 1 .. Len(Head(replies)) :
         /\ whole => k = Len(Head(replies))
         /\ received' = received \o SubSeq(Head(replies), 1, k)
         /\ replies' = IF k = Len(Head(replies))
                       THEN Tail(replies)
                       ELSE <<SubSeq(Head(replies), k + 1, Len(Head(replies)))>> \o Tail(replies)
    /\ UNCHANGED <<clientVars, peerClosed>>

ServerCloses ==
    /\ open
    /\ ~peerClosed
    /\ peerClosed' = TRUE
    /\ UNCHANGED <<clientVars, replies, received>>

-----------------------------------------------------------------------------

CloseNoticed == ReadResultFails /\ peerClosed /\ replies = <<>> /\ received = <<>>
Reading == ReadFirst \/ ReadMore \/ ReadNothing \/ CloseNoticed

ReaderStep ==
    \/ sdrpp_connect \/ Disconnect
    \/ \E kind \in Kinds : SendCommand(kind) \/ SendFails(kind)
    \/ ReadFirst \/ ReadMore \/ ReadNothing \/ ReadResultFails
    \/ Arrive \/ ServerCloses

SDRPPNext == ReaderStep /\ UNCHANGED whole

SDRPPSpec == SDRPPInit /\ [][SDRPPNext]_sdrppVars

(* The calling thread runs on, and what the server sent arrives.  The first*)
(* character is waited for without a timeout: a server that neither        *)
(* answers nor closes would keep the call for ever.                        *)
SDRPPFairSpec ==
    SDRPPSpec /\ WF_sdrppVars(Reading /\ UNCHANGED whole) /\ WF_sdrppVars(Arrive /\ UNCHANGED whole)

-----------------------------------------------------------------------------

(* A call that reports success hands out the lines of its own reply, all   *)
(* of them, also when the connection broke while they were read: never the *)
(* rest of an earlier reply (main.cpp:297-306).  That they are values, and *)
(* not the error to which get_freq replies success too, it does not say.   *)
(* A reply that comes in pieces, a pause between them, is taken for        *)
(* complete too early: then this does not hold.                            *)
TrueAnswer ==
    whole /\ reader_pc = "idle" /\ answer.success =>
        \E texts \in Answers(command.kind) :
            /\ Len(answer.lines) = Len(texts)
            /\ \A i \in DOMAIN texts :
                   answer.lines[i] = <<[n |-> command.n, text |-> texts[i]]>>

(* Between two calls an open connection is in step: no reply is left over, *)
(* sent or on its way, for the next call to mistake for its own.           *)
InStep == whole /\ reader_pc = "idle" /\ open => replies = <<>> /\ received = <<>>

(* A call returns, as the server answers or closes (main.cpp:274).         *)
CallReturns == reader_pc # "idle" ~> reader_pc = "idle"

(* The types, and a connection that stays in step with its server.         *)
SDRPPInv == SDRPPTypeOK /\ InStep
=============================================================================
