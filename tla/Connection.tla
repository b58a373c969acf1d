----------------------------- MODULE Connection ------------------------------
(***************************************************************************)
(* The connections of the file server of src/Filesys: the accept loop, the *)
(* thread that receives a request byte by byte and parses it, and the      *)
(* answer.  A name is modelled by its length, what the file operation does *)
(* by its success or failure (module FileServer has the rest).             *)
(***************************************************************************)
EXTENDS Naturals, Sequences

CONSTANTS
  Connections, None,
  Streams,            \* what a client may send: a message, a NUL perhaps, data
  Base,               \* number of digits
  UINT_MAX, LONG_MAX, \* largest values of uint32_t and long
  FS_BLOCKSIZE, FS_MAXFILEBLOCKS, FS_MAXPATHNAME, FS_MAXUSERNAME,
  max_message_length

max_send_message_length == max_message_length + 1 + FS_BLOCKSIZE

ASSUME NumbersAssumption ==
  /\ Base \in Nat \ {0, 1}
  /\ {UINT_MAX, LONG_MAX, FS_BLOCKSIZE, FS_MAXPATHNAME, FS_MAXUSERNAME,
      max_message_length} \subseteq Nat
  /\ FS_MAXFILEBLOCKS \in 1 .. UINT_MAX
  /\ (LONG_MAX + 1) % (UINT_MAX + 1) = 0

\* A name is not empty, and the first byte of a name of one byte is its last.
Pathnames ==
  {p \in [length : Nat \ {0}, rooted : BOOLEAN, slash_at_end : BOOLEAN] :
     p.length = 1 => p.rooted = p.slash_at_end}

Messages ==
  [protocol : STRING, username : Nat \ {0}, pathname : Pathnames,
   digits : Seq(0 .. Base - 1), letters : Seq({"f", "d"})]

ASSUME StreamsAssumption ==
  \A s \in Streams : s \in [message : Messages, terminated : BOOLEAN, data : Nat]

VARIABLES
  listening,   \* is the server process alive?
  stream,      \* what the client of a connection is going to send
  sent,        \* how many bytes of it are on their way
  gone,        \* the client has closed its end
  pc,
  received,    \* length of message in Receive_message
  request,     \* the request Receive_message returns
  outcome,     \* "executed" or "failed", None if nothing was attempted
  answer       \* what the client has got back

vars == <<listening, stream, sent, gone, pc, received, request, outcome, answer>>

-----------------------------------------------------------------------------
\* A message has a protocol name, two names, and a word of digits or letters;
\* one with both, or with other spacing, matches no expression.
Find_Request_Type(m) ==
  CASE m.protocol = "FS_READBLOCK" /\ m.digits # <<>> /\ m.letters = <<>> -> "READ"
    [] m.protocol = "FS_WRITEBLOCK" /\ m.digits # <<>> /\ m.letters = <<>> -> "WRITE"
    [] m.protocol = "FS_CREATE" /\ m.digits = <<>> /\ m.letters # <<>> -> "CREATE"
    [] m.protocol = "FS_DELETE" /\ m.digits = <<>> /\ m.letters = <<>> -> "DELETE"
    [] OTHER -> "none"

to_string[n \in Nat] ==
  IF n < Base THEN <<n>> ELSE Append(to_string[n \div Base], n % Base)

ValueOf(digits) ==
  LET value[k \in 0 .. Len(digits)] ==
        IF k = 0 THEN 0 ELSE Base * value[k - 1] + digits[k]
  IN value[Len(digits)]

\* strtol stops at LONG_MAX and atoi drops the upper half.
atoi(digits) ==
  LET n == ValueOf(digits)
  IN (IF n > LONG_MAX THEN LONG_MAX ELSE n) % (UINT_MAX + 1)

Protocol == [READ |-> "FS_READBLOCK", WRITE |-> "FS_WRITEBLOCK",
             CREATE |-> "FS_CREATE", DELETE |-> "FS_DELETE"]

\* The message that Check_Valid_Message and Send_message build.
MessageOf(r) ==
  [protocol |-> Protocol[r.type], username |-> r.username, pathname |-> r.pathname,
   digits |-> IF r.type \in {"READ", "WRITE"} THEN to_string[r.block] ELSE <<>>,
   letters |-> IF r.type = "CREATE" THEN <<r.inode_type>> ELSE <<>>]

\* Mutant: the last block of a file is taken for one too many.
Check_Valid_Request_less(r) ==
  /\ r.block < FS_MAXFILEBLOCKS - 1
  /\ r.username \in 1 .. FS_MAXUSERNAME
  /\ r.pathname.length <= FS_MAXPATHNAME
  /\ r.pathname.rooted /\ ~r.pathname.slash_at_end

Check_Valid_Request(r) ==
  /\ r.block < FS_MAXFILEBLOCKS
  /\ r.username \in 1 .. FS_MAXUSERNAME
  /\ r.pathname.length <= FS_MAXPATHNAME
  /\ r.pathname.rooted /\ ~r.pathname.slash_at_end

\* Mutant: the message is not built again and compared.
Message_Parsing_unchecked(m) ==
  LET type == Find_Request_Type(m)
      r == [type |-> type, username |-> m.username, pathname |-> m.pathname,
            block |-> IF type \in {"READ", "WRITE"} THEN atoi(m.digits) ELSE 0,
            inode_type |-> IF type = "CREATE" THEN Head(m.letters) ELSE ""]
  IN IF /\ type # "none"
        /\ type \in {"READ", "WRITE"} => m.digits[1] # 0 \/ Len(m.digits) = 1
        /\ type = "CREATE" => Len(m.letters) = 1
        /\ Check_Valid_Request(r)
     THEN {r} ELSE {}

\* The request of a message, or none when a SysError is thrown.
Message_Parsing(m) ==
  LET type == Find_Request_Type(m)
      r == [type |-> type, username |-> m.username, pathname |-> m.pathname,
            block |-> IF type \in {"READ", "WRITE"} THEN atoi(m.digits) ELSE 0,
            inode_type |-> IF type = "CREATE" THEN Head(m.letters) ELSE ""]
  IN IF /\ type # "none"
        /\ type \in {"READ", "WRITE"} => m.digits[1] # 0 \/ Len(m.digits) = 1
        /\ type = "CREATE" => Len(m.letters) = 1
        /\ MessageOf(r) = m
        /\ Check_Valid_Request(r)
     THEN {r} ELSE {}

\* The bytes of a message before the NUL, a protocol name counting for one.
LengthOf(m) ==
  LET word == Len(m.digits) + Len(m.letters)
  IN 3 + m.username + m.pathname.length + (IF word = 0 THEN 0 ELSE 1 + word)

\* Every legal message fits: global.cpp adds 30 to the lengths of the names.
ASSUME LengthAssumption ==
  \A b \in 0 .. FS_MAXFILEBLOCKS - 1 :
    4 + FS_MAXUSERNAME + FS_MAXPATHNAME + Len(to_string[b]) <= max_message_length

\* What Message_Parsing may return.
Requests ==
  [type : DOMAIN Protocol, username : Nat, pathname : Pathnames,
   block : 0 .. UINT_MAX, inode_type : {"", "f", "d"}]

ASSUME NoneAssumption ==
  /\ None \notin Requests
  /\ None \notin {"executed", "failed"}
  /\ None \notin [message : Messages, data : BOOLEAN]

Header(c) == LengthOf(stream[c].message)

Total(c) == Header(c) + (IF stream[c].terminated THEN 1 + stream[c].data ELSE 0)

-----------------------------------------------------------------------------
Init ==
  /\ listening = TRUE
  /\ stream \in [Connections -> Streams]
  /\ sent = [c \in Connections |-> 0]
  /\ gone = [c \in Connections |-> FALSE]
  /\ pc = [c \in Connections |-> "accept"]
  /\ received = [c \in Connections |-> 0]
  /\ request = [c \in Connections |-> None]
  /\ outcome = [c \in Connections |-> None]
  /\ answer = [c \in Connections |-> None]

Client_sends(c) ==
  /\ ~gone[c] /\ pc[c] # "closed"
  /\ sent[c] < Total(c)
  /\ sent' = [sent EXCEPT ![c] = @ + 1]
  /\ UNCHANGED <<listening, stream, gone, pc, received, request, outcome, answer>>

Client_leaves(c) ==
  /\ ~gone[c] /\ pc[c] # "closed"
  /\ gone' = [gone EXCEPT ![c] = TRUE]
  /\ UNCHANGED <<listening, stream, sent, pc, received, request, outcome, answer>>

Go(c, where) ==
  /\ pc' = [pc EXCEPT ![c] = where]
  /\ UNCHANGED <<listening, stream, sent, gone>>

Accept(c) ==
  /\ listening
  /\ pc[c] = "accept"
  /\ Go(c, "receive")
  /\ UNCHANGED <<received, request, outcome, answer>>

\* accept fails, or no thread can be started: Create_server throws, main
\* returns, and the detached threads end wherever they are.
Accept_fails ==
  /\ listening
  /\ listening' = FALSE
  /\ pc' = [c \in Connections |-> "closed"]
  /\ UNCHANGED <<stream, sent, gone, received, request, outcome, answer>>

\* Mutant: the number of bytes is checked before the byte is added.
Receive_byte_late(c) ==
  /\ pc[c] = "receive"
  /\ received[c] < sent[c]
  /\ received[c] < Header(c)
  /\ received' = [received EXCEPT ![c] = @ + 1]
  /\ Go(c, IF received[c] > max_message_length THEN "closed" ELSE "receive")
  /\ UNCHANGED <<request, outcome, answer>>

Receive_byte(c) ==
  /\ pc[c] = "receive"
  /\ received[c] < sent[c]
  /\ received[c] < Header(c)
  /\ received' = [received EXCEPT ![c] = @ + 1]
  /\ Go(c, IF received[c] + 1 > max_message_length THEN "closed" ELSE "receive")
  /\ UNCHANGED <<request, outcome, answer>>

Receive_nul(c) ==
  /\ pc[c] = "receive"
  /\ Header(c) < sent[c]
  /\ received[c] = Header(c)
  /\ UNCHANGED <<received, outcome, answer>>
  /\ \/ \E r \in Message_Parsing(stream[c].message) :
          /\ request' = [request EXCEPT ![c] = r]
          /\ Go(c, IF r.type = "WRITE" THEN "receive_data" ELSE "execute")
     \/ /\ Message_Parsing(stream[c].message) = {}
        /\ Go(c, "closed")
        /\ UNCHANGED request

\* Mutant: a recv that returns 0 is tried again.
Receive_retries(c) ==
  /\ \/ pc[c] = "receive" /\ received[c] = sent[c]
     \/ pc[c] = "receive_data" /\ sent[c] < Header(c) + 1 + FS_BLOCKSIZE
  /\ gone[c]
  /\ UNCHANGED vars

\* recv returns nothing more: the SysError ends the thread.
Receive_fails(c) ==
  /\ \/ pc[c] = "receive" /\ received[c] = sent[c]
     \/ pc[c] = "receive_data" /\ sent[c] < Header(c) + 1 + FS_BLOCKSIZE
  /\ gone[c]
  /\ Go(c, "closed")
  /\ UNCHANGED <<received, request, outcome, answer>>

\* recv with MSG_WAITALL.
Receive_data(c) ==
  /\ pc[c] = "receive_data"
  /\ sent[c] >= Header(c) + 1 + FS_BLOCKSIZE
  /\ Go(c, "execute")
  /\ UNCHANGED <<received, request, outcome, answer>>

\* Mutant: a SysError of the file operation does not prevent the answer.
Execute_answers(c) ==
  /\ pc[c] = "execute"
  /\ \E o \in {"executed", "failed"} : outcome' = [outcome EXCEPT ![c] = o]
  /\ Go(c, "send")
  /\ UNCHANGED <<received, request, answer>>

Execute(c) ==
  /\ pc[c] = "execute"
  /\ \/ outcome' = [outcome EXCEPT ![c] = "executed"] /\ Go(c, "send")
     \/ outcome' = [outcome EXCEPT ![c] = "failed"] /\ Go(c, "closed")
  /\ UNCHANGED <<received, request, answer>>

\* The result of send is ignored: what is sent to a client that has left is lost.
Send_message(c) ==
  /\ pc[c] = "send"
  /\ Go(c, "closed")
  /\ \/ answer' = [answer EXCEPT ![c] =
          [message |-> MessageOf(request[c]), data |-> request[c].type = "READ"]]
     \/ gone[c] /\ UNCHANGED answer
  /\ UNCHANGED <<received, request, outcome>>

Thread_running(c) ==
  \/ Receive_byte(c) \/ Receive_nul(c) \/ Receive_fails(c) \/ Receive_data(c)
  \/ Execute(c) \/ Send_message(c)

\* The server waits for connections the model has not, or is no more.
Ended == (\A c \in Connections : pc[c] = "closed") /\ UNCHANGED vars

Next ==
  \/ \E c \in Connections :
       Client_sends(c) \/ Client_leaves(c) \/ Accept(c) \/ Thread_running(c)
  \/ Accept_fails
  \/ Ended

Spec == Init /\ [][Next]_vars

\* accept returns every connection made, and every thread goes on.
FairSpec ==
  /\ Spec
  /\ \A c \in Connections : WF_vars(Accept(c)) /\ WF_vars(Thread_running(c))

-----------------------------------------------------------------------------
ValidPathnames == [length : 2 .. FS_MAXPATHNAME, rooted : {TRUE}, slash_at_end : {FALSE}]

\* The requests of fs_client.h that may be carried out.
ValidRequests ==
  [type : {"READ", "WRITE"}, username : 1 .. FS_MAXUSERNAME, pathname : ValidPathnames,
   block : 0 .. FS_MAXFILEBLOCKS - 1, inode_type : {""}]
  \cup
  [type : {"CREATE"}, username : 1 .. FS_MAXUSERNAME, pathname : ValidPathnames,
   block : {0}, inode_type : {"f", "d"}]
  \cup
  [type : {"DELETE"}, username : 1 .. FS_MAXUSERNAME, pathname : ValidPathnames,
   block : {0}, inode_type : {""}]

Meanings(m) == {r \in ValidRequests : MessageOf(r) = m}

\* The bytes the server has to have before it may carry out the request.
Needed(c) ==
  Header(c) + 1 + (IF stream[c].message.protocol = "FS_WRITEBLOCK" THEN FS_BLOCKSIZE ELSE 0)

\* Counters stay in their ranges and a thread has what its position implies;
\* the message stays within the buffers sized by max_message_length.
TypeOK ==
  \A c \in Connections :
    /\ sent[c] \in 0 .. Total(c)
    /\ received[c] <= sent[c]
    /\ received[c] > max_message_length => pc[c] = "closed"
    /\ pc[c] \in {"accept", "receive"} => request[c] = None
    /\ pc[c] \in {"receive_data", "execute", "send"} => request[c] # None

\* What is carried out is the request the client's text stands for, and only
\* when all of it has arrived: text, NUL and, for a write, the whole block
\* (socket.cpp:56-78).
OnlyWholeRequests ==
  \A c \in Connections :
    pc[c] \in {"execute", "send"} \/ outcome[c] # None =>
      /\ Meanings(stream[c].message) = {request[c]}
      /\ sent[c] >= Needed(c)
      /\ stream[c].terminated

\* A well-formed request that has arrived is not dropped while the server
\* lives: no check of helper.cpp:100-193 rejects a legal message.
GoodRequestsTried ==
  \A c \in Connections :
    /\ listening /\ pc[c] = "closed"
    /\ Meanings(stream[c].message) # {}
    /\ sent[c] >= Needed(c)
    => outcome[c] # None

\* A client that gets an answer knows that its request was carried out, the
\* answer repeats its message and fits the buffer of Send_message, and a
\* client that waits for it gets one.
AnswersAreTrue ==
  \A c \in Connections :
    /\ answer[c] # None =>
         /\ outcome[c] = "executed"
         /\ answer[c].message = stream[c].message
         /\ answer[c].data <=> request[c].type = "READ"
         /\ LengthOf(answer[c].message) + 1 + (IF answer[c].data THEN FS_BLOCKSIZE ELSE 0)
              <= max_send_message_length
    /\ listening /\ pc[c] = "closed" /\ outcome[c] = "executed" /\ ~gone[c] =>
         answer[c] # None

\* A connection is closed once its client has sent what its message calls
\* for, or more than any message may have, or has left.
ConnectionsClose ==
  \A c \in Connections :
    (\/ gone[c]
     \/ sent[c] >= Needed(c)
     \/ Header(c) > max_message_length /\ sent[c] > max_message_length)
      ~> (pc[c] = "closed")
=============================================================================
