------------------------------ MODULE ByteFile ------------------------------
(***************************************************************************)
(* What Gopherwood promises of one file: an array of bytes that handles     *)
(* read and write at their own positions.  A handle knows the file up to    *)
(* some EOF, which lags behind the file but never goes back; a new handle   *)
(* knows the EOF that is published; nothing is unpublished once every       *)
(* handle is closed; and the file can go away only when nobody has it open. *)
(***************************************************************************)
EXTENDS Integers, Sequences

CONSTANTS Clients

VARIABLES exists,     \* the file exists
          content,    \* its bytes
          published,  \* the EOF that a new handle gets
          open,       \* the clients with a handle
          known,      \* client -> the EOF its handle knows
          pos         \* client -> the position of its handle

bvars == <<exists, content, published, open, known, pos>>

BFInit ==
  /\ exists = FALSE /\ content = <<>> /\ published = 0 /\ open = {}
  /\ known = [c \in Clients |-> 0] /\ pos = [c \in Clients |-> 0]

\* The EOFs may catch up with the file, and only that.
CatchUp(c) ==
  /\ published' \in published .. Len(content')
  /\ known'[c] \in known[c] .. Len(content')
  /\ known' = [known EXCEPT ![c] = known'[c]]

OpenFile(c) ==
  /\ c \notin open
  /\ open' = open \cup {c} /\ exists' = TRUE
  /\ known' = [known EXCEPT ![c] = published] /\ pos' = [pos EXCEPT ![c] = 0]
  /\ UNCHANGED <<content, published>>

SeekTo(c) ==
  /\ c \in open
  /\ \E p \in 0 .. known[c] : pos' = [pos EXCEPT ![c] = p]
  /\ UNCHANGED <<exists, content, published, open, known>>

Synchronise(c) ==
  /\ c \in open
  /\ CatchUp(c)
  /\ UNCHANGED <<exists, content, open, pos>>

ReadBytes(c) ==
  /\ c \in open
  /\ \E p \in pos[c] .. known[c] : pos' = [pos EXCEPT ![c] = p]
  /\ UNCHANGED <<exists, content, published, open, known>>

\* Bytes from the position on are overwritten or appended: byte p gets the value p, the
\* bytes a seek passes are not specified.
WriteBytes(c) ==
  /\ c \in open
  /\ \E n \in 1 .. Len(content') - pos[c] :
       /\ pos' = [pos EXCEPT ![c] = @ + n]
       /\ known' = [known EXCEPT ![c] = IF pos'[c] > @ THEN pos'[c] ELSE @]
       /\ Len(content') = IF pos'[c] > Len(content) THEN pos'[c] ELSE Len(content)
       /\ \A i \in 1 .. Len(content') \ pos[c] + 1 .. pos[c] + n : content'[i] = content[i]
       /\ \/ \A i \in pos[c] + 1 .. pos[c] + n : content'[i] = i
          \/ pos[c] = known[c]
  /\ UNCHANGED <<exists, published, open>>

CloseFile(c) ==
  /\ c \in open
  /\ open' = open \ {c}
  /\ known' = [known EXCEPT ![c] = 0] /\ pos' = [pos EXCEPT ![c] = 0]
  /\ \/ /\ published' \in published .. Len(content)
        /\ open' = {} => published' = Len(content)
        /\ UNCHANGED <<exists, content>>
     \/ /\ open' = {}
        /\ exists' = FALSE /\ content' = <<>> /\ published' = 0

BFNext ==
  \E c \in Clients : \/ OpenFile(c) \/ SeekTo(c) \/ Synchronise(c)
                     \/ ReadBytes(c) \/ WriteBytes(c) \/ CloseFile(c)

BFSpec == BFInit /\ [][BFNext]_bvars
=============================================================================
