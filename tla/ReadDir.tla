------------------------------- MODULE ReadDir -------------------------------
(***************************************************************************)
(* The request behind the listing of a server's directory: the GET of      *)
(* "path/" into a string (curlaccessor.cpp:127-143, 185-190, 205-210) and  *)
(* Direntries::from_json (dirent.cpp).                                     *)
(*                                                                         *)
(* A body is a sequence of tokens [token, name, val]: the opening bracket, *)
(* one token "entry" per entry, "end".  It arrives in pieces.  The         *)
(* connection may break, or the server may end a body without length       *)
(* early, which curl does not notice.  Redirects are followed by curl; the *)
(* answer here is the last one.                                            *)
(***************************************************************************)
EXTENDS FileStat, Sequences, SequencesExt

CONSTANTS
  Documents,   \* bodies a server may send
  Statuses     \* and the statuses it sends them with

VARIABLES
  step,        \* "idle", "request", "body", "answered"
  answered,    \* m_res_status
  type,        \* m_content_type
  document,    \* what the server is sending, for the property only
  incoming,    \* what of it has not arrived
  m_body

Init ==
  /\ step = "idle"
  /\ answered = 0 /\ type = ""
  /\ document = << >> /\ incoming = << >> /\ m_body = << >>

Begin ==
  /\ step = "idle"
  /\ step' = "request"
  /\ UNCHANGED <<answered, type, document, incoming, m_body>>

(* The headers: with the Accept header text/json;hash a server that has    *)
(* mod_index_json answers text/json, any other sends a page.               *)
Headers ==
  /\ step = "request"
  /\ \E d \in Documents, s \in Statuses, t \in {"text/json", "text/html"} :
       answered' = s /\ type' = t /\ document' = d /\ incoming' = d
  /\ step' = "body"
  /\ UNCHANGED m_body

\* write_callback_string takes every piece.
Piece(n) ==
  /\ step = "body"
  /\ m_body' = m_body \o SubSeq(incoming, 1, n)
  /\ incoming' = SubSeq(incoming, n + 1, Len(incoming))
  /\ UNCHANGED <<step, answered, type, document>>

\* A server ends a body at any place.
EndBody ==
  /\ step = "body"
  /\ step' = "answered"
  /\ UNCHANGED <<answered, type, document, incoming, m_body>>

\* log_request_failed() overwrites the status with minus curl's error.
BreakBody ==
  /\ step = "request" \/ (step = "body" /\ incoming # << >>)
  /\ answered' = -18
  /\ step' = "answered"
  /\ UNCHANGED <<type, document, incoming, m_body>>

Reset ==
  /\ step = "answered"
  /\ step' = "idle"
  /\ answered' = 0 /\ type' = ""
  /\ document' = << >> /\ incoming' = << >> /\ m_body' = << >>

-----------------------------------------------------------------------------
(* The entries between the brackets of a body. *)
EntriesOf(body) == SelectSeq(body, LAMBDA t : t.token = "entry")

\* A bug: what could be parsed before an error is used.
IsParsedPrefix(body) ==
  body # << >> /\ body[1].token \in {"[", "{"} /\ EntriesOf(body) # << >>

(* from_json() throws nothing: the text parses, begins with a bracket and  *)
(* is not empty.                                                           *)
IsParsed(body) ==
  /\ body # << >> /\ body[1].token \in {"[", "{"} /\ Last(body).token = "end"
  /\ EntriesOf(body) # << >>

\* In an array there are names only, and each is taken for a directory.
FileStatOf(form, e) ==
  IF form = "[" THEN DefaultFileStat ELSE FromJson(DefaultFileStat, e.val)

(* The names, each with its FileStat. *)
Direntries(body) ==
  LET entries == EntriesOf(body)
  IN  [i \in DOMAIN entries |->
         [name |-> entries[i].name, fs |-> FileStatOf(body[1].token, entries[i])]]

(* readdir() takes only a 200 of the right type. *)
Accepted == answered = 200 /\ type = "text/json" /\ IsParsed(m_body)
=============================================================================
