----------------------------- MODULE RpcResponse -----------------------------
(***************************************************************************)
(* What a text on the `rpc` channel says to the request whose id it may    *)
(* carry (src/rpc.rs, and the `rpc` label in src/connection.rs).  A text   *)
(* is a JSON object, member by member, or something else.  The request     *)
(* stands for any that waits; when it does is modelled in RpcSession.      *)
(***************************************************************************)
EXTENDS Naturals, Sequences, SequencesExt

CONSTANTS Members,   \* that a server writes into a response
          MaxMembers \* bound

ASSUME RpcResponseAssumption ==
  /\ MaxMembers \in Nat
  /\ \A m \in Members :
       DOMAIN m = {"name", "value", "members"} /\ m.members \in Seq(ToSet(m.members))

VARIABLES form,    \* "object", or "malformed", or "array" for any other JSON value
          written, \* the members so far
          settled  \* what the request's caller learns: "unread" at first

responseVars == <<form, written, settled>>

\* The members of `error` are empty unless its value is an object.
Member(name, value) == [name |-> name, value |-> value, members |-> <<>>]
ErrorMember(members) == [name |-> "error", value |-> "object", members |-> members]

ResponseTypeOK ==
  /\ form \in {"object", "malformed", "array"}
  /\ written \in Seq(Members)
  /\ settled \in {"unread", "nothing", "response", "violation"}

ResponseInit ==
  /\ form \in {"object", "malformed", "array"}
  /\ written = <<>>
  /\ settled = "unread"

-----------------------------------------------------------------------------
(* RpcResponse::parse                                                      *)

\* The loops over the members of an object.
Scan(members) ==
  FoldLeft(LAMBDA scanned, m :
             [seen |-> scanned.seen \cup {m.name},
              duplicated |-> scanned.duplicated \cup (scanned.seen \cap {m.name})],
           [seen |-> {}, duplicated |-> {}], members)

\* to_member(...).optional() has a value.
HasMember(members, name, value) ==
  LET first == SelectInSeq(members, LAMBDA m : m.name = name)
  IN  first # 0 /\ members[first].value = value

\* Mutated: the first of several ids is trusted.
TrustedIsFirst(members) == HasMember(members, "id", "ours")

\* Whether trusted_id is the request's: an id that is null or no u64 is none.
TrustedIsOurs(members) ==
  "id" \notin Scan(members).duplicated /\ HasMember(members, "id", "ours")

\* A code that has a fraction, an exponent or more than 32 bits is no i32.
ParseErrorObject(error) ==
  /\ error.value = "object"
  /\ {"code", "message", "data"} \cap Scan(error.members).duplicated = {}
  /\ HasMember(error.members, "code", "i32")
  /\ HasMember(error.members, "message", "string")

ParsesAsResponse(members) ==
  LET scanned == Scan(members)
  IN  /\ {"jsonrpc", "result", "error"} \cap scanned.duplicated = {}
      /\ HasMember(members, "jsonrpc", "2.0")
      /\ \/ "result" \in scanned.seen /\ "error" \notin scanned.seen
         \/ /\ "error" \in scanned.seen /\ "result" \notin scanned.seen
            /\ ParseErrorObject(members[SelectInSeq(members, LAMBDA m : m.name = "error")])

-----------------------------------------------------------------------------
\* A server writes on.
WriteMember ==
  /\ form = "object" /\ settled = "unread" /\ Len(written) < MaxMembers
  /\ \E m \in Members : written' = Append(written, m)
  /\ UNCHANGED <<form, settled>>

\* handle_data_channel_message on the `rpc` label.
HandleRpcMessage ==
  /\ settled = "unread"
  /\ settled' = IF form # "object" \/ ~TrustedIsOurs(written) THEN "nothing"
                ELSE IF ParsesAsResponse(written) THEN "response"
                ELSE "violation"
  /\ UNCHANGED <<form, written>>

ResponseNext == WriteMember \/ HandleRpcMessage

ResponseSpec == ResponseInit /\ [][ResponseNext]_responseVars

-----------------------------------------------------------------------------
(* Properties                                                              *)

\* JSON-RPC 2.0, section 5, of an object whose names are unique where they matter.
Unique(members, name) == \E i \in DOMAIN members : \A j \in DOMAIN members : members[j].name = name <=> i = j
Lacks(members, name) == \A j \in DOMAIN members : members[j].name # name

\* A request is settled by a text that carries its id, alone, and by no other: with the
\* response if that is what the text is by JSON-RPC 2.0, else with a violation; so a text
\* that may be meant for another request leaves this one waiting.
RepliesAreJudged ==
  LET The(members, name) == members[CHOOSE i \in DOMAIN members : members[i].name = name]
      Is(members, name, value) == Unique(members, name) /\ The(members, name).value = value
      IsErrorObject(m) ==
        /\ m.value = "object"
        /\ Is(m.members, "code", "i32") /\ Is(m.members, "message", "string")
        /\ Unique(m.members, "data") \/ Lacks(m.members, "data")
      IsResponse ==
        /\ Is(written, "jsonrpc", "2.0")
        /\ \/ Unique(written, "result") /\ Lacks(written, "error")
           \/ /\ Unique(written, "error") /\ Lacks(written, "result")
              /\ IsErrorObject(The(written, "error"))
      IsOurs == form = "object" /\ Is(written, "id", "ours")
  IN  settled # "unread" =>
        /\ settled = "response" <=> IsOurs /\ IsResponse
        /\ settled = "violation" <=> IsOurs /\ ~IsResponse
=============================================================================
