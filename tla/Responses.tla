----------------------------- MODULE Responses -----------------------------
(***************************************************************************)
(* RestResponse and WsResponse: how they are built, and hasErrorCode(),     *)
(* which the user's handler may call any number of times and which changes  *)
(* the response it is asked about.                                          *)
(*                                                                          *)
(* Of the JSON only what hasErrorCode looks at is kept: null, an object     *)
(* with or without the members "error", "code" and "msg", or another value. *)
(* A "code" is 200, another number, or not a number; a "msg" is text or not.*)
(***************************************************************************)
EXTENDS Naturals

VARIABLES
  class,   \* "rest" or "ws", "none" before the response is built
  source,  \* what it was built from: "reason", "json", "Success", "Disconnect"
  resp,    \* the response
  asked    \* history: last answer to hasErrorCode(isNullAllowed), by argument

vars == <<class, source, resp, asked>>

NoMembers == [error |-> FALSE, code |-> "none", msg |-> "none"]

Members == [error : BOOLEAN, code : {"none", "200", "number", "text"},
            msg : {"none", "text", "other"}]

Json == [type : {"null", "other"}, has : {NoMembers}]
          \cup [type : {"object"}, has : Members]

Null == [type |-> "null", has |-> NoMembers]

TypeOK ==
  /\ class \in {"none", "rest", "ws"}
  /\ source \in {"none", "reason", "json", "Success", "Disconnect"}
  /\ resp \in [json : Json, state : {"Fail", "Success", "Disconnect"},
               failMessage : {"", "reason", "msg"}]
  /\ asked \in [BOOLEAN -> {"never", "error", "fine"}]

Init ==
  /\ class = "none"
  /\ source = "none"
  /\ resp = [json |-> Null, state |-> "Success", failMessage |-> ""]
  /\ asked = [nullAllowed \in BOOLEAN |-> "never"]

-----------------------------------------------------------------------------
(* The constructors.                                                         *)

Builds(c, s, r) ==
  /\ class = "none"
  /\ class' = c
  /\ source' = s
  /\ resp' = r
  /\ UNCHANGED asked

\* RestResponse(string), WsResponse(string_view)
FromReason(c) ==
  Builds(c, "reason", [json |-> Null, state |-> "Fail", failMessage |-> "reason"])

\* RestResponse(json::value&&), WsResponse(json::value&&)
FromJson(c, j) ==
  Builds(c, "json", [json |-> j, state |-> "Success", failMessage |-> ""])

\* WsResponse(State), which stopWebSocket and the listen key's calls use.
FromState(s) ==
  Builds("ws", s, [json |-> Null, state |-> s, failMessage |-> ""])

-----------------------------------------------------------------------------
(* hasErrorCode.                                                             *)

HasCode(j) == j.has.code # "none"

\* Null is an error unless allowed; a member "error" always is; a "code" is
\* for WsResponse, and for RestResponse if it is not 200 (or no number at all:
\* value_to throws, and the catch-all makes that an error).
IsError(c, j, nullAllowed) ==
  \/ j.type = "null" /\ ~nullAllowed
  \/ j.type = "object" /\ j.has.error
  \/ j.type = "object" /\ HasCode(j) /\ (c = "rest" => j.has.code # "200")

\* RestResponse looks for the message only under a numeric code that is not
\* 200, and only without "error"; WsResponse under every code.
TakesMessage(c, j) ==
  /\ j.type = "object"
  /\ IF c = "rest" THEN ~j.has.error /\ j.has.code = "number" ELSE HasCode(j)

\* Mutant: the text itself is kept, whatever it is.
Message_Unchecked(c, r) ==
  IF TakesMessage(c, r.json) THEN r.json.has.msg ELSE r.failMessage

\* A "msg" that is not text throws before it is assigned.
Message(c, r) ==
  IF TakesMessage(c, r.json) /\ r.json.has.msg # "other"
  THEN IF r.json.has.msg = "text" THEN "msg" ELSE ""
  ELSE r.failMessage

\* Mutants: the object is moved out of the response; the message goes when
\* there is no error.
Judge_Moves(c, r, nullAllowed) ==
  IF r.state = "Disconnect"
  THEN r
  ELSE [json |-> [r.json EXCEPT !.has = NoMembers],
        state |-> IF IsError(c, r.json, nullAllowed) THEN "Fail" ELSE "Success",
        failMessage |-> Message(c, r)]

Judge_Clears(c, r, nullAllowed) ==
  LET error == IsError(c, r.json, nullAllowed)
  IN  IF r.state = "Disconnect"
      THEN r
      ELSE [json |-> r.json,
            state |-> IF error THEN "Fail" ELSE "Success",
            failMessage |-> IF error THEN Message(c, r) ELSE ""]

\* What the response becomes; one that reports a Disconnect stays as it is.
Judge(c, r, nullAllowed) ==
  IF r.state = "Disconnect"
  THEN r
  ELSE [json |-> r.json,
        state |-> IF IsError(c, r.json, nullAllowed) THEN "Fail" ELSE "Success",
        failMessage |-> Message(c, r)]

hasErrorCode(nullAllowed) ==
  /\ class # "none"
  /\ resp' = Judge(class, resp, nullAllowed)
  /\ asked' = [asked EXCEPT ![nullAllowed] =
                 IF resp'.state = "Fail" THEN "error" ELSE "fine"]
  /\ UNCHANGED <<class, source>>

Next ==
  \/ \E c \in {"rest", "ws"} : FromReason(c) \/ \E j \in Json : FromJson(c, j)
  \/ \E s \in {"Success", "Disconnect"} : FromState(s)
  \/ \E nullAllowed \in BOOLEAN : hasErrorCode(nullAllowed)

Spec == Init /\ [][Next]_vars

-----------------------------------------------------------------------------
(* Properties.                                                               *)

\* A response made for a failure (a fail overload) is an error to a handler
\* that asks hasErrorCode(), and its reason is still there, in whatever order
\* and however often it was asked before.  (hasErrorCode(true) finds no error
\* in it: its JSON is null, as an empty answer's is.)
FailureStays ==
  source = "reason" => asked[FALSE] # "fine" /\ resp.failMessage = "reason"

\* "Check if there is an error in the result": asked again, the response gives
\* the same answer, though every call writes to it.
SameAnswer ==
  [][\A nullAllowed \in BOOLEAN :
       asked[nullAllowed] # "never" => asked'[nullAllowed] = asked[nullAllowed]]_vars
=============================================================================
