-------------------------------- MODULE HttpApi --------------------------------
(***************************************************************************)
(* One request on its way through the HTTP layer of the API: the router    *)
(* (main.go:57-60), RequestLogger (internal/middleware/logging.go), the    *)
(* generated wrappers and strict handlers (internal/api/api.gen.go) and    *)
(* the response.  The five operations are alike in all but their           *)
(* parameters, their answers and the calls their handlers make             *)
(* (internal/handlers/videos.go), so one action stands for the same step   *)
(* of each.                                                                *)
(*                                                                         *)
(* On the wire the first status line counts; RequestLogger logs the last   *)
(* one its recorder saw.                                                   *)
(***************************************************************************)
EXTENDS Naturals, Sequences

CONSTANT None

VARIABLES
    op,        \* the operation the router chose
    ok,        \* whether the request's id or body is well-formed
    stage,     \* where the request is
    called,    \* how many calls the handler has made
    resp,      \* the answer of the handler
    wire,      \* the status line the client was sent
    recorded,  \* statusRecorder.status
    (* observed, not read by the program *)
    effect,    \* the writes of the handler that took effect
    cut        \* writing the body failed

httpVars == <<op, ok, stage, called, resp, wire, recorded, effect, cut>>

Pages == {"docs", "openapi"}

\* The calls of each handler to the videos table, the store and the stream, in
\* their order.
Calls == [ListVideos |-> <<"select">>, CreateVideo |-> <<"insert", "presign">>,
          GetVideo |-> <<"select">>, CompleteVideo |-> <<"select", "update", "xadd">>,
          GetVideoKey |-> <<"select">>]
Writes == {"insert", "update", "xadd"}
Operations == DOMAIN Calls
Takes(what) ==
    IF what = "id" THEN {"GetVideo", "CompleteVideo", "GetVideoKey"}
                   ELSE {"CreateVideo"}
Accepted(o) == IF o = "CreateVideo" THEN 201 ELSE 200
Error == 500       \* a handler's error, which becomes this status
Status == {200, 201, 400, 404, Error}

ASSUME HttpAssumption == None \notin Status

HttpTypeOK ==
    /\ op \in Operations \cup Pages \cup {"unmatched", None}
    /\ ok \in BOOLEAN /\ effect \in SUBSET Writes /\ cut \in BOOLEAN
    /\ called \in Nat
    /\ stage \in {"idle", "bind", "decode", "handle", "visit", "body", "page", "done"}
    /\ {resp, wire, recorded} \subseteq Status \cup {None}

HttpInit ==
    /\ op = None /\ ok = TRUE /\ stage = "idle" /\ called = 0 /\ resp = None
    /\ wire = None /\ recorded = None /\ effect = {} /\ cut = FALSE

\* [variant] The recorder passes the status on without keeping it.
PassHeader(code) ==
    /\ wire' = IF wire = None THEN code ELSE wire
    /\ UNCHANGED recorded

\* statusRecorder.WriteHeader; net/http ignores all but the first.
WriteHeader(code) ==
    /\ wire' = IF wire = None THEN code ELSE wire
    /\ recorded' = code

\* The router: a request that matches no route is answered 404 or 405 outside
\* the middleware; one that matches is given a recorder.
Accept(o, good) ==
    /\ stage = "idle"
    /\ op' = o /\ ok' = good
    /\ \/ o = "unmatched" /\ stage' = "done" /\ wire' = 404 /\ UNCHANGED recorded
       \/ /\ o \in Operations \cup Pages
          /\ stage' = IF o \in Pages THEN "page" ELSE "bind"
          /\ recorded' = 200
          /\ UNCHANGED wire
    /\ UNCHANGED <<called, resp, effect, cut>>

\* The wrapper binds the path parameter id.
BindId ==
    /\ stage = "bind"
    /\ IF op \in Takes("id") /\ ~ok
       THEN WriteHeader(400) /\ stage' = "done"
       ELSE stage' = "decode" /\ UNCHANGED <<wire, recorded>>
    /\ UNCHANGED <<op, ok, called, resp, effect, cut>>

\* The strict handler decodes the JSON body.
DecodeBody ==
    /\ stage = "decode"
    /\ IF op \in Takes("body") /\ ~ok
       THEN WriteHeader(400) /\ stage' = "done"
       ELSE stage' = "handle" /\ UNCHANGED <<wire, recorded>>
    /\ UNCHANGED <<op, ok, called, resp, effect, cut>>

\* CreateVideo wants a title and a filename.  The lookup of the others finds no
\* row, or the row of GetVideoKey has no key.
HandlerRefuses ==
    /\ stage = "handle"
    /\ \/ op = "CreateVideo" /\ called = 0 /\ resp' = 400
       \/ /\ op \in Takes("id") /\ Calls[op][called + 1] = "select"
          /\ resp' = 404
    /\ stage' = "visit"
    /\ UNCHANGED <<op, ok, called, wire, recorded, effect, cut>>

\* The handler makes its next call; after the last it returns its response.
HandlerCalls ==
    /\ stage = "handle"
    /\ called' = called + 1
    /\ effect' = effect \cup ({Calls[op][called + 1]} \cap Writes)
    /\ IF called' = Len(Calls[op])
       THEN stage' = "visit" /\ resp' = Accepted(op)
       ELSE UNCHANGED <<stage, resp>>
    /\ UNCHANGED <<op, ok, wire, recorded, cut>>

\* [variant] The error of the last call is logged, and the handler returns its
\* response.
HandlerGoesOn ==
    /\ stage = "handle"
    /\ called + 1 = Len(Calls[op])
    /\ stage' = "visit" /\ resp' = Accepted(op)
    /\ UNCHANGED <<op, ok, called, wire, recorded, effect, cut>>

\* The next call fails, or the key it read is no hex, and the handler returns the
\* error.  A write may have taken effect all the same.
HandlerFails ==
    /\ stage = "handle"
    /\ effect' \in {effect, effect \cup ({Calls[op][called + 1]} \cap Writes)}
    /\ resp' = Error
    /\ WriteHeader(Error)
    /\ stage' = "done"
    /\ UNCHANGED <<op, ok, called, cut>>

\* [variant] The header is written before the response is encoded.
VisitHeaderFirst ==
    /\ stage = "visit"
    /\ WriteHeader(resp)
    /\ stage' = "body"
    /\ resp' \in {resp, Error}
    /\ UNCHANGED <<op, ok, called, effect, cut>>

\* Visit...Response: the response is encoded into a buffer (the key needs no
\* encoding), which may fail, and then the header is written.
Visit ==
    /\ stage = "visit"
    /\ \/ WriteHeader(resp) /\ stage' = "body" /\ UNCHANGED resp
       \/ /\ ~(op = "GetVideoKey" /\ resp = 200)
          /\ WriteHeader(Error) /\ resp' = Error /\ stage' = "done"
    /\ UNCHANGED <<op, ok, called, effect, cut>>

\* The body is written; if that fails the strict handler answers again, 500.
WriteBody ==
    /\ stage = "body"
    /\ \/ UNCHANGED <<wire, recorded, cut>>
       \/ WriteHeader(Error) /\ cut' = TRUE
    /\ stage' = "done"
    /\ UNCHANGED <<op, ok, called, resp, effect>>

\* DocsHandler and OpenAPIHandler: a body without WriteHeader, which net/http
\* sends with 200; the spec may fail to load.
ServePage ==
    /\ stage = "page"
    /\ \/ resp' = 200 /\ wire' = 200 /\ UNCHANGED recorded
       \/ op = "openapi" /\ resp' = Error /\ WriteHeader(Error)
    /\ stage' = "done"
    /\ UNCHANGED <<op, ok, called, effect, cut>>

\* RequestLogger logs the request as completed.
Complete ==
    /\ stage = "done"
    /\ op' = None /\ ok' = TRUE /\ stage' = "idle" /\ called' = 0 /\ resp' = None
    /\ wire' = None /\ recorded' = None /\ effect' = {} /\ cut' = FALSE

HttpStep ==
    \/ BindId \/ DecodeBody \/ HandlerRefuses \/ HandlerCalls \/ HandlerFails \/ Visit
    \/ WriteBody \/ ServePage \/ Complete
------------------------------------------------------------------------------
\* The status line a client is sent is the handler's, also when answering it
\* failed half way; what cannot be encoded, and every error, is a 500.
AnswerFits ==
    stage = "done" /\ resp # None => wire = resp

\* The log line tells the status the client was sent, unless the body broke off:
\* then it says 500.
LogTellsStatus ==
    stage = "done" /\ recorded # None =>
        recorded = wire \/ (cut /\ recorded = Error)

\* The writes among the first n calls of a handler, and all of them.
WritesOf(o, n) == {Calls[o][i] : i \in 1..n} \cap Writes
AllWritesOf(o) == WritesOf(o, Len(Calls[o]))

\* What a client may conclude: a 4xx has changed nothing, a 2xx has made every
\* write of its operation.  A row without an upload URL or a marked row without
\* its job, left by a call that failed, is only ever told as a 500; a response
\* that cannot be encoded after all writes is one, too.
AnswerTellsEffect ==
    stage = "done" =>
        /\ effect # {} => wire \in {200, 201, Error}
        /\ op \in Operations /\ wire \in {200, 201} => effect = AllWritesOf(op)

\* What holds on the way to these.
RequestInv ==
    /\ stage = "idle" => wire = None /\ recorded = None
    /\ stage \in {"bind", "decode", "handle", "visit", "page"} =>
          wire = None /\ recorded = 200
    /\ stage = "page" => op \in Pages
    /\ stage \in {"idle", "bind", "decode", "handle", "page"} => resp = None
    /\ stage \in {"idle", "bind", "decode", "page"} => called = 0 /\ effect = {}
    /\ stage \in {"bind", "decode", "handle", "visit", "body"} => op \in Operations
    /\ stage = "handle" => called < Len(Calls[op]) /\ effect = WritesOf(op, called)
    /\ stage \in {"visit", "body"} =>
          \/ resp \in {400, 404} /\ effect = {}
          \/ resp = Accepted(op) /\ effect = AllWritesOf(op)
    /\ stage = "body" => wire = resp /\ recorded = resp
    /\ stage # "done" => ~cut
    /\ AnswerFits /\ LogTellsStatus /\ AnswerTellsEffect
==============================================================================
