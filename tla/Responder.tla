----------------------------- MODULE Responder -----------------------------
(***************************************************************************)
(* From a parsed request to the bytes that are pushed: find_router         *)
(* (lib/router.c), the ROUTER and ROUTER_STATIC handlers                   *)
(* (include/router.h, global_static_router of lib/http_parser.c),          *)
(* http_compose_response, and the part of the coroutine handler            *)
(* (lib/io_loop.c) that keeps req, res and fresstr over the requests of    *)
(* one slot.  A request is served in one resumption of the coroutine; the  *)
(* answer is out until RESET, and meanwhile other slots serve theirs.      *)
(*                                                                         *)
(* This module ends where the operations are pushed.  Which bytes the two  *)
(* splices of the Debug build then carry through the one pipe that all     *)
(* slots share is the subject of SplicePipe.                               *)
(*                                                                         *)
(* Strings are sequences of pieces: what one string_append added.          *)
(***************************************************************************)
EXTENDS Integers, Sequences

CONSTANTS
    Conn,              \* connection slots, each with its own handler
    Routes,            \* the ROUTER section: [path, method, filepath] in link order
    Method,
    FileSz,            \* size of every static file
    NoFile             \* filepath = NULL: a ROUTER handler

File == DOMAIN FileSz
Path == {Routes[i].path : i \in DOMAIN Routes} \cup {"/unknown"}

ASSUME RouteAssumption ==
    \A i \in DOMAIN Routes : Routes[i].method \subseteq Method /\ Routes[i].filepath \in File \cup {NoFile}
ASSUME FileAssumption == NoFile \notin File /\ \A f \in File : FileSz[f] \in Nat \ {0}

VARIABLES
    WatchStaticFiles,  \* the build: TRUE is Debug; chosen once and for all
    phase,     \* "recv": waits for a request, "sent": its answer is pushed
    res,       \* the handler's struct http_response
    fresstr,   \* the composed answer
    spliced,   \* the file and length of the splices pushed, Debug build
    route,     \* history: index in Routes of the route served, 0 for none
    data,      \* the static pointer of global_static_router, Release build
    crashed

vars == <<WatchStaticFiles, phase, res, fresstr, spliced, route, data, crashed>>

EmptyRes == [status |-> 0, file |-> NoFile, file_fd |-> NoFile, file_sz |-> 0,
             headers |-> <<>>, str |-> <<>>]
NoSplice == [file |-> NoFile, sz |-> 0]

Init ==
    /\ WatchStaticFiles \in BOOLEAN
    /\ phase = [c \in Conn |-> "recv"]
    /\ res = [c \in Conn |-> EmptyRes]
    /\ fresstr = [c \in Conn |-> <<>>]
    /\ spliced = [c \in Conn |-> NoSplice]
    /\ route = [c \in Conn |-> 0]
    /\ data = NoFile
    /\ crashed = FALSE

\* FOREACH_ROUTER: the first entry with the path that takes the method.
find_router(path, method) ==
    LET hits == {i \in DOMAIN Routes : method \in Routes[i].method /\ Routes[i].path = path}
    IN  IF hits = {} THEN 0 ELSE CHOOSE i \in hits : \A j \in hits : i <= j

\* Status line, headers, length and body are appended to what final holds.
http_compose_response(old, r) ==
    old \o <<<<"status", IF r.status = 0 THEN 200 ELSE r.status>>>>
        \o r.headers
        \o (IF r.file # NoFile
            THEN <<<<"Content-Length", r.file_sz>>, <<"file", r.file>>>>
            ELSE IF r.file_fd # NoFile
            THEN <<<<"Content-Length", r.file_sz>>>>
            ELSE <<<<"Content-Length", Len(r.str)>>>> \o r.str)

-----------------------------------------------------------------------------

Ready(c) == ~crashed /\ phase[c] = "recv"

\* One of the fixed error answers is pushed; r is what is left in res.
ErrorAnswer(c, r) ==
    /\ phase' = [phase EXCEPT ![c] = "sent"]
    /\ res' = [res EXCEPT ![c] = r]
    /\ UNCHANGED <<fresstr, spliced, route, crashed>>

\* The composed answer is pushed, and in the Debug build the two splices: what
\* they are asked to move, from which file, is recorded.
Answer(c, i, r) ==
    /\ phase' = [phase EXCEPT ![c] = "sent"]
    /\ res' = [res EXCEPT ![c] = r]
    /\ route' = [route EXCEPT ![c] = i]
    /\ fresstr' = [fresstr EXCEPT ![c] = http_compose_response(@, r)]
    /\ spliced' = [spliced EXCEPT ![c] = IF WatchStaticFiles
                                         THEN [file |-> r.file_fd, sz |-> r.file_sz]
                                         ELSE NoSplice]
    /\ UNCHANGED crashed

\* What the handler of ROUTER entry i leaves in res: a piece of body and a header.
Filled(c, i) ==
    [res[c] EXCEPT !.str = Append(@, <<"body", i>>),
                   !.headers = Append(@, <<"Content-Type", "text/plain">>),
                   !.status = 200]

\* Too large, not parsed, or no route.
Reject(c) ==
    /\ Ready(c)
    /\ ErrorAnswer(c, res[c])
    /\ UNCHANGED data

\* A ROUTER handler, which may fail before or after it has written to res.
ServeDynamic(c, i) ==
    /\ Ready(c)
    /\ Routes[i].filepath = NoFile
    /\ \/ Answer(c, i, Filled(c, i))
       \/ \E r \in {res[c], Filled(c, i)} : ErrorAnswer(c, r)
    /\ UNCHANGED data

\* global_static_router: the file cannot be opened, stat'ed or recognised.
StaticFails(c, i) ==
    /\ Ready(c)
    /\ Routes[i].filepath # NoFile
    /\ WatchStaticFiles \/ data = NoFile
    /\ ErrorAnswer(c, res[c])
    /\ UNCHANGED data

\* mmap fails after the static pointer was assigned.
MmapFails(c, i) ==
    /\ Ready(c)
    /\ Routes[i].filepath # NoFile
    /\ ~WatchStaticFiles /\ data = NoFile
    /\ data' = "MAP_FAILED"
    /\ ErrorAnswer(c, res[c])

\* What a successful global_static_router leaves in res.
Static(c, file, fd, sz, mime) ==
    [res[c] EXCEPT !.file = file, !.file_fd = IF WatchStaticFiles THEN fd ELSE @,
                   !.file_sz = sz, !.status = 200,
                   !.headers = Append(@, <<"Content-Type", mime>>)]

StaticOpened(c, i) ==
    LET f == Routes[i].filepath IN
    /\ Ready(c)
    /\ f # NoFile
    /\ \/ /\ WatchStaticFiles
          /\ Answer(c, i, Static(c, NoFile, f, FileSz[f], f))
          /\ UNCHANGED data
       \/ /\ ~WatchStaticFiles /\ data = NoFile
          /\ data' = f
          /\ Answer(c, i, Static(c, f, NoFile, FileSz[f], f))

\* goto STORE_BUF: whatever the route, the mapping made first is served;
\* filestat and mime_str were never assigned.  Reading a failed mapping, or
\* past the end of a good one, or through a wild mime_str, is fatal.
StaticCached(c, i) ==
    /\ Ready(c)
    /\ Routes[i].filepath # NoFile
    /\ ~WatchStaticFiles /\ data # NoFile
    /\ \/ /\ data # "MAP_FAILED"
          /\ \E sz \in {0} \cup {FileSz[f] : f \in File}, mime \in File \cup {"indeterminate"} :
                Answer(c, i, Static(c, data, NoFile, sz, mime))
          /\ UNCHANGED data
       \/ /\ crashed' = TRUE
          /\ UNCHANGED <<phase, res, fresstr, spliced, route, data>>

\* Seeded fault: the text of the response is not reset.
ResetRes_KeepsBody(r) == [EmptyRes EXCEPT !.str = r.str]

ResetRes(r) == EmptyRes

\* All steps were reported: RESET, and the slot's next connection may send.
Reset(c) ==
    /\ ~crashed
    /\ phase[c] = "sent"
    /\ phase' = [phase EXCEPT ![c] = "recv"]
    /\ res' = [res EXCEPT ![c] = ResetRes(@)]
    /\ fresstr' = [fresstr EXCEPT ![c] = <<>>]
    /\ spliced' = [spliced EXCEPT ![c] = NoSplice]
    /\ route' = [route EXCEPT ![c] = 0]
    /\ UNCHANGED <<data, crashed>>

Serve(c, path, method) ==
    LET i == find_router(path, method) IN
    \/ i = 0 /\ Reject(c)
    \/ i # 0 /\ \/ ServeDynamic(c, i) \/ StaticFails(c, i) \/ MmapFails(c, i)
                \/ StaticOpened(c, i) \/ StaticCached(c, i)

Next ==
    \/ /\ \E c \in Conn : Reset(c) \/ Reject(c)
                          \/ \E path \in Path, method \in Method : Serve(c, path, method)
       /\ UNCHANGED WatchStaticFiles
    \/ crashed /\ UNCHANGED vars

Spec == Init /\ [][Next]_vars

-----------------------------------------------------------------------------

\* The answer of a ROUTER handler is composed of what this handler wrote for
\* this request and of nothing an earlier request, on this slot or on another,
\* has left behind; the splices pushed with it move nothing.
DynamicAnswerIsOwn ==
    \A c \in Conn :
        route[c] # 0 /\ Routes[route[c]].filepath = NoFile =>
            /\ fresstr[c] = <<<<"status", 200>>, <<"Content-Type", "text/plain">>,
                              <<"Content-Length", 1>>, <<"body", route[c]>>>>
            /\ spliced[c] = NoSplice

\* ROUTER_STATIC(filepath, path): for a request for path the content, the
\* length and the type of filepath are pushed.  The Release build does not keep
\* this (finding).
StaticAnswerIsFile ==
    \A c \in Conn :
        route[c] # 0 /\ Routes[route[c]].filepath # NoFile =>
            LET f == Routes[route[c]].filepath
                head == <<<<"status", 200>>, <<"Content-Type", f>>, <<"Content-Length", FileSz[f]>>>>
            IN  \/ fresstr[c] = head \o <<<<"file", f>>>> /\ spliced[c] = NoSplice
                \/ fresstr[c] = head /\ spliced[c] = [file |-> f, sz |-> FileSz[f]]
=============================================================================
