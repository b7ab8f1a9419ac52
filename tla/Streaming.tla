------------------------------ MODULE Streaming ------------------------------
(***************************************************************************)
(* What a session is made of besides its sockets: the tail of              *)
(* session_start (src/src/proto/connection.c) creates the pipeline         *)
(* (src/src/av/pipeline.c) with its decoders, jitter buffer, audio output  *)
(* and renderer, and the reassemblers; run_stream (src/src/ui/ui.c) adds a *)
(* renderer of its own.  Most of these may be missing, and the session     *)
(* goes on without them; session_pump makes what is there grow,            *)
(* session_stop releases it.  The memory and the libraries are external.   *)
(***************************************************************************)
EXTENDS Session

VARIABLES
    held,   \* what was acquired and not released: <<object, resource, session>>
    crash   \* where the program followed a null pointer, or "no"

allVars == <<vars, held, crash>>

(* The steps of each constructor: what it acquires, or what it needs to    *)
(* succeed without acquiring anything (a codec that is found and opened).  *)
Decoder == <<"state", "found", "context", "opened", "frame", "wrapper">>
Steps ==
    [pipeline |-> <<"pipeline">>,
     video    |-> Decoder,
     audio    |-> Decoder,
     jitter   |-> <<"buffer">>,
     playback |-> <<"output", "library", "port">>,
     renderer |-> <<"renderer", "rsx", "pixels">>,
     vreasm   |-> <<"reassembler">>,
     areasm   |-> <<"reassembler">>,
     screen   |-> <<"renderer", "rsx", "pixels">>]

Objects   == DOMAIN Steps
InPipe    == {"video", "audio", "jitter", "playback", "renderer"}
Decoders  == {"video", "audio"}
Renderers == {"renderer", "screen"}
Tests     == {"found", "opened"}
FailPoint == UNION { {o} \X (1..Len(Steps[o])) : o \in Objects }

(* Without rsxInit a renderer does what it did with it. *)
Harmless(p) == p[1] \in Renderers /\ p[2] = 2

(* What a constructor frees, closes or quits before it returns NULL,       *)
(* because its step s failed.                                              *)
(* Mutant: a decoder whose frame cannot be allocated keeps its context. *)
MutVideoUndone(s) ==
    CASE s \in {"found", "context", "frame"} -> {"state"}
      [] s = "opened" -> {"context", "state"}
      [] OTHER -> {}
VideoUndone(s) ==
    CASE s \in {"found", "context"} -> {"state"}
      [] s \in {"opened", "frame"} -> {"context", "state"}
      [] OTHER -> {}
AudioUndone(s) ==
    CASE s \in {"found", "context"} -> {"state"}
      [] s \in {"opened", "frame"} -> {"context", "state"}
      [] OTHER -> {}
PlaybackUndone(s) ==
    CASE s = "library" -> {"output"}
      [] s = "port" -> {"library", "output"}
      [] OTHER -> {}
RendererUndone(s) == IF s = "pixels" THEN {"renderer"} ELSE {}

Undone(o, s) ==
    CASE o = "video" -> VideoUndone(s)
      [] o = "audio" -> AudioUndone(s)
      [] o = "playback" -> PlaybackUndone(s)
      [] o \in Renderers -> RendererUndone(s)
      [] OTHER -> {}

(* What is held of an object after its constructor, F being what fails.    *)
StepsBefore(o, i) == { Steps[o][j] : j \in 1..(i - 1) }
Failed(o, F)      == { p \in F : p[1] = o /\ ~Harmless(p) }
Missing(o, F)     == { Steps[o][p[2]] : p \in { q \in F : q[1] = o } } \cup Tests
Made(o, F) ==
    (IF Failed(o, F) = {} THEN StepsBefore(o, Len(Steps[o]) + 1)
     ELSE UNION { StepsBefore(o, p[2]) \ Undone(o, Steps[o][p[2]]) : p \in Failed(o, F) })
    \ Missing(o, F)

(* Without a pipeline there is nothing in it. *)
Created(F) == Objects \ IF Failed("pipeline", F) = {} THEN {} ELSE InPipe

(* The results of calloc that are written through unchecked. *)
Unchecked == {<<"video", 6>>, <<"audio", 6>>, <<"vreasm", 1>>, <<"areasm", 1>>}
Fatal(F)  == \E p \in F : p \in Unchecked /\ p[1] \in Created(F)

(* Up to two steps, of different objects, fail. *)
Failures ==
    {{}} \cup IF Faults THEN { {p, q} : p \in FailPoint, q \in FailPoint } ELSE {}
Outcomes ==
    { [fatal |-> Fatal(F), made |-> UNION { {o} \X Made(o, F) : o \in Created(F) }] :
          F \in { G \in Failures : \A p, q \in G : p[1] = q[1] => p = q } }

Create ==
    \E c \in Outcomes :
        /\ crash' = IF c.fatal THEN "start" ELSE "no"
        /\ held' = IF c.fatal THEN held ELSE held \cup { <<m[1], m[2], starts>> : m \in c.made }

(* The caller's pointer to the object is not NULL. *)
Whole     == {"pipeline", "wrapper", "buffer", "port", "pixels", "reassembler"}
Exists(o) == \E r \in Whole : <<o, r, starts>> \in held

-----------------------------------------------------------------------------
Of(o, R) == {o} \X R \X {starts}

(* reasm_feed: a frame is collected, or the memory for it cannot be grown, *)
(* and the old memory is lost.                                             *)
Collected(h) ==
    {h, h \cup Of("vreasm", {"frame"})}
    \cup IF Faults /\ Of("vreasm", {"frame"}) \subseteq h
         THEN {(h \ Of("vreasm", {"frame"})) \cup Of("vreasm", {"lost frame"})} ELSE {}

(* vd_pump copies a picture; jitter_buf_push queues a copy of it, if there *)
(* is a jitter buffer and memory, of which the luma plane is lost.         *)
Pictured(h) ==
    {h} \cup
    IF ~Exists("video") THEN {}
    ELSE { h \cup Of("video", {"picture"}) \cup Of("jitter", q) :
             q \in IF Exists("jitter") THEN SUBSET {"queue", "luma"} ELSE {{}} }

(* pipeline_pump shows what is queued, and frees it. *)
Shown(h) == {h, h \ Of("jitter", {"queue"})}

(* ad_pump converts a block of samples; audio_playback_submit stages them. *)
Heard(h) ==
    {h} \cup
    IF ~Exists("audio") THEN {}
    ELSE { h \cup Of("audio", {"pcm"}) \cup Of("playback", q) :
             q \in IF Exists("playback") THEN SUBSET {"staging"} ELSE {{}} }

(* One turn of session_pump: without a pipeline it does nothing. *)
Turn ==
    /\ crash = "no" /\ pc = "streaming"
    /\ Exists("pipeline")
    /\ \E h1 \in Collected(held) : \E h2 \in Pictured(h1) : \E h3 \in Shown(h2) : held' \in Heard(h3)
    /\ UNCHANGED <<vars, crash>>

(* The decoders and the output write to what malloc or realloc gave them   *)
(* without a look at it.                                                   *)
TurnOutOfMemory ==
    /\ Faults
    /\ crash = "no" /\ pc = "streaming"
    /\ Exists("pipeline")
    /\ Exists("video") \/ Exists("audio")
    /\ crash' = "turn"
    /\ UNCHANGED <<vars, held>>

-----------------------------------------------------------------------------
(* What each destroy function releases. *)
VideoFreed    == {"context", "frame", "picture", "state", "wrapper"}
AudioFreed    == {"context", "frame", "pcm", "state", "wrapper"}
JitterFreed   == {"queue", "buffer"}
PlaybackFreed == {"port", "library", "staging", "output"}
RendererFreed == {"pixels", "renderer"}
ReasmFreed    == {"frame", "reassembler"}

Freed(o) ==
    CASE o = "video" -> VideoFreed
      [] o = "audio" -> AudioFreed
      [] o = "jitter" -> JitterFreed
      [] o = "playback" -> PlaybackFreed
      [] o \in Renderers -> RendererFreed
      [] o \in {"vreasm", "areasm"} -> ReasmFreed
      [] o = "pipeline" -> {"pipeline"}

(* session_stop and run_stream's rsx_renderer_shutdown: what is there is   *)
(* destroyed, the parts of the pipeline by pipeline_destroy.               *)
Destroyed == { o \in Objects : Exists(o) /\ (o \in InPipe => Exists("pipeline")) }
Destroy ==
    /\ held' = held \ UNION { Of(o, Freed(o)) : o \in Destroyed }
    /\ UNCHANGED crash

(* A step of Session and what becomes of the objects in it. *)
ObjectsFollow ==
    /\ crash = "no"
    /\ IF pc = "udp" /\ pc' = "streaming" THEN Create
       ELSE IF pc = "streaming" /\ pc' = "idle" THEN Destroy
       ELSE UNCHANGED <<held, crash>>

StreamInit == Init /\ held = {} /\ crash = "no"

StreamNext ==
    \/ Next /\ ObjectsFollow
    \/ Turn \/ TurnOutOfMemory

StreamSpec == StreamInit /\ [][StreamNext]_allVars

-----------------------------------------------------------------------------
(* What the program has no pointer to any more: luma planes (jitter.c:27), *)
(* a frame whose memory could not be grown (reassembly.c:122), what rsxInit *)
(* gave (rsx_renderer.c:86).                                                *)
Lost == {"luma", "lost frame", "rsx"}

(* Whatever could not be created, grown or finished, a session that ends   *)
(* leaves nothing of its objects behind but these; and a running session   *)
(* has no half-made object: what it holds is its own and belongs to an     *)
(* object it will destroy.                                                 *)
OnlyLostIsLeft ==
    crash = "no" =>
        \A h \in held : \/ h[2] \in Lost
                        \/ pc = "streaming" /\ h[3] = starts /\ Exists(h[1])
=============================================================================
