----------------------------- MODULE TalkSessions -----------------------------
(***************************************************************************)
(* Talking to an ONVIF camera: requests of browsers probe a camera, open   *)
(* an RTSP session with its audio backchannel, send G.711 through it and   *)
(* end it (core/talk_session.py, core/rtsp_backchannel.py). One thread     *)
(* serves a request; the module lock covers the two tables only, and each  *)
(* session has a lock of its own. Left out: the digest arithmetic, the     *)
(* SDP, the RTP header; the camera answers a request of RTSP in any way.   *)
(***************************************************************************)
EXTENDS Integers, FiniteSets, FiniteSetsExt

CONSTANTS Requests,    \* threads that serve requests
          Cameras,     \* stream ids
          Sockets,     \* connections cameras accept at a time
          MaxStarts,   \* bound: session ids given out are 1..MaxStarts
          MaxDrops     \* bound: connections a camera breaks

ASSUME TalkBounds == /\ Sockets \subseteq Nat \ {0} /\ IsFiniteSet(Sockets)
                     /\ MaxStarts \in Nat /\ MaxDrops \in Nat

VARIABLES
  thread,    \* what each request is about
  sessions,  \* _sessions: the session objects, by session id
  byStream,  \* _by_stream: the session id of a camera, or 0
  open,      \* sockets that are open
  past,      \* sessions older than SESSION_TTL_SEC
  starts, drops

talkVars == <<thread, sessions, byStream, open, past, starts, drops>>

Ids == 1..MaxStarts
Free == [at |-> "idle", cam |-> CHOOSE c \in Cameras : TRUE, id |-> 0, sock |-> 0,
         digest |-> FALSE, stale |-> {}, probing |-> FALSE]

TalkInit ==
  /\ thread = [t \in Requests |-> Free]
  /\ sessions = <<>> /\ byStream = [c \in Cameras |-> 0]
  /\ open = {} /\ past = {} /\ starts = 0 /\ drops = 0

Become(t, r) == thread' = [thread EXCEPT ![t] = r]
Goes(t, at) == Become(t, [thread[t] EXCEPT !.at = at, !.digest = FALSE])
Without(f, i) == [x \in DOMAIN f \ {i} |-> f[x]]
Same(vs) == UNCHANGED vs

-----------------------------------------------------------------------------
\* talk_start: first the sessions past their time are looked up, then they
\* are stopped one by one; only then is the camera asked.
CleanupStale(t, c) ==
  /\ thread[t].at = "idle"
  /\ Become(t, [Free EXCEPT !.at = "cleaning", !.cam = c, !.stale = past \cap DOMAIN sessions])
  /\ Same(<<sessions, byStream, open, past, starts, drops>>)

CleanedUp(t) ==
  /\ thread[t].at = "cleaning" /\ thread[t].stale = {}
  /\ Become(t, [thread[t] EXCEPT !.at = "connect", !.probing = TRUE])
  /\ Same(<<sessions, byStream, open, past, starts, drops>>)

\* talk_probe of its own, and the probe of a camera whose stream is refreshed.
ProbeOnly(t, c) ==
  /\ thread[t].at = "idle"
  /\ Become(t, [Free EXCEPT !.at = "connect", !.cam = c, !.probing = TRUE])
  /\ Same(<<sessions, byStream, open, past, starts, drops>>)

\* stop_talk under the lock. The camera's entry goes with the session, also
\* when it is about a later one. What is found is closed without the lock.
StopTalk(t, i, next) ==
  IF i \in DOMAIN sessions
  THEN /\ byStream' = [byStream EXCEPT ![sessions[i].cam] = 0]
       /\ Become(t, [next EXCEPT !.sock = sessions[i].sock, !.id = i])
       /\ sessions' = Without(sessions, i)
  ELSE Become(t, [next EXCEPT !.at = IF next.stale = {} THEN "idle" ELSE "cleaning"])
       /\ Same(<<sessions, byStream>>)

StopStale(t) ==
  /\ thread[t].at = "cleaning"
  /\ \E i \in thread[t].stale :
       IF i \in DOMAIN sessions
       THEN StopTalk(t, i, [thread[t] EXCEPT !.at = "closeStale", !.stale = @ \ {i}])
       ELSE Become(t, [thread[t] EXCEPT !.stale = @ \ {i}]) /\ Same(<<sessions, byStream>>)
  /\ Same(<<open, past, starts, drops>>)

\* POST /api/talk/stop, by session id or by camera.
Stop(t) ==
  /\ thread[t].at = "idle"
  /\ \E i \in DOMAIN sessions \cup {byStream[c] : c \in Cameras} :
       StopTalk(t, i, [Free EXCEPT !.at = "close"])
  /\ Same(<<open, past, starts, drops>>)

\* Mutant: a session that is closed keeps its socket.
CloseKeepsSocket(t) ==
  /\ thread[t].at \in {"close", "closeStale"}
  /\ open' = open
  /\ Become(t, [thread[t] EXCEPT !.sock = 0, !.id = 0,
                !.at = IF @ = "close" THEN "idle" ELSE "cleaning"])
  /\ Same(<<sessions, byStream, past, starts, drops>>)

\* TalkSession.close: TEARDOWN and the socket, whatever fails.
Close(t) ==
  /\ thread[t].at \in {"close", "closeStale"}
  /\ open' = open \ {thread[t].sock}
  /\ Become(t, [thread[t] EXCEPT !.sock = 0, !.id = 0,
                !.at = IF @ = "close" THEN "idle" ELSE "cleaning"])
  /\ Same(<<sessions, byStream, past, starts, drops>>)

-----------------------------------------------------------------------------
\* RTSP. A probe is OPTIONS and DESCRIBE; a session is DESCRIBE, SETUP and
\* PLAY. DESCRIBE and SETUP are asked again without Require when refused.

\* The request after one that was answered with 200.
OnOk(r) == CASE r.at = "options" -> "describe"
             [] r.at \in {"describe", "describePlain"} -> IF r.probing THEN "supported" ELSE "setup"
             [] r.at \in {"setup", "setupPlain"} -> "play"
             [] r.at = "play" -> "detach"
\* The request after one that was refused; OPTIONS may fail.
OnRefusal(r) == CASE r.at = "options" -> "describe"
                  [] r.at = "describe" -> "describePlain"
                  [] r.at = "setup" -> "setupPlain"
                  [] OTHER -> "failed"
Asking == {"options", "describe", "describePlain", "setup", "setupPlain", "play"}

\* _RtspConn: a socket of its own, or the camera accepts none.
Connect(t) ==
  /\ thread[t].at = "connect"
  /\ \/ Goes(t, "failed") /\ Same(open)
     \/ /\ Sockets \ open # {}
        /\ LET s == Min(Sockets \ open) IN
             /\ open' = open \cup {s}
             /\ Become(t, [thread[t] EXCEPT !.sock = s, !.digest = FALSE,
                           !.at = IF thread[t].probing THEN "options" ELSE "describe"])
  /\ Same(<<sessions, byStream, past, starts, drops>>)

\* An answer: 200, a refusal, a challenge (answered once for a request, on the
\* same connection), an SDP without a track for audio to the camera or an answer
\* that breaks off: the probe or the opening ends.
Answered(t) ==
  /\ thread[t].at \in Asking
  /\ \/ Goes(t, OnOk(thread[t]))
     \/ Goes(t, OnRefusal(thread[t]))
     \/ ~thread[t].digest /\ Become(t, [thread[t] EXCEPT !.digest = TRUE])
     \/ thread[t].at # "options" /\ Goes(t, "failed")
  /\ Same(<<sessions, byStream, open, past, starts, drops>>)

\* The camera breaks the connection or is silent: close, connect again, and
\* ask again, unless it was the request that carried the digest.
Dropped(t) ==
  /\ thread[t].at \in Asking /\ drops < MaxDrops
  /\ drops' = drops + 1
  /\ LET rest == open \ {thread[t].sock} IN
     \/ open' = rest /\ Become(t, [thread[t] EXCEPT !.sock = 0,
                          !.at = IF @ = "options" THEN "describeAnew" ELSE "failed"])
     \/ /\ Sockets \ rest # {}
        /\ LET s == Min(Sockets \ rest) IN
             /\ open' = rest \cup {s}
             /\ Become(t, [thread[t] EXCEPT !.sock = s, !.digest = FALSE,
                           !.at = IF ~thread[t].digest THEN @
                                  ELSE IF @ = "options" THEN "describe" ELSE "failed"])
  /\ Same(<<sessions, byStream, past, starts>>)

\* A closed socket is found out by the next request, which connects again.
Reconnect(t) ==
  /\ thread[t].at = "describeAnew"
  /\ \/ Goes(t, "failed") /\ Same(open)
     \/ /\ Sockets \ open # {}
        /\ LET s == Min(Sockets \ open) IN
             open' = open \cup {s} /\ Become(t, [thread[t] EXCEPT !.sock = s, !.at = "describe"])
  /\ Same(<<sessions, byStream, past, starts, drops>>)

-----------------------------------------------------------------------------
\* The end of a probe or of an opening that failed: the connection is closed.
Failed(t) ==
  /\ thread[t].at = "failed"
  /\ open' = open \ {thread[t].sock}
  /\ Become(t, Free)
  /\ Same(<<sessions, byStream, past, starts, drops>>)

\* The camera has a backchannel; only talk_start goes on.
Supported(t) ==
  /\ thread[t].at = "supported"
  /\ open' = open \ {thread[t].sock}
  /\ \/ Become(t, Free)
     \/ starts < MaxStarts /\ Become(t, [thread[t] EXCEPT !.at = "dropOld", !.sock = 0, !.probing = FALSE])
  /\ Same(<<sessions, byStream, past, starts, drops>>)

\* The camera's session so far, closed under the lock.
DropOld(t) ==
  /\ thread[t].at = "dropOld" /\ starts < MaxStarts
  /\ LET c == thread[t].cam
         old == byStream[c] IN
     IF old \in DOMAIN sessions
     THEN /\ open' = open \ {sessions[old].sock}
          /\ sessions' = Without(sessions, old)
          /\ byStream' = [byStream EXCEPT ![c] = 0]
     ELSE Same(<<open, sessions, byStream>>)
  /\ starts' = starts + 1
  /\ Become(t, [thread[t] EXCEPT !.at = "connect", !.id = starts + 1, !.digest = FALSE])
  /\ Same(<<past, drops>>)

\* The connection's socket becomes the session's, which is entered.
Register(t) ==
  /\ thread[t].at = "detach"
  /\ LET r == thread[t] IN
       /\ sessions' = [i \in DOMAIN sessions \cup {r.id} |->
                         IF i = r.id THEN [cam |-> r.cam, sock |-> r.sock] ELSE sessions[i]]
       /\ byStream' = [byStream EXCEPT ![r.cam] = r.id]
  /\ Become(t, Free)
  /\ Same(<<open, past, starts, drops>>)

\* push_audio: a session that is too old is looked up, then stopped, which
\* another may have done by then. (To any other the frames are sent.)
PushAudio(t) ==
  /\ thread[t].at = "idle"
  /\ \E i \in DOMAIN sessions \cap past : Become(t, [Free EXCEPT !.at = "expire", !.id = i])
  /\ Same(<<sessions, byStream, open, past, starts, drops>>)

Expire(t) ==
  /\ thread[t].at = "expire"
  /\ StopTalk(t, thread[t].id, [Free EXCEPT !.at = "close"])
  /\ Same(<<open, past, starts, drops>>)

Age ==
  /\ \E i \in DOMAIN sessions \ past : past' = past \cup {i}
  /\ Same(<<thread, sessions, byStream, open, starts, drops>>)

TalkNext ==
  \/ Age
  \/ \E t \in Requests :
       \/ \E c \in Cameras : CleanupStale(t, c) \/ ProbeOnly(t, c)
       \/ CleanedUp(t) \/ StopStale(t) \/ Stop(t) \/ Close(t)
       \/ Connect(t) \/ Answered(t) \/ Dropped(t) \/ Reconnect(t)
       \/ Failed(t) \/ Supported(t) \/ DropOld(t) \/ Register(t)
       \/ PushAudio(t) \/ Expire(t)

-----------------------------------------------------------------------------
\* However requests for the same camera overlap and whatever the camera
\* answers or breaks off: a socket that is open belongs to a session that can
\* still be stopped or to a request at work, a session's socket is its own and
\* open, and the camera's entry is a session of that camera (start_talk,
\* stop_talk and cleanup_stale work on the tables and close outside the lock).
NothingOrphaned ==
  /\ open \subseteq {sessions[i].sock : i \in DOMAIN sessions} \cup {thread[t].sock : t \in Requests}
  /\ \A i \in DOMAIN sessions : sessions[i].sock \in open
  /\ \A i, j \in DOMAIN sessions : i # j => sessions[i].sock # sessions[j].sock
  /\ \A c \in Cameras : byStream[c] # 0 =>
       byStream[c] \in DOMAIN sessions /\ sessions[byStream[c]].cam = c
=============================================================================
