----------------------------- MODULE RedisClient -----------------------------
(***************************************************************************)
(* internal/redis/client.go: Int, called by many requests at once over one *)
(* small pool of connections.  RESP has no request identifiers: a reply    *)
(* answers whatever command is oldest on its connection, so everything     *)
(* rests on which connections go back to the pool.  Replies carry, as      *)
(* history, the call they were produced for.  Which pooled connection the  *)
(* channel yields is left open.                                            *)
(***************************************************************************)
EXTENDS Integers, Sequences, FiniteSets

CONSTANTS Calls,      \* calls of Int, each made once
          Conns,      \* bound: the connections that can ever be dialled
          Size,       \* cap(Client.pool)
          Passwords,  \* whether Options.Password is set
          NoConn, Nothing, Failure

ASSUME ClientAssumption ==
  /\ Size \in Nat \ {0}
  /\ Passwords \subseteq BOOLEAN
  /\ NoConn \notin Conns
  /\ Nothing \notin Calls
  /\ Failure \notin Calls

VARIABLES password,   \* Options.Password # ""
          pool,       \* Client.pool
          state,      \* of a connection, on the client's side
          peer,       \* the server still holds its end
          wire,       \* commands sent and not yet run, by connection
          inbox,      \* reply lines sent and not yet read, by connection
          authed,     \* the server accepted AUTH on the connection
          stage, held,\* where a call is, and the connection it uses
          got         \* what Int returned: the call its reply was made for

connVars  == <<state, peer, wire, inbox, authed>>
redisVars == <<password, pool, connVars, stage, held, got>>

Command == [by : Calls, auth : BOOLEAN]
Line    == [to : Calls \cup {Nothing}, form : {"status", "int", "error", "bulk", "body"}]

InProgress == {"authing", "waiting"}
Active     == {k \in Calls : stage[k] \in InProgress}

RedisTypeOK ==
  /\ password \in Passwords
  /\ pool \subseteq Conns
  /\ Cardinality(pool) <= Size
  /\ state \in [Conns -> {"new", "open", "closed"}]
  /\ peer \in [Conns -> BOOLEAN]
  /\ wire \in [Conns -> Seq(Command)]
  /\ inbox \in [Conns -> Seq(Line)]
  /\ authed \in [Conns -> BOOLEAN]
  /\ stage \in [Calls -> InProgress \cup {"idle", "done"}]
  /\ held \in [Calls -> Conns \cup {NoConn}]
  /\ got \in [Calls -> Calls \cup {Nothing, Failure}]

\* NewClient: nothing is dialled.
RedisInit ==
  /\ password \in Passwords
  /\ pool = {}
  /\ state = [c \in Conns |-> "new"]
  /\ peer = [c \in Conns |-> FALSE]
  /\ wire = [c \in Conns |-> <<>>]
  /\ inbox = [c \in Conns |-> <<>>]
  /\ authed = [c \in Conns |-> FALSE]
  /\ stage = [k \in Calls |-> "idle"]
  /\ held = [k \in Calls |-> NoConn]
  /\ got = [k \in Calls |-> Nothing]

-----------------------------------------------------------------------------
Write(k, c, auth) == wire' = [wire EXCEPT ![c] = Append(@, [by |-> k, auth |-> auth])]

Goto(k, label) == stage' = [stage EXCEPT ![k] = label]

\* take finds a pooled connection, and the command is written on it.
TakePooled(k, c) ==
  /\ stage[k] = "idle"
  /\ c \in pool
  /\ pool' = pool \ {c}
  /\ held' = [held EXCEPT ![k] = c]
  /\ Goto(k, "waiting")
  /\ Write(k, c, FALSE)
  /\ UNCHANGED <<password, state, peer, inbox, authed, got>>

\* What a server that has no room for another client says before it hangs up.
NoRoom == <<[to |-> Nothing, form |-> "error"]>>

\* take finds none and dials; AUTH is the first command where there is a
\* password.
Dial(k, c) ==
  /\ stage[k] = "idle"
  /\ pool = {}
  /\ state[c] = "new"
  /\ state' = [state EXCEPT ![c] = "open"]
  /\ \/ peer' = [peer EXCEPT ![c] = TRUE] /\ UNCHANGED inbox
     \/ inbox' = [inbox EXCEPT ![c] = NoRoom] /\ UNCHANGED peer
  /\ held' = [held EXCEPT ![k] = c]
  /\ Goto(k, IF password THEN "authing" ELSE "waiting")
  /\ Write(k, c, password)
  /\ UNCHANGED <<password, pool, authed, got>>

\* Resolution, TCP or the handshake fails; what there was is closed.
DialFails(k) ==
  /\ stage[k] = "idle"
  /\ pool = {}
  /\ Goto(k, "done")
  /\ got' = [got EXCEPT ![k] = Failure]
  /\ UNCHANGED <<password, pool, connVars, held>>

\* Int and dial close a connection on any error and give the error back.
Drop(k) ==
  /\ state' = [state EXCEPT ![held[k]] = "closed"]
  /\ got' = [got EXCEPT ![k] = Failure]
  /\ Goto(k, "done")

ReadLine(k) == inbox' = [inbox EXCEPT ![held[k]] = Tail(@)]

AuthAnsweredMutUnread(k) ==
  /\ stage[k] = "authing"
  /\ inbox[held[k]] # <<>>
  /\ ReadLine(k)
  /\ Goto(k, "waiting") /\ Write(k, held[k], FALSE) /\ UNCHANGED <<state, got>>
  /\ UNCHANGED <<password, pool, peer, authed, held>>

\* readStatus: accepted, and the command follows; or refused.
AuthAnswered(k) ==
  /\ stage[k] = "authing"
  /\ inbox[held[k]] # <<>>
  /\ ReadLine(k)
  /\ \/ /\ Head(inbox[held[k]]).form = "status"
        /\ Goto(k, "waiting")
        /\ Write(k, held[k], FALSE)
        /\ UNCHANGED <<state, got>>
     \/ /\ Head(inbox[held[k]]).form # "status"
        /\ Drop(k)
        /\ UNCHANGED wire
  /\ UNCHANGED <<password, pool, peer, authed, held>>

PutMutForgetsSurplus(c) ==
  \/ Cardinality(pool) < Size /\ pool' = pool \cup {c} /\ UNCHANGED state
  \/ Cardinality(pool) >= Size /\ UNCHANGED <<pool, state>>

\* put: a connection the pool has no room for is closed.
Put(c) ==
  \/ /\ Cardinality(pool) < Size
     /\ pool' = pool \cup {c}
     /\ UNCHANGED state
  \/ /\ Cardinality(pool) >= Size
     /\ state' = [state EXCEPT ![c] = "closed"]
     /\ UNCHANGED pool

\* readInt: an integer is the answer and the connection goes back; anything
\* else is an error, an error reply included.
Answered(k) ==
  /\ stage[k] = "waiting"
  /\ inbox[held[k]] # <<>>
  /\ ReadLine(k)
  /\ \/ /\ Head(inbox[held[k]]).form = "int"
        /\ Put(held[k])
        /\ got' = [got EXCEPT ![k] = Head(inbox[held[k]]).to]
        /\ Goto(k, "done")
     \/ /\ Head(inbox[held[k]]).form # "int"
        /\ Drop(k)
        /\ UNCHANGED pool
  /\ UNCHANGED <<password, peer, wire, authed, held>>

GivesUpMutKeepsConnection(k) ==
  /\ stage[k] \in InProgress
  /\ Put(held[k])
  /\ got' = [got EXCEPT ![k] = Failure]
  /\ Goto(k, "done")
  /\ UNCHANGED <<password, peer, wire, inbox, authed, held>>

\* The deadline passes, or the write or the read fails: the reply may be on
\* its way all the same.
GivesUp(k) ==
  /\ stage[k] \in InProgress
  /\ Drop(k)
  /\ UNCHANGED <<password, pool, peer, wire, inbox, authed, held>>

\* Close takes the pooled connections out one by one.
Close(c) ==
  /\ c \in pool
  /\ pool' = pool \ {c}
  /\ state' = [state EXCEPT ![c] = "closed"]
  /\ UNCHANGED <<password, peer, wire, inbox, authed, stage, held, got>>

-----------------------------------------------------------------------------
\* Redis runs the commands of a connection in order, the ones nobody waits for
\* any more included.
Replies(cmd, form) == [to |-> cmd.by, form |-> form]

Serve(c) ==
  /\ peer[c]
  /\ wire[c] # <<>>
  /\ LET cmd == Head(wire[c])
         Answer(lines) == inbox' = [inbox EXCEPT ![c] = @ \o lines]
     IN  \/ /\ cmd.auth
            /\ authed' = [authed EXCEPT ![c] = TRUE]
            /\ Answer(<<Replies(cmd, "status")>>)
         \/ /\ Answer(<<Replies(cmd, "error")>>)
            /\ UNCHANGED authed
         \/ /\ ~cmd.auth
            /\ password => authed[c]
            /\ \/ Answer(<<Replies(cmd, "int")>>)
               \/ Answer(<<Replies(cmd, "bulk"), Replies(cmd, "body")>>)
            /\ UNCHANGED authed
  /\ wire' = [wire EXCEPT ![c] = Tail(@)]
  /\ UNCHANGED <<password, pool, state, peer, stage, held, got>>

\* A restart, or an idle connection reaped; the client is not told.
PeerCloses(c) ==
  /\ peer[c]
  /\ peer' = [peer EXCEPT ![c] = FALSE]
  /\ UNCHANGED <<password, pool, state, wire, inbox, authed, stage, held, got>>

RedisNext ==
  \/ \E k \in Calls : \/ \E c \in Conns : TakePooled(k, c) \/ Dial(k, c)
                      \/ DialFails(k) \/ AuthAnswered(k) \/ Answered(k) \/ GivesUp(k)
  \/ \E c \in Conns : Close(c) \/ Serve(c) \/ PeerCloses(c)

RedisSpec == RedisInit /\ [][RedisNext]_redisVars
-----------------------------------------------------------------------------
\* No call is ever given another call's count: not after a timeout whose reply
\* comes late, an error, or a reply of several lines (client.go:96-98).
RepliesAreOwn == \A k \in Calls : got[k] \in Calls => got[k] = k

\* A connection waits in the pool only with nothing unread and nothing unrun
\* on it, and authenticated if need be: the next command's reply comes next.
PooledIsClean ==
  \A c \in pool : /\ state[c] = "open"
                  /\ wire[c] = <<>> /\ inbox[c] = <<>>
                  /\ password => authed[c]

\* The client's open connections are the pooled ones and one for each call in
\* progress, and no two of these are the same: none leaks when the pool is
\* full or a call fails, and none is closed or shared while in use.
ConnectionsAccounted ==
  /\ {c \in Conns : state[c] = "open"} = pool \cup {held[k] : k \in Active}
  /\ \A k \in Active : held[k] \notin pool
  /\ \A j, k \in Active : held[j] = held[k] => j = k

\* No quota command is written on a connection whose AUTH was not accepted.
AuthComesFirst ==
  \A k \in Calls : password /\ stage[k] = "waiting" => authed[held[k]]
=============================================================================
