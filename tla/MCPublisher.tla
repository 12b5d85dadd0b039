----------------------------- MODULE MCPublisher ------------------------------
(* The publisher on small instances.  A behaviour is about the list and    *)
(* two runs, one of which may be dry or for one reader, where nobody signs *)
(* in, about one person who may sign in, buy and cancel, and one run,      *)
(* about the rate limiter, or about the bot's own posts, with one thing at *)
(* most that keeps them from being published.                              *)
EXTENDS Publisher, RateLimit, Posts

CONSTANTS ann, r1

MCRate == [global |-> 1, auth |-> 1]
MCBurst == [global |-> 2, auth |-> 1]

VARIABLE about

MCInit ==
  /\ Init /\ LimitInit /\ PostsInit /\ about \in {"list", "money", "limit", "posts"}
  /\ about # "posts" => conf.enabled /\ conf.dry /\ conf.keys /\ conf.base
  /\ {conf.enabled, ~conf.dry, conf.keys} # {FALSE}
  /\ ~conf.enabled => ~conf.dry /\ conf.keys
  /\ conf.dry => conf.keys

MCNext ==
  /\ UNCHANGED about
  /\ \/ /\ about \in {"list", "money"} /\ Next /\ UNCHANGED <<limit, posts>>
        /\ about = "list" =>
             UNCHANGED <<session, gate, stripe>> /\ \A r \in Runs \ {r1} : ~run'[r].dry /\ run'[r].only = Everyone
        /\ about = "money" =>
             /\ \A e \in People \ {ann} : status'[e] = "none"
             /\ \A r \in Runs \ {r1} : run'[r] = Idle
     \/ about = "limit" /\ LimitNext /\ UNCHANGED <<vars, posts>>
     \/ about = "posts" /\ PostsNext /\ UNCHANGED <<vars, limit>>

MCSpec == MCInit /\ [][MCNext]_<<vars, limit, posts, about>>
=============================================================================
