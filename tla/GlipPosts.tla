-------------------------------- MODULE GlipPosts --------------------------------
(***************************************************************************)
(* The posts of one Glip group (modules/GlipPosts).  They come in three    *)
(* ways: loadPosts takes the list the server had when it was asked, create *)
(* shows a record of its own until the answer brings the real one, and the *)
(* subscription tells of each post, those made here included.  Nothing     *)
(* orders the three; records are told by their id, and before there is an  *)
(* id by their creator, text and sendStatus.                               *)
(***************************************************************************)
EXTENDS Naturals, Sequences, FiniteSets, Functions

CONSTANTS
  Post,       \* what is posted, by whomever
  Text,
  TextOf,     \* [Post -> Text]
  RecordCount,  \* the posts loadPosts asks for; 20 in the code
  MaxLogins,  \* bound
  MaxEvents   \* bound: loads, failures, changes and removals of a post, logouts

VARIABLES
  ready,          \* the status; it follows auth and subscription
  logins,
  posted,         \* external: the posts the server has, the latest first
  removed,        \* external: those it had
  mine,           \* external: those of the user
  notifications,  \* external: messages of the subscription on their way
  posts,          \* glipPostsStore
  input,          \* postInputs
  fetching,       \* _fetchPromises has one
  loads,          \* calls of loadPosts under way
  creates,        \* calls of create under way
  loaded,         \* history: the posts are those of this login
  older,          \* history: the posts the list loaded last was too short for
  raced,          \* history: posts whose ways here crossed
  events

vars == <<ready, logins, posted, removed, mine, notifications, posts, input, fetching, loads,
          creates, loaded, older, raced, events>>

\* A record of create has the post it will be for its id, which is not the server's yet.
Record == [post : Post, sendStatus : {"posted", "creating", "createError"}]
Load   == [login : 1..MaxLogins, at : {"sent", "served"}, records : Seq(Record),
           older : SUBSET Post]
Create == [post : Post, at : {"sent", "served", "refused"}]
Notification == [post : Post, eventType : {"PostAdded", "PostChanged", "PostRemoved"}]

TypeOK ==
  /\ ready \in BOOLEAN /\ logins \in 0..MaxLogins
  /\ posted \in Seq(Post) /\ removed \subseteq Post /\ mine \subseteq Post
  /\ notifications \subseteq Notification
  /\ posts \in Seq(Record)
  /\ input \in Text \cup {""}
  /\ fetching \in BOOLEAN /\ loads \subseteq Load /\ creates \subseteq Create
  /\ loaded \in BOOLEAN /\ older \subseteq Post /\ raced \subseteq Post
  /\ events \in 0..MaxEvents

Init ==
  /\ ready = FALSE /\ logins = 0
  /\ posted = <<>> /\ removed = {} /\ mine = {} /\ notifications = {}
  /\ posts = <<>> /\ input = ""
  /\ fetching = FALSE /\ loads = {} /\ creates = {}
  /\ loaded = FALSE /\ older = {} /\ raced = {}
  /\ events = 0

Counted == events < MaxEvents /\ events' = events + 1

-----------------------------------------------------------------------------
(* The reducer. *)

New(p)    == [post |-> p, sendStatus |-> "posted"]
Held(p)   == {i \in DOMAIN posts : posts[i] = New(p)}
Fakes(p)  == {i \in DOMAIN posts : posts[i] = [post |-> p, sendStatus |-> "creating"]}
Sending(t) == {i \in DOMAIN posts : posts[i].sendStatus = "creating" /\ TextOf[posts[i].post] = t}

Put(at, record) ==
  IF at = {} THEN <<record>> \o posts
  ELSE [posts EXCEPT ![CHOOSE i \in at : \A j \in at : i <= j] = record]

Creating(p) == \E c \in creates : c.post = p

-----------------------------------------------------------------------------
(* The server, and the other devices of all users. *)

Fresh(p) ==
  /\ p \notin Range(posted) \cup removed /\ ~Creating(p)
  /\ \A i \in DOMAIN posts : posts[i].post # p

Added(p) ==
  /\ posted' = <<p>> \o posted
  /\ notifications' = notifications \cup {[post |-> p, eventType |-> "PostAdded"]}

\* Somebody, or the user at another device.
PostElsewhere(p) ==
  /\ Fresh(p)
  /\ mine' \in {mine, mine \cup {p}}
  /\ Added(p)
  /\ UNCHANGED <<ready, logins, removed, posts, input, fetching, loads, creates, loaded, older,
                 raced, events>>

Change(p) ==
  /\ Counted /\ p \in Range(posted)
  /\ notifications' = notifications \cup {[post |-> p, eventType |-> "PostChanged"]}
  /\ UNCHANGED <<ready, logins, posted, removed, mine, posts, input, fetching, loads, creates,
                 loaded, older, raced>>

Remove(p) ==
  /\ Counted
  /\ \E k \in DOMAIN posted :
       /\ posted[k] = p
       /\ posted' = SubSeq(posted, 1, k - 1) \o SubSeq(posted, k + 1, Len(posted))
  /\ removed' = removed \cup {p}
  /\ notifications' = notifications \cup {[post |-> p, eventType |-> "PostRemoved"]}
  /\ UNCHANGED <<ready, logins, mine, posts, input, fetching, loads, creates, loaded, older,
                 raced>>

\* What the list holds, and what it is too short for.
Listed == IF Len(posted) < RecordCount THEN Len(posted) ELSE RecordCount
Latest == [i \in 1..Listed |-> New(posted[i])]
Older  == {posted[i] : i \in {k \in DOMAIN posted : k > Listed}}

Serve ==
  /\ \/ \E c \in creates :
          /\ c.at = "sent"
          /\ \/ /\ creates' = (creates \ {c}) \cup {[c EXCEPT !.at = "served"]}
                /\ Added(c.post)
                /\ mine' = mine \cup {c.post}
                /\ UNCHANGED events
             \/ /\ Counted
                /\ creates' = (creates \ {c}) \cup {[c EXCEPT !.at = "refused"]}
                /\ UNCHANGED <<posted, mine, notifications>>
          /\ UNCHANGED loads
     \/ \E l \in loads :
          /\ l.at = "sent"
          /\ loads' = (loads \ {l}) \cup
               {[login |-> l.login, at |-> "served", records |-> Latest, older |-> Older]}
          /\ UNCHANGED <<posted, mine, notifications, creates, events>>
  /\ UNCHANGED <<ready, logins, removed, posts, input, fetching, loaded, older, raced>>

-----------------------------------------------------------------------------
(* The module. *)

Initialize ==
  /\ ~ready /\ logins < MaxLogins
  /\ ready' = TRUE /\ logins' = logins + 1
  /\ UNCHANGED <<posted, removed, mine, notifications, posts, input, fetching, loads, creates,
                 loaded, older, raced, events>>

\* What is under way goes on, and what the subscription has to tell is lost.
Reset ==
  /\ ready /\ Counted
  /\ ready' = FALSE
  /\ posts' = <<>> /\ fetching' = FALSE
  /\ notifications' = {} /\ loaded' = FALSE
  /\ UNCHANGED <<logins, posted, removed, mine, input, loads, creates, older, raced>>

\* _processSubscription.  A removal is left alone, and so is a post of one's own that is
\* being created: that is for create.
Notify(n) ==
  /\ ready /\ n \in notifications
  /\ notifications' = notifications \ {n}
  /\ LET own == n.post \in mine /\ n.eventType = "PostAdded" /\ Held(n.post) = {}
         ignored == own /\ Sending(TextOf[n.post]) # {}
     IN IF n.eventType = "PostRemoved" THEN UNCHANGED <<posts, raced>>
        ELSE /\ posts' = IF ignored THEN posts ELSE Put(Held(n.post), New(n.post))
             /\ raced' = IF \/ ignored /\ Fakes(n.post) = {}
                            \/ /\ ~ignored /\ Creating(n.post)
                               /\ Fakes(n.post) = {} \/ n.eventType = "PostChanged"
                         THEN raced \cup {n.post} ELSE raced
  /\ UNCHANGED <<ready, logins, posted, removed, mine, input, fetching, loads, creates, loaded,
                 older, events>>

LoadPosts ==
  /\ ready /\ ~fetching /\ Counted
  /\ fetching' = TRUE
  /\ loads' = loads \cup {[login |-> logins, at |-> "sent", records |-> <<>>, older |-> {}]}
  /\ UNCHANGED <<ready, logins, posted, removed, mine, notifications, posts, input, creates,
                 loaded, older, raced>>

\* fetchSuccess.  It ends the load of another login, too, if there is one.
Loaded(l) ==
  /\ l \in loads /\ l.at = "served"
  /\ loads' = loads \ {l}
  /\ fetching' = FALSE
  /\ posts' = l.records /\ older' = l.older
  /\ loaded' = (ready /\ l.login = logins)
  /\ raced' = raced \cup {p \in Post : /\ p \in Range(posted) \ l.older
                                       /\ New(p) \notin Range(l.records)
                                       /\ ~ \E n \in notifications : n.post = p
                                       /\ ~ \E c \in creates : c.post = p /\ c.at # "refused"}
                    \cup {p \in Post : Creating(p) /\ New(p) \in Range(l.records)}
  /\ UNCHANGED <<ready, logins, posted, removed, mine, notifications, input, creates, events>>

LoadFails(l) ==
  /\ Counted /\ l \in loads
  /\ loads' = loads \ {l}
  /\ fetching' = FALSE
  /\ UNCHANGED <<ready, logins, posted, removed, mine, notifications, posts, input, creates,
                 loaded, older, raced>>

UpdatePostInput(t) ==
  /\ input # t
  /\ input' = t
  /\ UNCHANGED <<ready, logins, posted, removed, mine, notifications, posts, fetching, loads,
                 creates, loaded, older, raced, events>>

\* create, up to the request.
CreatePost(p) ==
  /\ ready /\ input = TextOf[p] /\ Fresh(p)
  /\ posts' = Put({}, [post |-> p, sendStatus |-> "creating"])
  /\ input' = ""
  /\ creates' = creates \cup {[post |-> p, at |-> "sent"]}
  /\ UNCHANGED <<ready, logins, posted, removed, mine, notifications, fetching, loads, loaded,
                 older, raced, events>>

Replaced_Top(p) == {}
\* Where the answer goes: the record of create, if it is there still.
Replaced(p) == Fakes(p)

Created(c) ==
  /\ c \in creates /\ c.at = "served"
  /\ creates' = creates \ {c}
  /\ posts' = Put(Replaced(c.post), New(c.post))
  /\ UNCHANGED <<ready, logins, posted, removed, mine, notifications, input, fetching, loads,
                 loaded, older, raced, events>>

\* The server refused it, or its answer is lost.  The text is the input again.
CreateFails(c) ==
  /\ c \in creates
  /\ \/ c.at = "refused" /\ UNCHANGED events
     \/ c.at = "served" /\ Counted
  /\ creates' = creates \ {c}
  /\ posts' = Put(Fakes(c.post), [post |-> c.post, sendStatus |-> "createError"])
  /\ input' = TextOf[c.post]
  /\ raced' = IF c.at = "served" THEN raced \cup {c.post} ELSE raced
  /\ UNCHANGED <<ready, logins, posted, removed, mine, notifications, fetching, loads, loaded,
                 older>>

Next ==
  \/ \E p \in Post : PostElsewhere(p) \/ Change(p) \/ Remove(p) \/ CreatePost(p)
  \/ Serve \/ Initialize \/ Reset \/ LoadPosts
  \/ \E n \in notifications : Notify(n)
  \/ \E l \in loads : Loaded(l) \/ LoadFails(l)
  \/ \E t \in Text : UpdatePostInput(t)
  \/ \E c \in creates : Created(c) \/ CreateFails(c)

Spec == Init /\ [][Next]_vars

-----------------------------------------------------------------------------
(* Once the posts are loaded, each the server has is shown once, or its notification or *)
(* the answer of create is still to come, or the list was too short for it; what is     *)
(* shown as being sent is being sent, and what is shown as failed was refused.  A post  *)
(* that was removed may stay: nothing takes it out before the next load.  Raced are the *)
(* posts of which a load, a notification and an answer told in an order the records do  *)
(* not tell apart.                                                                      *)
PostsShown ==
  loaded =>
    \A p \in Post \ raced :
      /\ p \in Range(posted) =>
           \/ Cardinality(Held(p)) = 1
           \/ \E n \in notifications : n.post = p
           \/ \E c \in creates : c.post = p
           \/ p \in older
      /\ Cardinality(Held(p)) <= 1
      /\ Held(p) # {} => p \in Range(posted) \cup removed
      /\ Fakes(p) # {} => Creating(p)
      /\ (\E i \in DOMAIN posts : posts[i] = [post |-> p, sendStatus |-> "createError"]) =>
            p \notin Range(posted) \cup removed
=============================================================================
