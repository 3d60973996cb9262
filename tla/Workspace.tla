-------------------------------- MODULE Workspace --------------------------------
(***************************************************************************)
(* The components of messages, of the log of conversations, of Glip and of *)
(* contacts, one at a time.  None of them reads what another one writes    *)
(* but through what their modules name external.                           *)
(***************************************************************************)
EXTENDS Stage, Integers, FiniteSets

CONSTANTS
  CvThing, CvSms, CvBatchSize, CvMaxMessages, CvMaxEvents,
  MvConversation, MvMaxMessages, MvMaxEvents,
  TsNumber, TsParsed, TsPhone, TsExtension, TsReplied, TsContact, TsMaxSends, TsMaxEdits,
  GpPost, GpRecordCount, GpText, GpTextOf, GpMaxLogins, GpMaxEvents,
  GgGroup, GgMaxLogins, GgMaxChanges, GgMaxEvents,
  GePerson, GeBatchSize, GeMaxLogins, GeMaxCalls,
  AbContact, AbMaxLogins, AbMaxChanges, AbMaxEvents,
  CsSources, CsText, CsMaxSearches, CsMaxEvents,
  AcPerson, AcBatchSize, AcMaxAsks, AcMaxEvents

VARIABLES
  \* of more than one component:
  latest, asked, ready, loads, polling, overtaken, timeout,
  \* of ConversationLogger:
  lastAutoLog, known,
  \* of MessageViews:
  version, unread, updatedTimestamp, view, reads, replies, recent, prevTimestamp, messages,
  \* of TextSending:
  toNumbers, typingToNumber, text, validSender, sendStatus, sends, edits,
  \* of GlipPosts:
  posted, removed, mine, notifications, posts, input, fetching, creates, loaded, older,
  \* of GlipGroups:
  member, connected, pushed, chats,
  \* of GlipPersons:
  personsMap, fetchingIds, loadMe,
  \* of AddressBook:
  book,
  \* of ContactSearch:
  typed, searchStatus, searching, searchIds,
  \* of AccountContacts:
  presences, contexts, batches, answered, late

Cv == INSTANCE ConversationLogger WITH
  Thing <- CvThing, Sms <- CvSms, BatchSize <- CvBatchSize, MaxMessages <- CvMaxMessages,
  MaxEvents <- CvMaxEvents

Mv == INSTANCE MessageViews WITH
  None <- none, Conversation <- MvConversation, MaxMessages <- MvMaxMessages,
  MaxEvents <- MvMaxEvents

Ts == INSTANCE TextSending WITH
  Number <- TsNumber, Parsed <- TsParsed, Phone <- TsPhone, Extension <- TsExtension,
  Replied <- TsReplied, Contact <- TsContact, MaxSends <- TsMaxSends, MaxEdits <- TsMaxEdits

Gp == INSTANCE GlipPosts WITH
  Post <- GpPost, RecordCount <- GpRecordCount, Text <- GpText, TextOf <- GpTextOf,
  MaxLogins <- GpMaxLogins, MaxEvents <- GpMaxEvents

Gg == INSTANCE GlipGroups WITH
  NoOne <- none, None <- none, Group <- GgGroup, MaxLogins <- GgMaxLogins,
  MaxChanges <- GgMaxChanges, MaxEvents <- GgMaxEvents

Ge == INSTANCE GlipPersons WITH
  NoOne <- none, Person <- GePerson, BatchSize <- GeBatchSize, MaxLogins <- GeMaxLogins,
  MaxCalls <- GeMaxCalls

Ab == INSTANCE AddressBook WITH
  NoOne <- none, Contact <- AbContact, MaxLogins <- AbMaxLogins, MaxChanges <- AbMaxChanges,
  MaxEvents <- AbMaxEvents

Cs == INSTANCE ContactSearch WITH
  Sources <- CsSources, Text <- CsText, MaxSearches <- CsMaxSearches,
  MaxEvents <- CsMaxEvents

Ac == INSTANCE AccountContacts WITH
  Person <- AcPerson, BatchSize <- AcBatchSize, MaxAsks <- AcMaxAsks,
  MaxEvents <- AcMaxEvents

\* Nothing is no user, no message, no conversation and no time;
\* things and numbers are finitely many, and no phone number is an extension.
ASSUME WorkspaceConstants ==
  /\ none \notin Owner /\ none \notin Gg!Message
  /\ none \notin MvConversation /\ none \notin Nat
  /\ IsFiniteSet(CvThing) /\ CvSms \subseteq CvThing /\ IsFiniteSet(TsNumber)
  /\ TsReplied \subseteq SUBSET TsNumber /\ TsPhone \cap TsExtension = {}
  /\ GpTextOf \in [GpPost -> GpText]
  /\ {CvBatchSize, MvMaxMessages, MvMaxEvents, TsMaxSends, TsMaxEdits, GpMaxLogins, GpMaxEvents,
      GpRecordCount, GgMaxLogins, GgMaxEvents, GeMaxLogins, GeMaxCalls, AbMaxLogins, AbMaxEvents,
      CsMaxSearches, CsMaxEvents, AcMaxAsks, AcMaxEvents} \subseteq Nat
  /\ {GgMaxChanges, AbMaxChanges, CsSources, AcBatchSize} \subseteq Nat \ {0}

\* What is too short to search for is no text to search for.
ASSUME SearchedText == "" \notin CsText

-----------------------------------------------------------------------------
\* The variables that only one component has, and what they are while another one runs.

cvVars ==
  <<lastAutoLog, known>>

NoConversationLogger ==
  /\ lastAutoLog = none /\ known = none

mvVars ==
  <<version, unread, updatedTimestamp, view, reads, replies, recent, prevTimestamp, messages>>

NoMessageViews ==
  /\ version = none /\ unread = none /\ updatedTimestamp = none /\ view = none
  /\ reads = none /\ replies = none /\ recent = none /\ prevTimestamp = none
  /\ messages = none

tsVars ==
  <<toNumbers, typingToNumber, text, validSender, sendStatus, sends, edits>>

NoTextSending ==
  /\ toNumbers = none /\ typingToNumber = none /\ text = none /\ validSender = none
  /\ sendStatus = none /\ sends = none /\ edits = none

gpVars ==
  <<posted, removed, mine, notifications, posts, input, fetching, creates, loaded, older>>

NoGlipPosts ==
  /\ posted = none /\ removed = none /\ mine = none /\ notifications = none /\ posts = none
  /\ input = none /\ fetching = none /\ creates = none /\ loaded = none /\ older = none

ggVars ==
  <<member, connected, pushed, chats>>

NoGlipGroups ==
  /\ member = none /\ connected = none /\ pushed = none /\ chats = none

geVars ==
  <<personsMap, fetchingIds, loadMe>>

NoGlipPersons ==
  /\ personsMap = none /\ fetchingIds = none /\ loadMe = none

abVars ==
  <<book>>

NoAddressBook ==
  /\ book = none

csVars ==
  <<typed, searchStatus, searching, searchIds>>

NoContactSearch ==
  /\ typed = none /\ searchStatus = none /\ searching = none /\ searchIds = none

acVars ==
  <<presences, contexts, batches, answered, late>>

NoAccountContacts ==
  /\ presences = none /\ contexts = none /\ batches = none /\ answered = none /\ late = none

WorkspaceInit ==
  \/ /\ which = "ConversationLogger" /\ Cv!Init
     /\ NoMessageViews /\ NoTextSending /\ NoGlipPosts /\ NoGlipGroups /\ NoGlipPersons
     /\ NoAddressBook /\ NoContactSearch /\ NoAccountContacts /\ cache = none
     /\ fresh = none /\ logins = none /\ waiting = none /\ raced = none /\ owner = none
     /\ message = none /\ crossed = none /\ cached = none /\ mayRead = none /\ clock = none
     /\ data = none /\ kept = none /\ timer = none /\ calls = none /\ fetches = none
     /\ wanted = none /\ failed = none /\ missed = none /\ ready = none /\ loads = none
     /\ polling = none /\ overtaken = none /\ timeout = none
  \/ /\ which = "MessageViews" /\ Mv!Init
     /\ NoConversationLogger /\ NoTextSending /\ NoGlipPosts /\ NoGlipGroups
     /\ NoGlipPersons /\ NoAddressBook /\ NoContactSearch /\ NoAccountContacts
     /\ cache = none /\ status = none /\ fresh = none /\ loggedIn = none /\ logins = none
     /\ waiting = none /\ raced = none /\ owner = none /\ message = none /\ promise = none
     /\ crossed = none /\ cached = none /\ mayRead = none /\ data = none /\ kept = none
     /\ runs = none /\ queue = none /\ timer = none /\ logs = none /\ logPromises = none
     /\ loggingList = none /\ recorded = none /\ disturbed = none /\ calls = none
     /\ active = none /\ autoLog = none /\ excused = none /\ fetches = none /\ wanted = none
     /\ failed = none /\ last = none /\ latest = none /\ asked = none /\ polling = none
     /\ overtaken = none /\ timeout = none
  \/ /\ which = "TextSending" /\ Ts!Init
     /\ NoConversationLogger /\ NoMessageViews /\ NoGlipPosts /\ NoGlipGroups
     /\ NoGlipPersons /\ NoAddressBook /\ NoContactSearch /\ NoAccountContacts
     /\ cache = none /\ status = none /\ fresh = none /\ loggedIn = none /\ logins = none
     /\ waiting = none /\ raced = none /\ owner = none /\ events = none /\ message = none
     /\ promise = none /\ crossed = none /\ cached = none /\ mayRead = none /\ clock = none
     /\ data = none /\ kept = none /\ runs = none /\ queue = none /\ timer = none
     /\ logs = none /\ logPromises = none /\ loggingList = none /\ recorded = none
     /\ disturbed = none /\ calls = none /\ active = none /\ autoLog = none
     /\ excused = none /\ fetches = none /\ wanted = none /\ failed = none /\ missed = none
     /\ latest = none /\ asked = none /\ ready = none /\ loads = none /\ polling = none
     /\ overtaken = none /\ timeout = none
  \/ /\ which = "GlipPosts" /\ Gp!Init
     /\ NoConversationLogger /\ NoMessageViews /\ NoTextSending /\ NoGlipGroups
     /\ NoGlipPersons /\ NoAddressBook /\ NoContactSearch /\ NoAccountContacts
     /\ cache = none /\ status = none /\ fresh = none /\ loggedIn = none /\ waiting = none
     /\ owner = none /\ message = none /\ promise = none /\ crossed = none
     /\ cached = none /\ mayRead = none /\ clock = none /\ data = none /\ kept = none
     /\ runs = none /\ queue = none /\ timer = none /\ logs = none /\ logPromises = none
     /\ loggingList = none /\ recorded = none /\ disturbed = none /\ calls = none
     /\ active = none /\ autoLog = none /\ excused = none /\ fetches = none /\ wanted = none
     /\ failed = none /\ last = none /\ missed = none /\ latest = none /\ asked = none
     /\ polling = none /\ overtaken = none /\ timeout = none
  \/ /\ which = "GlipGroups" /\ Gg!Init
     /\ NoConversationLogger /\ NoMessageViews /\ NoTextSending /\ NoGlipPosts
     /\ NoGlipPersons /\ NoAddressBook /\ NoContactSearch /\ NoAccountContacts
     /\ cache = none /\ fresh = none /\ loggedIn = none /\ waiting = none /\ raced = none
     /\ mayRead = none /\ runs = none /\ queue = none /\ logs = none /\ logPromises = none
     /\ loggingList = none /\ recorded = none /\ disturbed = none /\ calls = none
     /\ autoLog = none /\ excused = none /\ wanted = none /\ failed = none /\ last = none
     /\ latest = none /\ asked = none /\ ready = none /\ loads = none /\ overtaken = none
     /\ timeout = none
  \/ /\ which = "GlipPersons" /\ Ge!Init
     /\ NoConversationLogger /\ NoMessageViews /\ NoTextSending /\ NoGlipPosts
     /\ NoGlipGroups /\ NoAddressBook /\ NoContactSearch /\ NoAccountContacts
     /\ cache = none /\ loggedIn = none /\ waiting = none /\ raced = none /\ events = none
     /\ message = none /\ promise = none /\ cached = none /\ mayRead = none
     /\ clock = none /\ data = none /\ runs = none /\ queue = none /\ timer = none
     /\ logs = none /\ logPromises = none /\ loggingList = none /\ recorded = none
     /\ disturbed = none /\ active = none /\ autoLog = none /\ excused = none
     /\ fetches = none /\ last = none /\ missed = none /\ latest = none /\ ready = none
     /\ loads = none /\ polling = none /\ overtaken = none /\ timeout = none
  \/ /\ which = "AddressBook" /\ Ab!Init
     /\ NoConversationLogger /\ NoMessageViews /\ NoTextSending /\ NoGlipPosts
     /\ NoGlipGroups /\ NoGlipPersons /\ NoContactSearch /\ NoAccountContacts
     /\ cache = none /\ loggedIn = none /\ waiting = none /\ raced = none /\ message = none
     /\ queue = none /\ logs = none /\ logPromises = none /\ loggingList = none
     /\ recorded = none /\ disturbed = none /\ calls = none /\ autoLog = none
     /\ excused = none /\ fetches = none /\ wanted = none /\ failed = none /\ last = none
     /\ missed = none /\ latest = none /\ asked = none /\ ready = none /\ loads = none
     /\ timeout = none
  \/ /\ which = "ContactSearch" /\ Cs!Init
     /\ NoConversationLogger /\ NoMessageViews /\ NoTextSending /\ NoGlipPosts
     /\ NoGlipGroups /\ NoGlipPersons /\ NoAddressBook /\ NoAccountContacts /\ status = none
     /\ fresh = none /\ logins = none /\ raced = none /\ owner = none /\ message = none
     /\ promise = none /\ crossed = none /\ cached = none /\ mayRead = none
     /\ clock = none /\ data = none /\ kept = none /\ queue = none /\ timer = none
     /\ logs = none /\ logPromises = none /\ loggingList = none /\ recorded = none
     /\ disturbed = none /\ calls = none /\ active = none /\ autoLog = none
     /\ excused = none /\ fetches = none /\ wanted = none /\ last = none /\ missed = none
     /\ asked = none /\ ready = none /\ loads = none /\ polling = none
  \/ /\ which = "AccountContacts" /\ Ac!Init
     /\ NoConversationLogger /\ NoMessageViews /\ NoTextSending /\ NoGlipPosts
     /\ NoGlipGroups /\ NoGlipPersons /\ NoAddressBook /\ NoContactSearch /\ cache = none
     /\ fresh = none /\ loggedIn = none /\ waiting = none /\ raced = none /\ owner = none
     /\ message = none /\ promise = none /\ crossed = none /\ cached = none
     /\ mayRead = none /\ clock = none /\ data = none /\ kept = none /\ runs = none
     /\ queue = none /\ timer = none /\ logs = none /\ logPromises = none
     /\ loggingList = none /\ recorded = none /\ disturbed = none /\ calls = none
     /\ active = none /\ autoLog = none /\ excused = none /\ fetches = none /\ wanted = none
     /\ failed = none /\ last = none /\ missed = none /\ latest = none /\ ready = none
     /\ loads = none /\ polling = none /\ overtaken = none

WorkspaceNext ==
  \/ /\ which = "ConversationLogger" /\ Cv!Next
     /\ UNCHANGED <<which, mvVars, tsVars, gpVars, ggVars, geVars, abVars, csVars, acVars,
                    cache, fresh, logins, waiting, raced, owner, message, crossed, cached,
                    mayRead, clock, data, kept, timer, calls, fetches, wanted, failed,
                    missed, ready, loads, polling, overtaken, timeout>>
  \/ /\ which = "MessageViews" /\ Mv!Next
     /\ UNCHANGED <<which, cvVars, tsVars, gpVars, ggVars, geVars, abVars, csVars, acVars,
                    cache, status, fresh, loggedIn, logins, waiting, raced, owner, message,
                    promise, crossed, cached, mayRead, data, kept, runs, queue, timer, logs,
                    logPromises, loggingList, recorded, disturbed, calls, active, autoLog,
                    excused, fetches, wanted, failed, last, latest, asked, polling,
                    overtaken, timeout>>
  \/ /\ which = "TextSending" /\ Ts!Next
     /\ UNCHANGED <<which, cvVars, mvVars, gpVars, ggVars, geVars, abVars, csVars, acVars,
                    cache, status, fresh, loggedIn, logins, waiting, raced, owner, events,
                    message, promise, crossed, cached, mayRead, clock, data, kept, runs,
                    queue, timer, logs, logPromises, loggingList, recorded, disturbed,
                    calls, active, autoLog, excused, fetches, wanted, failed, missed,
                    latest, asked, ready, loads, polling, overtaken, timeout>>
  \/ /\ which = "GlipPosts" /\ Gp!Next
     /\ UNCHANGED <<which, cvVars, mvVars, tsVars, ggVars, geVars, abVars, csVars, acVars,
                    cache, status, fresh, loggedIn, waiting, owner, message, promise,
                    crossed, cached, mayRead, clock, data, kept, runs, queue, timer, logs,
                    logPromises, loggingList, recorded, disturbed, calls, active, autoLog,
                    excused, fetches, wanted, failed, last, missed, latest, asked, polling,
                    overtaken, timeout>>
  \/ /\ which = "GlipGroups" /\ Gg!Next
     /\ UNCHANGED <<which, cvVars, mvVars, tsVars, gpVars, geVars, abVars, csVars, acVars,
                    cache, fresh, loggedIn, waiting, raced, mayRead, runs, queue, logs,
                    logPromises, loggingList, recorded, disturbed, calls, autoLog, excused,
                    wanted, failed, last, latest, asked, ready, loads, overtaken, timeout>>
  \/ /\ which = "GlipPersons" /\ Ge!Next
     /\ UNCHANGED <<which, cvVars, mvVars, tsVars, gpVars, ggVars, abVars, csVars, acVars,
                    cache, loggedIn, waiting, raced, events, message, promise, cached,
                    mayRead, clock, data, runs, queue, timer, logs, logPromises,
                    loggingList, recorded, disturbed, active, autoLog, excused, fetches,
                    last, missed, latest, ready, loads, polling, overtaken, timeout>>
  \/ /\ which = "AddressBook" /\ Ab!Next
     /\ UNCHANGED <<which, cvVars, mvVars, tsVars, gpVars, ggVars, geVars, csVars, acVars,
                    cache, loggedIn, waiting, raced, message, queue, logs, logPromises,
                    loggingList, recorded, disturbed, calls, autoLog, excused, fetches,
                    wanted, failed, last, missed, latest, asked, ready, loads, timeout>>
  \/ /\ which = "ContactSearch" /\ Cs!Next
     /\ UNCHANGED <<which, cvVars, mvVars, tsVars, gpVars, ggVars, geVars, abVars, acVars,
                    status, fresh, logins, raced, owner, message, promise, crossed, cached,
                    mayRead, clock, data, kept, queue, timer, logs, logPromises,
                    loggingList, recorded, disturbed, calls, active, autoLog, excused,
                    fetches, wanted, last, missed, asked, ready, loads, polling>>
  \/ /\ which = "AccountContacts" /\ Ac!Next
     /\ UNCHANGED <<which, cvVars, mvVars, tsVars, gpVars, ggVars, geVars, abVars, csVars,
                    cache, fresh, loggedIn, waiting, raced, owner, message, promise,
                    crossed, cached, mayRead, clock, data, kept, runs, queue, timer, logs,
                    logPromises, loggingList, recorded, disturbed, calls, active, autoLog,
                    excused, fetches, wanted, failed, last, missed, latest, ready, loads,
                    polling, overtaken>>

WorkspaceVars ==
  <<which, cache, status, fresh, loggedIn, logins, waiting, raced, owner, events,
    message, promise, crossed, cached, mayRead, clock, data, kept, runs, queue, timer,
    logs, logPromises, loggingList, recorded, disturbed, calls, active, autoLog,
    excused, fetches, wanted, failed, last, missed, latest, asked, ready, loads,
    polling, overtaken, timeout, cvVars, mvVars, tsVars, gpVars, ggVars, geVars,
    abVars, csVars, acVars>>

WorkspaceSpec == WorkspaceInit /\ [][WorkspaceNext]_WorkspaceVars

-----------------------------------------------------------------------------
(* What its module says of the component that runs. *)

WorkspaceTypeOK ==
  /\ which = "ConversationLogger" => Cv!TypeOK
  /\ which = "MessageViews" => Mv!TypeOK
  /\ which = "TextSending" => Ts!TypeOK
  /\ which = "GlipPosts" => Gp!TypeOK
  /\ which = "GlipGroups" => Gg!TypeOK
  /\ which = "GlipPersons" => Ge!TypeOK
  /\ which = "AddressBook" => Ab!TypeOK
  /\ which = "ContactSearch" => Cs!TypeOK
  /\ which = "AccountContacts" => Ac!TypeOK

\* What is to be logged of a conversation has been, in its latest version, or is about to
\* (modules/ConversationLogger).
ThingsLogged == which = "ConversationLogger" => Cv!LatestLogged

\* The conversations shown are those of the store, whatever crosses, and read when they were
\* looked at (modules/Conversation, RecentMessages); whoever sends a text is told what became of
\* it (modules/ComposeText, MessageSender).
MessagesServed ==
  /\ which = "MessageViews" => Mv!ViewsShowStore
  /\ which = "TextSending" => Ts!SendTells

\* The posts, groups and persons shown are those the server has, and the user may see
\* (modules/GlipPosts, GlipGroups, GlipPersons).
GlipShown ==
  /\ which = "GlipPosts" => Gp!PostsShown
  /\ which = "GlipGroups" => Gg!GroupsServed
  /\ which = "GlipPersons" => Ge!PersonsKnown

\* The address book is complete up to its token (modules/AddressBook), and a search shows
\* what was searched for last (modules/ContactSearch); who asks for a contact's presence is
\* answered (modules/AccountContacts).
ContactsServed ==
  /\ which = "AddressBook" => Ab!BookComplete
  /\ which = "ContactSearch" => Cs!SearchShown
  /\ which = "AccountContacts" => Ac!PresencesAnswered
=============================================================================
