# Metamaps: TLA+ specifications

Metamaps is a collaborative concept-mapping application in three processes:

* a Rails application (`app/`), which stores maps, topics, synapses, the mappings that put them on
  maps, follows, access requests and events, and broadcasts changes over Action Cable;
* a node *realtime server* (`realtime/`, socket.io), which knows in memory who is on which map and
  who is in a map's call, and relays cursors, drags, invitations and WebRTC signalling;
* the page (`frontend/src/`, Backbone and React), which talks to both.

There is no test of the realtime server or of the realtime part of the page in the repository
(`frontend/test` covers the importer, some views and the data model), and its behaviour depends on
the order in which events of several pages arrive. It is modelled first.

All source paths below are relative to the root of the repository.

## 1. Inventory

| Component | State | Operations | Talks to | Hard behaviour | What makes it correct |
| --- | --- | --- | --- | --- | --- |
| Realtime store, `realtime/reducer.js` | `connectedPeople`, `liveMaps` (map, user, in-call flag) | JOIN_MAP, LEAVE_MAP, JOIN_CALL, LEAVE_CALL, DISCONNECT | dispatched to by `global.js`, read by every page | dictionaries with keys `null` and `undefined`; "the last one" and "the call of two" found by counting keys | lists are what the connections say; the directory covers the lists; an event touches one user's presence |
| Realtime server, `realtime/{global,map,junto,rooms}.js` | sockets, their `mapid` and `userid`, socket.io rooms | one handler per event, several callbacks for some, connection and disconnection | pages, over socket.io | the store is updated before the socket's fields; disconnection empties the rooms first; restart loses everything | rooms follow sockets; whoever hears a map is listed; nobody vanishes unannounced |
| Signalling, `realtime/signal.js` | `socket.room`, `socket.resources` | join, leave, message, shareScreen, create | pages' WebRTC | leaving the old room before joining the new one, disconnection | peers are told to remove a feed |
| Realtime client, `frontend/src/Metamaps/Realtime/` | `mappersOnMap`, `inConversation`, the connection | sending (`sendable.js`), receiving (`receivable.js`), connect, start and end of a map | server, chat view, toasts, router | reconnection, messages of the map just left, repeated joins, callbacks subscribed again, callbacks that throw half way | pages and server agree when all has arrived |
| Chat view and toasts, `Views/ChatView.js`, `GlobalUI/index.js`, `routes/MapView/MapChat` | `participants`, `conversationLive`, `isParticipating`, toast and its queue | buttons, toast buttons | realtime client | callbacks bound to whatever toast is on screen | a page shows a call as long as there is one |
| Map life cycle, `Map/index.js`, `GlobalUI/ReactApp.js`, `routes/MapView/index.js` | `mapId` of the route, `Active.Map` | navigate, launch, end | everything in the page | answers of `contains.json` after the page has moved on | the page joins only the map it shows |
| Cable client, `Cable.js` | `DataModel` collections, graph | topicAdded, topicRemoved, synapseAdded, ..., mapUpdated | map channel, web controllers | messages applied between two requests, polling for the answers | the page's collections follow the map |
| Map channel, `app/channels`, callbacks in `app/models` | subscriptions | subscribed, unsubscribed, broadcast | Cable client | subscription before or after a change, permission checked once | who may see a map hears its changes |
| Follows and notifications, `app/services/follow_service.rb`, `notification_service.rb` | `follows`, `follow_reasons`, receipts | follow, unfollow, remove_reason, notify_followers | models, background jobs | jobs and requests at the same time, no unique index | one follow per user and entity; a mute stays |
| Access, `app/models/access_request.rb`, `access_controller.rb`, `map.rb` 118-136 | `access_requests`, `user_maps` | access_request, approve, deny, access | follows, notifications, policies | approve twice, deny after approve, collaborators edited meanwhile | an approved request means access; a removal takes requests and user_maps; who is let in is told |
| Permissions, `app/policies`, `topic.rb`, `synapse.rb`, `mapping.rb` | `permission`, `defer_to_map` | create, update, destroy, the policies | everything | deferral to a map that changes or goes away; `show?` against the scope | what a scope lists can be shown, and the other way round |
| Map activity, `map_activity_service.rb` | none (events of a window) | summarize_data | mailer | adds and removes that cancel | summary against the net change |
| Filters and selection, `Filter.js`, `Control.js`, `Selected.js` | `filters`, `visible`, selected nodes and edges | toggle, update, select, deselect, hide | graph | `splice(indexOf(...))` with -1 | visible is a part of filters |
| Layout and import, `AutoLayout.js`, `Import.js` | the spiral; the parser's state | getNextCoord, parseTabbedString | topics | state kept between calls | no cell twice; rows land in their section |
| Not for a model | | | | `JIT.js`, `patched/JIT.js`, components, mailers, serializers, export, views | drawing and formatting |

`PROJECT.json` lists the components with their sources, and under `hazards` every place found so far
where the order of events, a loss, a stale value or a half-done step matters, with the properties
that watch it. What the code does nothing against has a note instead, with the history variable by which the properties except it.

## 2. Plan

The order is that of the risk: the realtime part first, then the operations of the Rails
application that run concurrently, then the page's own data.

1. `JuntoStore`, `Presence`, `RealtimeServer` - the server, and what it promises. **Done**, with
   proofs in `RealtimeServer_proofs`.
2. `Realtime` - pages, channels and the server together. **Done**, with proofs in `Realtime_proofs`
   (types, the order of joins, what the server makes of it, and what the pages know of each other and of who talks).
3. `Follow` - follow, unfollow, remove_reason, statement by statement. **Done**. To come: who is
   notified of what (`notification_service.rb`), receipts and the unread count.
4. `Access` - access requests, collaborators, the `user_maps` and the jobs they make. **Done**,
   with proofs in `Access_proofs`. To come: an abstract specification (the editors, and who is told).
5. `Content` - maps, topics, synapses and mappings, permissions and deferral, `show?`, `update?`, the scope
   and the page's checks over them. **Done**, with proofs in `Content_proofs`. To come: the other scopes, forks.
6. `MapPage`, `Cable` - what a page holds, with its selection and filter, and the broadcasts of the map
   channel applied to it with requests out. **Done**, with proofs in `MapPage_proofs` and `Cable_proofs`. To come: `topicMoved`, the three
   updates, the filters by mapper and by synapse.
7. The algorithms `AutoLayout`, `ImportParser`, `MapActivity` against reference definitions over bounded inputs.

Proofs still to write: `ApprovedHaveAccess` also after a failed call; who the server counts as talking
(`TalkersAreListed`); what a quiet page shows (`QuietPageShowsTheMap`).

## 3. Modules

### JuntoStore (`realtime/reducer.js`)

The state of the redux store is a record; each action type is an operator from a store to a store
(`ReduceJoinMap`, `ReduceLeaveMap`, `ReduceJoinCall`, `ReduceLeaveCall`, `ReduceDisconnect`) over
`Omit` (lodash `omit`) and `Assign` (`Object.assign`). The JavaScript objects are dictionaries, so
their keys may be the strings `null` and `undefined`: `NoMap` and `NoUser` stand for both, which the
reducer treats alike (it deletes both from `liveMaps`). Names and avatars are left out.

### Presence

What the store promises, on two variables: who is `on` a map and who is `talking` there. One step
is about one user on one map, a call of two may end for both, and the server may forget everything.
`RealtimeServer` implements it (`StoreKeepsPresence`, `INSTANCE Presence WITH on <- ..., talking <- ...`).

### RealtimeServer (`realtime/global.js`, `map.js`, `junto.js`, `signal.js`)

| Variable | Code |
| --- | --- |
| `connected` | `io.sockets.connected` |
| `mapid`, `userid` | the fields `socket.mapid`, `socket.userid` |
| `mapRoom`, `userMapRoom` | the socket.io rooms of `rooms.js` |
| `videoRoom` | `socket.room` |
| `junto` | `store.getState()` |
| `emitted` | what the last event sent, with the sockets it is written to |
| `strays` | history: a JOIN_MAP without leaving, a JOIN_CALL for a map the socket has not joined |

Node runs all callbacks of one event in a row, in the order `realtime-server.js` registers the
files, so one event is one action; the store sees the socket's fields as they were. `Disconnect` is
the three 'disconnect' callbacks, after socket.io has emptied the rooms. `Restart` is a new process.
`Owner` says whose page opens a connection: several sockets of one owner are several tabs, or a
connection the server has not given up yet. `OneTab` excludes them, and the properties that need it say so.

### Realtime (the pages, and the server they talk to)

`Realtime` has the variables of the server and, for each user's page, those of the route, of
`Active.Map`, of the chat, of the call and of the connection. The actions of the server are the ones
of `RealtimeServer`, taken by `Handle` when a message arrives, and what they emit is appended to the
channels (`Deliver`). A browser runs one callback at a time, so each callback is one action:

* `Connect`, `Lose`: the 'connect' handler, with what socket.io held back sent after it; a broken
  connection loses a suffix of what the page sent and everything it would have received.
* `Navigate`, `Loaded`: the router and `Map.end`, then the answer of `contains.json` for any map
  asked for, whatever the page shows by then.
* `Receive`: the callbacks of `receivable.js`, each with what it leaves undone when it throws
  (before `setupChat`, or without an `Active.Map`). A callback runs once per connection the page has
  had, since every 'connect' subscribes again (`Handlers`).
* `Invite`, `JoinButton`, `LeaveButton`, `AnswerYes`, `AnswerNo`, `Dismiss`, `CameraReady`: what people do. A toast answers with
  every callback bound to its button while it was on screen; `newMapper` binds its invitation to a No as well
  (`receivable.js` 119), which `AnswerNo` sends.
* `Disconnect`: the server finds a connection dead, after the page did.

`incidents` is a history variable. It records that something broke the usual order, so that a
property can say precisely when it holds:

| Incident | Meaning |
| --- | --- |
| `rejoined` | connected again while the route and `Active.Map` differ |
| `replayed` | JOIN_MAPs of other maps held back while disconnected are sent after that of 'connect' |
| `late` | an answer of `contains.json` for a map that is not the page's any more |
| `hasty` | a map is shown before the messages of the one just left have all arrived |
| `crossed` | a NEW_MAPPER is answered by a page that is between two maps, with the map it has left or not reached |
| `doubled` | the page is on its map twice, by the old connection and by the new |
| `early` | a control or an accepted invitation is used before the map has loaded |
| `recalled` | connected again with a JOIN_CALL held back for a map the page does not show any more |

Each property names the incidents it cannot stand, and no others: `OneMapAtATime` those about connections and answers
(`Disorder`), `CallsFromTheMap` also the calls of another map (`Miscall`), `ServerSeesPages` also two connections
of a page on one map; only what a page knows of others needs them all away.
These are what the code does not defend against. `PROJECT.json` lists each as a hazard at its line; two of them
lead to the divergences below. Without them the pages and the server agree.

### Follow (`app/services/follow_service.rb`)

The rows that belong to one user and one entity, and the calls of `follow`, `unfollow` and
`remove_reason` that threads are in. Postgres isolates at READ COMMITTED and the service opens no
transaction, so a call is a sequence of statements, each a step (`Find`, `Create`, `Insert`,
`Validate`, `Write`, `ReadReason`, `Mark`), and statements of several threads interleave. What
ActiveRecord does in between is part of the steps: only columns that differ from the loaded
record are written, an UPDATE of a deleted row changes nothing, `first_or_create` returns an unsaved
record when the validation fails. `call[t]` holds what thread t has loaded. The reasons `commented`
and `starred`, which nothing sets, are left out.

### Access (`app/models/access_request.rb`, `user_map.rb`, `map.rb` 118-136, `access_controller.rb`)

| Variable | Code |
| --- | --- |
| `requests`, `userMaps` | the rows of `access_requests` and `user_maps` of one user and one map |
| `jobs` | the rows of `delayed_jobs` that concern them: `after_created_async` of UserMap and of Mapping |
| `work` | the request or the job each thread is at, with what it has loaded |
| `told` | the user_maps whose user has been notified |
| `turns`, `overlapped`, `failed` | what people have done so far; history: two things ran at once, a call raised |

`Access` extends `Follow`: where the code calls the service, the thread enters a call and goes on
when it is `Over`. `UserMap.create` commits the row with its job (the callback is an `after_create`);
destroying a user_map commits with what `remove_reason` writes, in one transaction (`DestroyedUserMap`).
A removal of editors destroys user_maps, then requests, one after the other, from lists it has read (`ListUserMaps`,
`ListRequests`). `Fail` ends a web request at an exception, with what it has committed left
as it is; `JobFails` puts a job back.

### MapPage (`DataModel/`, `Control.js`, `Selected.js`, `Filter.js`, the graph of `patched/JIT.js`)

The page of one map as a record: the collections (`topics`, `syns`, `maps` and `drafts`, the mappings
with and without an id, `mappers`), the graph (`graph`, `adj`, `edges`, and `node[t]` and `edge[s]`, the
objects the models point to), the selection (`selN`, `selE`, and `marked`, what is drawn as selected), the
filter (`filters`, `visible`, `dim`) and the timers of what fades out. A function of the source is an
operator from pages to pages, so one function calls another as in the source. A function that
throws leaves `threw` set, and `Then` skips what would have followed it. `Spliced` is
`splice(indexOf(x), 1)`, which takes the last element when `x` is not there; `deselectNode` and
`deselectEdge` use it without looking, `updateFilters` too. Nodes are found by id, and a topic without an id is drawn
under its `cid`, so objects and keys are told apart (`Key`). Every change of a collection checks the
filters (`Checks`, from `attachCollectionEvents`), and `checkMappers` throws when a mapping is by somebody
whose Mapper has not been loaded.

### Cable (`Cable.js`, `Topic.js`, `Synapse.js`, `Control.js`, `mapping.rb`)

`MapPage` in motion. `table`, `live` and `held` are the rows of mappings ever inserted, those not deleted and those not
committed; `stream` is the map's channel, in order; `loads` are the topics and synapses the page polls for,
each with the answers it still waits for. Actions are of four kinds: what others do (`OtherAdds`,
`OtherRemoves`, `OtherDestroys`, `Commit`), answers of the server in any order (`ServeUnmap`, ...,
`AnswerMapper`), turns of the page (`Added`, `Removed`, `Poll`, `FadeEnds`) and what its user does (clicks, DEL, the menu,
creating, toggling a metacode). A row is broadcast in the transaction that inserts it (`after_create`), so a page may ask for it
before it is committed and be told there is none. `wronged` is a history variable: the items on which a handler threw, a
request failed, or a broadcast came while the page was still loading, saving or fading the item
(`Overtakes`, `Busy`), or that its user took off at a bad moment (`UserTurn`).

The page's own topic is saved in two requests, POST /topics and, with the id of its answer, POST /mappings
(`Topic.js` 260-272). Nothing is broadcast by the first (`ServeCreate`). The second inserts a row and broadcasts it before it is
answered, so that the broadcast may reach the page first: `ServeMap` and `AnswerMap` are two actions. A load
has lost (`lost`) what it needs when one of its callbacks threw, or when the request for the mapper failed, which
`Mapper.get` does not look at (`Mapper.js` 8); its interval then runs until another answer cancels it, if one does. The loops over the selection
read `Selected.Nodes[i]` anew for each index while the bodies splice the list (`Places`, `AtPlace`). Opening
the card of a synapse deselects its edge, selected or not (`ShowSynapse`).

### Content (`map.rb`, `topic.rb`, `synapse.rb`, `mapping.rb`, their controllers, `app/policies`, `DataModel/Topic.js`)

| Variable | Code |
| --- | --- |
| `maps`, `topics`, `synapses` | the rows: owner, permission, collaborators, `defer_to_map_id`; `None` before, `Gone` after |
| `mappings`, `placing` | the rows of mappings; those validated and not inserted yet |
| `creating`, `changing` | a topic being inserted with the permission it read; a map's new permission with the topics found deferring to it |
| `seen` | the versions of a topic a page may hold: `topic.save` sends all attributes |
| `strayed`, `orphans` | history: what the code does not keep together |

A request is one step, except the three that read, in their transaction, what another transaction may
be writing; these begin and commit. Destruction takes dependents in the order of the models
(`DestroyMap` fails on an orphan mapping, whose `mappable` is nil at `mapping.rb` 71). The
policies, the scope of topics and the page's `authorizeToShow` and `authorizeToEdit` are operators.

## 4. Runs

| Run | Instance | Shows |
| --- | --- | --- |
| `MCRealtimeServer.cfg` | 3 users, a page each, 2 maps; one user moves between them | the store agrees with rooms and sockets, nobody vanishes silently, the store implements `Presence` |
| `TwoTabs.cfg` | 2 users, one of them with 2 connections, 2 maps, cameras on both | rooms follow sockets, no phantom users, feeds are removed at the peers |
| `MapRemoved.cfg` | as `TwoTabs.cfg`, no camera | violation: see 5 |
| `Navigation.cfg` | 2 pages, 2 maps, 2 moves by one of them, no losses | server and pages agree when all has arrived, and in the end every page is seen where it is |
| `Reconnection.cfg` | 2 pages, 1 loss and 1 move by one of them, 2 connections for it | the same after a reconnect, except for who was missed while disconnected |
| `Calls.cfg` | 2 pages, 1 move, 2 and 1 uses of the call's controls | whoever talks is counted by server and pages |
| `LeavingTwo.cfg` | 2 pages on one map | violation: see 5 |
| `StaleInfo.cfg` | 2 pages, 2 maps, 2 moves | violation: see 5 |
| `Access.cfg` | 2 web threads and the job worker, a request for access and 3 more things people do | approved requests have a user_map, follows match access, an unfollow is undone only on demand or by who looked before it, whoever is let in is told |
| `DuplicateFollow.cfg` | the same | violation: see 5 |
| `Cable.cfg` | 2 topics, 2 synapses between them in opposite directions, one of each by somebody else; 8 budgets | a quiet page shows what is on the map, nothing is drawn twice, selection, edges and filter stay in step, every load ends but those that have lost an answer |
| `Content.cfg` | 2 users, 2 maps, 2 topics, 1 synapse; 6 budgets | copies of permissions follow, policy, scope and page agree, removing shows nothing new, mappings stand |

*Bounds.* The server's state is finite without bounds. Three users are what it takes for a call of two with a
bystander and for "the last but one"; a call is "of two" by the number of users on the map,
so a fourth adds nothing the third does not. Two maps are what it takes to move. In `Realtime` the
users' moves (`MaxMoves`), losses (`MaxLosses`) and clicks (`MaxClicks`) are bounded, the channels
and answers under way are not: they are as long as those make them. Two moves are the shortest way
away from a map and back (late answers, two answers for one map); one loss gives an old and a new
connection at a time. `Reconnection.cfg` starts where the page that stays has loaded and joined (`Joined` of `MCRealtime`), which keeps
the run small: the other order of arrivals is in `Navigation.cfg`.

In `Access` people do `MaxTurns` = 4 things, the first of which is the request for access (`Asked` of
`MCAccess`): approve it, remove the user, and one more to cross them, be it a second answer, an invitation, an
unfollow or a contribution, started at any time. Two web threads are what it takes for two
requests to cross; each statement interleaves with those of the other and of the job. A job is
run at most `MaxAttempts` = 2 times, which is once again; delayed_job's 25 adds repetitions of that. The
settings ask for every automatic follow, which lets most happen.

In `Cable` and `Content` a run starts with one of several budgets (`Budgets`, `Requests`), which say how many things of each kind may
happen; any that the budget has left may happen in any order. Two topics with two synapses between them are what it takes for an edge of two
synapses, a neighbour, and a removal of one topic while the other is loading. The budgets of `Cable` are the
combinations of two or three interfering things: another's edit against a creation of the user's (1,1,1,1,0), two edits by others
against a removal by the user (2,0,1,1,0) or a filter (2,0,0,1,1), add-remove-add (3,0,0,0,0), an own synapse to an own
unsaved topic (0,2,0,1,1), and so on. A page starts on any contents of a map, with and without the other's Mapper
loaded. `Content.cfg` starts (`MCInit`) where the shortest way to something of interest begins: a
map with a topic that defers to it, and perhaps a second map by the other user; the start is reachable from `Init`
by three requests, and the proofs are of `Spec`, from the empty database. Two requests about maps and
one about a topic (2,1,0,0) give a change of permission against an insertion, two about topics
(1,2,0,0) a save of an old version. `Admins` is empty in the run: an admin may only destroy in
addition, which the proofs cover.

*Symmetry* is used in `MCRealtimeServer.cfg` for the two users who stay on the first map, no
property of which tells them apart. *Views* leave out `emitted`, which no guard reads; action
properties are evaluated on every step and see it.

*Deadlock* is checked for the server. The runs of `Realtime` say `CHECK_DEADLOCK FALSE`: users may
stop, and with bounded moves, losses and clicks there is nothing left to do. So do those of `Access`, `Cable` and `Content`, whose users have spent their budgets in the end.

*Fairness* (`Delivery` of `Realtime`): a connection is made again (socket.io retries without end in
production, `Realtime/index.js` 89), a message sent over a live connection arrives, a request is
answered, and the server finds a dead connection (its ping timeout). Weak fairness is enough: each of these
stays enabled until it happens. Nothing is assumed about people. In `Access` (`Fairness`) a thread goes on with
what it has begun, and the worker takes jobs. The worker is taken to be restarted when it ends:
`config/initializers/delayed_job.rb` 6 misspells `ExceptionNotifier`, so a failed job raises in the worker's
loop. `EditorsAreTold` promises nothing once a call has failed. In `Cable` (`Fairness`) requests are answered and an interval fires;
it is stated on `loads`, with what an answer and the end of an interval do to it. `LoadsEnd` promises
that in the end only loads are left that have lost an answer, by an exception in its callback or a failed request for the
mapper: such an interval may wait for ever for what was not set (see 5).

## 5. What the runs found

1. *A map's entry is removed under somebody else* (`MapRemoved.cfg`). `mapWillEmpty`
   (`realtime/reducer.js` 27) looks only at the number of users listed. With two connections of one
   user on a map, the first to leave takes the user off the list; the second removes the entry, and with it the other
   user who is still there. The comment at line 45 says the map is removed if it will empty.
2. *A newcomer is told about somebody who has left* (`StaleInfo.cfg`). Between two maps `Active.Map`
   is still the old one, so a NEW_MAPPER under way when the page sends LEAVE_MAP is answered for the
   map it has left (`receivable.js` 120), and the newcomer lists a participant for whom no
   LOST_MAPPER will come. The comment at `realtime/map.js` 48 says newcomers learn who is already on the map.
3. *Leaving a call of two does not end it locally* (`LeavingTwo.cfg`). A page that is opened on a map joins it
   twice; the second NEW_MAPPER resets what the others know of its call, and `leaveCall`
   (`sendable.js` 92) then counts nobody. The comment at line 90 says the call is shut down locally.
4. *A user follows a map twice* (`DuplicateFollow.cfg`). `first_or_create` (`follow_service.rb` 10)
   selects, validates with another SELECT and inserts, and no index makes the pair unique: two
   threads insert a row each, against the validation of `follow.rb` 10. From then on every `update` of either row
   fails that validation, so following and unfollowing raise.

Beyond the findings: `ApprovedHaveAccess` says that a request shown as approved means access,
which holds although neither `approve` nor `deny` looks at `user_maps`, because a removal takes the requests
along. It does not say the reverse: a denial after an approval leaves the user_map.

What `Cable` had to except, each of which TLC shows when its exception is taken out of `wronged`, `slipped` or `lost`:

* A splice at -1 takes the last element off: `deselectNode` and `deselectEdge` (`Control.js` 50, 246) of what is
  not selected deselect something else, which stays drawn as selected (`slipped`).
* `checkMappers` (`Filter.js` 92) throws when a mapping is by a user whose Mapper is not loaded. `topicAdded` fetches the
  Mapper of the topic's maker (`Cable.js` 121), not of who put it on the map; the poll then runs for ever.
* A request for a mapper that fails calls nothing back (`Mapper.js` 8), and the poll runs for ever, too.
* An item its user takes off between the broadcast of its mapping and the answer to the saving of it stays on the map: the mapping
  has no id yet, so `mapping.destroy` sends no request, and the answer comes to a model that is in no collection.
* A broadcast precedes the commit of its row; a request that comes first is answered 404 and the addition is given up.
* `topicRemoved` and `synapseRemoved` while the item is loading do nothing or throw, and the load then draws what has left the map.
* An item that comes back within 500 ms of being hidden is removed by the old timer (`Control.js` 197); a hidden edge's timer takes a new edge between the same nodes.
* A synapse drawn to a topic that has no id yet is not saved, and nothing retries it.
* A synapse made by others is selected as it appears (`Synapse.js` 40), so that the user's next DEL removes it.

What `Content` had to except (`strayed`, `orphans`), or shows otherwise:

* A page's `topic.save` writes back permission and `defer_to_map_id` as it got them, over what has changed since.
* `updateSelectedPermissions` (`Control.js` 408) gives a topic a new permission and lets it go on deferring, so the policy ignores what lists and pages go by.
* A topic inserted while its map's permission changes keeps the old one; so does one saved with a map just then.
* A mapping of which the map or item is destroyed while it is inserted stays behind; its map can then not be destroyed (`mapping.rb` 71 on nil).
* `CreateMap` with items is not a transaction: a missing item leaves the map with those before it.
* A synapse to a destroyed topic is not checked against any map (`synapse_policy.rb`, the else of `create?`).
* Synapses never defer, since `synapse_params` does not permit it, though `update_deferring_topics_and_synapses` (`map.rb` 139) is written for both.

Read in the code and not modelled: in `Import.js` 287-288 a topic with a permission of its own defers to the map
and one without does not, which looks the wrong way round; the summary of `map_activity_service.rb` reads
`ta.eventable.id`, which raises when the topic has been destroyed since it was added; `map.rb` 156 asks what has changed in
a job that loads the record anew.

## 6. Proofs

### The realtime server

`RealtimeServer_proofs` proves for all values of the constants that satisfy the assumptions of the modules (any users,
maps and sockets, finite or not):

| Theorem | States | Under |
| --- | --- | --- |
| `TypeCorrect` | `Spec => []TypeOK` | |
| `RoomsAreFollowed` | `Spec => []RoomsFollowSockets` | |
| `AudienceStaysListed` | `Spec => []AudienceIsListed` | `OneTab` |
| `DirectoryIsExact` | `Spec => []DirectoryMatchesLists` | `OneTab` |
| `StoreStaysExact` | `Spec => []StoreIsExact` | `OneTab` |
| `NobodyGoesUnannounced` | `Spec => NobodyVanishesSilently` | `OneTab` |

The assumptions on the constants are those of `JuntoStore` and `RealtimeServer`: `NoUser` and `NoMap`
are no user and no map, `Opens` and `Owner` are functions of the right type, cameras are on maps.

The argument goes in three layers. The first has lemmas about the operators of `JuntoStore` alone: what
each reducer returns is a store, and who is on a map after it, in terms of who was before
(membership of `PeopleOn` before and after). The second proves types, with one
step per action, then that rooms follow sockets, which needs nothing but types. The theorems about
the store come on top. `AudienceIsListed` is not inductive alone: that LEAVE_MAP takes only the
leaver off the list follows from the leaver's own fields, which is what `RoomsFollowSockets` says,
and from `OneTab`, by which no other socket of the room belongs to the same user. `mapWillEmpty` is
harmless for the same reason: if one key is listed and the leaver is in the room, the leaver is that key.
`DirectoryMatchesLists` needs in addition that a listed user came by JOIN_MAP, which a stray JOIN_CALL breaks: hence
`strays`, a history variable no action reads. `NobodyVanishesSilently` is an action property from
the invariants: whoever goes off a list is the user of the socket the event is of, and that event emits
LOST_MAPPER to the rest of the room.

`OneTab` is needed: `MapRemoved.cfg` is a counterexample without it, by which listed users disappear.

The last part of the module proves what is left of the server's properties:

| Theorem | States | Under |
| --- | --- | --- |
| `StoreImplementsPresence` | `Spec => StoreKeepsPresence` | `OneTab` |
| `NobodyIsInvented` | `Spec => []NoPhantoms` | |
| `FeedsAreRemoved` | `Spec => VideoPeersAreTold` | |

The refinement maps each event to one action of `Presence`: JOIN_MAP to `Enter`, JOIN_CALL to `StartTalking`, LEAVE_MAP and
a disconnection to `Exit`, LEAVE_CALL to `StopTalking`, a new process to `Reset`, the rest, and what a socket on no map sends, to a
stutter. It uses `LeaverIsListed` for the same reason as before, and that only users are on lists (`ListsUsers`), so that the other
one of a call of two is a user. `NoPhantoms` is inductive with types and `RoomsFollowSockets`: a departure may take too many
people off a list, but whoever stays has a socket other than the one that goes.

### The pages

`Realtime_proofs` proves, for any users, maps and connections and any bounds on what users do,

| Theorem | States |
| --- | --- |
| `PagesTypeCorrect` | `Spec => []TypeOK` |
| `MapsAreJoinedInTurn` | `Spec => []OneMapAtATime` |
| `CallsAreJoinedOnTheMap` | `Spec => []CallsFromTheMap` |
| `ServerKnowsThePages` | `Spec => []ServerSeesPages` |
| `PagesListEachOther` | `Spec => []PagesSeeEachOther` |
| `PagesCountTheTalkers` | `Spec => []PagesCountTalkers` |

from the assumptions on the constants: no user is `NoUser`, no map is `NoMap`, no connection is `NoSocket`, each connection has an owner
(`PageAssumption`), the bounds are numbers. `OneTab` is not among them: a page may have an old and a new connection.

*Types.* `TypeOK` speaks of the pages; what a page does depends on the messages on their way, which are as many as
there are. `Types` adds what messages are made of: JOIN_MAP and JOIN_CALL name a map, a notice names who the
server may name in it (`Named`, in `RealtimeServer`, proved there with the types), a toast that will be
answered names a user, and the answers of `contains.json` still to come are no more than the navigations made. The
events that leave a page where it is are taken together (`Stays`): all they do to the page's connection is to send something
that neither joins nor leaves a map.

*Order.* The server takes a page's messages one at a time, and a page that has moved on has messages of the old
map on their way, so no invariant on the present state alone says why a JOIN_MAP finds its connection on no other
map. `At(S, q, j)` is the maps a connection that is on `S` will be on when it comes to the `j`-th message of the queue
`q`. The lemmas say how it changes when a message is appended, when the head is taken, when the end is lost. `OrderInv` is then: every
JOIN_MAP in every queue will find its connection on no map but its own (`Orderly`), and after all of its queue a page's connection is
on no map but the one the page holds (`Held`: the map in the address bar, if it is shown). The same goes for
what socket.io holds back while the page is not connected. `ShowInv` is the converse: a map the page holds is where its messages lead,
or it has still to load. `CallInv` says that each JOIN_CALL on its way will find its connection on the map it names.
`OrderInvariant` has each under the incidents it cannot stand (`Calm`, `Called`).

*What the server lists.* `Lists` adds that a connection on a map has its owner as user, that no two connections of one page are on the
same map unless `doubled`, and that a map lists exactly the users of the connections on it. The steps of the server are those of
`RealtimeServer`, whose lemmas about joining and leaving are used as they stand (`P` is an
instance of `RealtimeServer_proofs`). With nothing on its way, the maps of a connection are where its page's messages have led, and
`ServerSeesPages` follows.

*What the pages list.* What a page lists lags behind what the server lists, so the invariants speak of whom the page of `u`
will list once it has taken all that is on its way to it: `Sees(u, v)`. `Sound` says that it sees nobody of whom no
connection is on the map of its own, unless it has lost a connection. `Complete` says that a page sees every other page that holds the
same map, unless something under way will see to it (`WillSee`): one of the two has a JOIN_MAP still to be
served, or `v` is still to hear of `u` by NEW_MAPPER and will answer, or that answer is on its way. With nothing on its way both come down to what
`PagesSeeEachOther` says. They hold while nothing has happened that the property excuses (`Peaceful`). `Background` is
what the steps need beside: only a page's present connection carries anything to it (`HeardInv`); the rooms hold the connections on
their maps (`RoomInv`); a page on its map has no LEAVE_MAP on its way (`StayInv`); newcomers are told of a page only on the map it is
on by then (`InfoInv`); a page without a chat waits for the map it shows (`ChatInv`).

*What the pages know of who talks.* Of each other a page keeps a flag besides, which notices set and clear: NEW_MAPPER
clears it, a later notice may set it again, so what counts is the last word. `Lasts(q, A, B)` (`SequenceFacts`) says that in `q`
something of `A` comes with nothing of `B` after it, and `LastsAppend`, `LastsTail` and `LastsFrom` how it changes with
the queue. `WillHold` and `WillCount` say what the page of `u` will know of `v`, and believe of its talking, once it has taken
what is on its way to it; `Known` and `Counted` once the server has taken what `v` has said, too. `Talkers`: two pages
that hold one map come to that (`WillKnow`, `WillBeCounted`), unless `u` has yet to join or `v` to hear of it by NEW_MAPPER, which
`v` answers with its own flag. The steps need beside that a page talks on its map only (`TalkersOnMap`), that its JOIN_CALL comes
after the JOIN_MAP it has yet to make (`JoinsInOrder`, or NEW_MAPPER would clear the flag), that a page that has never been connected has
nobody to talk to (`Unheard`) and that one that has kept its connection has no other (`Alone`). A talker that lost its connection
is left out of the property for what the code does: its next NEW_MAPPER says that it does not talk, and nothing corrects it.

TLC and the proofs corrected statements on the way. `PagesCountTalkers` did not hold of a talker that had lost its connection,
which the run `calls` cannot show (nobody loses one there) and the proof did. `TalkersAreListed` did not hold with a loss, nor, as TLC found on a
directed schedule, when both users move: on the second map a page answers a toast of the first before it has heard of the other, and then
ignores the MAPPER_LEFT_CALL by which the server ends that call (`mapperLeftCall` does nothing about a mapper it does not hold). It now states what holds. `crossed` was recorded for any NEW_MAPPER that
arrived between two maps; the code answers only with its chat set up and a map active (`Answers`), and only the answer does harm.
`CallsFromTheMap` excused only `early` until it was checked with losses and clicks: a
page that joins a call while not connected and moves on before it is connected again sends a JOIN_CALL for the
map it has left, hence `recalled`. `ServerSeesPages`, on the other hand, needed fewer exceptions than it had.

### Access

`Access_proofs` proves, for any set of threads, any bounds and settings,

| Theorem | States |
| --- | --- |
| `TypeCorrect` | `Spec => []TypeOK` |
| `ApprovedKeepAccess` | `Spec => [](failed \/ ApprovedHaveAccess)` |
| `FollowersAreEditors` | `Spec => []FollowMatchesAccess` |
| `UnfollowStays` | `Spec => UnfollowIsKept` |

from the assumptions of `Follow` and `Access` on the constants. The types need to know what a thread
is at: `Sound` relates where its work stands, where its call stands and what it has loaded (a thread in a call has
work that makes calls, a removal in a call has a user_map to destroy), and a job in the table has a run
left. `ApprovedHaveAccess` says nothing while an answer or a removal is under way, so it is
not inductive. `Covered` is: for every approved request there is a user_map, or a thread that
will see to it (`Answerable`) - an approval about to create the user_map, a removal still at the
user_maps, which lists all requests afterwards, or one at the requests with this one on its list. An exception in
`remove_reason` takes a removal away from there, hence `failed`; that the property survives this too
is only model-checked.

`FollowMatchesAccess` says nothing once two things have run at once, nor while something runs. `overlapped \/ Alone` is
inductive, with the types. `Alone` says that no call has raised, at most one thread is at work, there is at most one follow, what that
thread's call has loaded is what the rows hold (`Fits`, by the statement it stands at), and, when no removal is half done, whoever follows
as an editor has a user_map, and each user_map has the follow or the job that will make it (`EditorsFollow`).

`UnfollowStays` is about overlapping calls, as the property is: as long as a row says that the user has unfollowed, no step unmutes a row
or adds one that is not muted, but one of a follow that was asked for (the button, or letting the user in, which does unmute) or of
an automatic one that looked before the unfollow was written. A call that follows automatically looks at the first row
only, so its proof needs that a muted row is the first (`MutedIsFirst`), which holds because an unfollow mutes the first and rows
are inserted at the end; and that a call which has looked goes on only while nothing is muted, or has been crossed (`LookedWell`).

### Content

`Content_proofs` proves, for any users, admins, maps, topics, synapses and budgets,

| Theorem | States |
| --- | --- |
| `TypeCorrect` | `Spec => []TypeOK` |
| `CopiesFollow` | `Spec => []PermissionIsCopied` |
| `PoliciesAlwaysAgree` | `Spec => []PoliciesAgree` |
| `RemovingIsSafe` | `Spec => RemovingShowsNothingNew` |
| `MappingsAlwaysStand` | `Spec => []MappingsStand` |

from `ContentAssumption`: admins are users, the ends of a synapse are topics, budgets are numbers,
and `None` and `Gone` are not records. `PermissionIsCopied` is not inductive, because it says nothing
about transactions under way. `IInv` adds four things: whatever a topic, one being made, or a page's version refers to
is or was a map (`MapsWereMade`); a map whose permission is being changed exists until that commits, which the row lock gives
(`ChangesStand`); a topic being inserted has its map's permission unless it has been overtaken
(`DraftsAreFresh`); and a change has found every topic that defers to the map, or the topic has the new permission
already, unless strayed (`ChangesReachAll`). They meet in `CommitPermission` and in the saving of an old version, the long parts of the proof.

`PoliciesAgree` follows from types and `PermissionIsCopied` without further induction (`Agreement`): where the copy
equals the map's permission, the policy's reading and the scope's are the same up to the topic's
owner. Both are about topics that have not strayed. `RemovingShowsNothingNew` follows in the same way for each removal: a released topic keeps the permission
its map has, so all that was allowed on account of the map alone goes. `MappingsStand` is inductive with types.

### The page of a map

`Cable_proofs` proves, for any finite sets of topics and synapses, any rows on the server, any budgets,

| Theorem | States |
| --- | --- |
| `Invariance` | `Spec => []Inv` |
| `TypeCorrect` | `Spec => []TypeOK` |
| `SelectionIsWhatIsDrawn` | `Spec => []SelectionIsDrawn` |
| `FilterOffersTheMetacodes` | `Spec => []FilterIsOffered` |
| `LinksHold` | `Spec => []Links` |
| `EdgesListTheirSynapses` | `Spec => []EdgesMatchSynapses` |
| `TopicsAreDrawnOnce` | `Spec => []DrawnOnce` |

from `PageAssumption`: topics and synapses are finite and disjoint, `Ends` gives a synapse two different
topics, `None` is no item, no index and no node. Finiteness is what the source has: the page's loops end. The lemmas about
the functions of `MapPage` are in `MapPage_proofs`, those about the steps of `Cable` in `Cable_proofs`.

The actions of `Cable` run long turns of the page, in which one function of the source calls another and any of
them may throw half way. What the turns have in common is not the state they reach but what they never break. `Sound`
says of a page, in the middle of a turn too: the collections hold what there may be; the nodes, the edges and the synapses' edges
are objects there are, the two lists of an edge are as long and it shows one of its synapses or the first; an edge that is
drawn has its ends drawn (else `selectNeighbors` would reach for a node that is not there); nothing is in the
selection twice, what is in it is drawn as selected, and, unless one slipped out, the other way round; the filter box offers the metacodes
of the topics. There is a lemma for each function of `MapPage`, by the function's name, that it takes a sound page to a
sound page and makes no edge disappear from the list of edges, by which the loops over the selection go on with an index taken before.

A splice at -1 takes an element nobody asked for (`SplicedKeeps`), which is where `SelectionIsDrawn` could break: `deselectNode` of a node
that is not selected takes another off the list and leaves its mark, hence `slipped`, and `checkMetacodes` splices
the metacodes that are gone out of the visible ones, which may lack them, hence "among them" and not "all but" in `FilterIsOffered`.

Loops are folds (`FoldSet`, `FoldLeft`, `FoldRight`), and what a fold computes needs an induction the provers do not do with an operator as a
parameter. `Folding` takes the step, the choice of the next element and what the steps keep as CONSTANTS and
proves `FoldKeeps` once, from the least set at which a fold would go wrong; each loop is an instance of it. `SequenceFacts` has what all the proofs need of
sequences: of `RemoveAt`, `RemoveFirst`, `SetToSeq`, `FlattenSeq`, and of a sequence with no element twice.

`Inv` adds the types of the rows, of the broadcasts on their way and of what is loading, and that no exception is pending between two turns.

*Links.* `EdgesMatchSynapses` and `DrawnOnce` are about two pieces of state that different turns write: what the page holds, and what it
draws. `Linked(p, W, L)` relates them on a page `p`, with wronged items `W` and loads under way `L`: a synapse that is drawn is listed by
its edge, an edge lists a synapse once, beside its mapping, and no other than its own; no two nodes have one id, a node under
a cid is of a topic made on the page, or fades out, or is of a wronged topic; what a load waits for is not drawn yet. The last part is
what makes it inductive: when the last of the three answers of a load comes, the item is drawn, and it must be
the first time. So `Links` adds what can still arrive: loads and broadcasts name rows of the
table, two loads of one item have wronged it, and what the page has made and not saved has no row, so
no broadcast can bring it before its own request does.

Each function of `MapPage` has a second lemma, on what it does to the links. Most keep everything that matters
(`Kept`), others everything but one item (`KeptBut`). A removal takes the item off first and its
drawing later, by a timer; when the handler throws in between, the item stays drawn for good. `Slips` says that a turn that threw leaves
the links of everything the page did not hold before, and that one that did not throw leaves all of them; what the page held is
what `Cable` counts as wronged by such a turn (`UserTurn`).

### Only model-checked

* `TalkersAreListed`, for two users who keep their connections, of whom at most one moves: what breaks it otherwise
  is above. A proof would need of each page whom it held at every earlier time a toast came.
* `QuietPageShowsTheMap` of `Cable`, which needs of every item on the page or on the map that
  something under way will bring it or take it off.
* `ApprovedHaveAccess` after a failed call.
* Liveness (`PagesAreSeenInTheEnd`, `EditorsAreTold`, `LoadsEnd`), which is out of the prover's reach like
  everything that needs `ENABLED`.

## 7. Not modelled

See the components marked `not_modelled` in `PROJECT.json`, with the reason for each. In what is
modelled: cursors and topic drags (relayed as they come, no state), CHECK_FOR_CALL and the video
room on the page's side, refusals of an invitation, invitations marked pending, sounds, chat
messages; a page whose user may not edit the map it shows, which joins nothing; a page in a call
before its chat is set up that moves on, which throws (listed as a hazard); a restart of the realtime server while
pages are connected (each page sees it as a lost connection), so that nothing is said of the presence a restart loses coming back.

In `Access` and `Follow`: the owner's notifications and mails, and receipts; the follow that `Mapping.before_destroyed`
makes inside its transaction; a change of the user's settings; a crash of a process; the entity of the other kind that has the same
number (`follow.rb` 10 compares `followed_id` alone, by ActiveRecord's reading of a polymorphic scope).

In `MapPage` and `Cable`: `topicMoved`, `topicUpdated`, `synapseUpdated`, `messageCreated` and `mapUpdated` (so a
page never loses the map it shows); another user putting a topic the page has just made on the map before POST /topics is answered, when
the page does not know its id (`ServeCreate` is one step); the filters by mapper and by synapse, which pass everything; selecting everything
(Ctrl+A), by a box, and deselecting by a click on the canvas; positions, topic view, changes of metacodes; a metamap made by a topic's link;
a visitor who is not signed in; a topic whose permission hides it from the page's user.

In `Content`: a change of the map's permission between the statements of `Mapping.before_destroyed` (`mapping.rb` 71-74), which
`Release` makes one step with the destruction; updates of synapses and of the positions of mappings, forks, stars, screenshots, the scopes of maps, mappings and
synapses (the one of topics is the one with deferral), the messages of a map, and events.

Map activity, import and layout are computations over one input, with no state shared between
steps; they are left to unit tests, of which `frontend/test/Metamaps/Import.spec.js` is one. Most lines of the repository are
vendored libraries (`patched/JIT.js`, `lib/`, bundles), React markup, serializers and views.
