---------------------------- MODULE NotifyOutbox ----------------------------
(***************************************************************************)
(* The Telegram bot: a row per thing worth telling, a tick of the worker   *)
(* that polls the bot for a /start, sends the rows that are due, one       *)
(* message per group of them, and the daily digest; and a teacher who      *)
(* links, moves and unlinks the bot meanwhile.                             *)
(*                                                                         *)
(* Sources: web/services/notify.py, web/services/telegram.py, the          *)
(* Telegram fields of providers/settings.py and web/routers/settings.py,   *)
(* worker/worker.py (_maybe_telegram), class_assignments.py                *)
(* (_unsent_hand_in_ids).  When a row is written is ClassSet's.            *)
(*                                                                         *)
(* A message is known by its number, a group stands for a kind and a class *)
(* assignment.  The delays of a retry are left out: a refused row is due   *)
(* again at some later time.  So are purging rows sent a month ago, and a  *)
(* teacher who moves to another time zone.                                 *)
(***************************************************************************)
EXTENDS Naturals, FiniteSets, FiniteSetsExt

CONSTANTS
    None,
    Bot, Chat, Group,
    FirstUpdate,     \* [Bot -> the id of its first update]
    RowIdsReused,    \* SQLite gives the id of a deleted last row to the next one, Postgres does not
    GROUPS_PER_TICK, MAX_ATTEMPTS,
    MaxMessages, MaxPresses, MaxDays, MaxUnlinks,
    MaxLost          \* crashes of the worker, and calls whose answer is lost, at most

OutboxAssumption ==
    /\ None \notin Bot \cup Chat \cup Group
    /\ FirstUpdate \in [Bot -> Nat \ {0}]
    /\ RowIdsReused \in BOOLEAN
    /\ GROUPS_PER_TICK \in Nat \ {0} /\ MAX_ATTEMPTS \in Nat \ {0}
    /\ MaxMessages \in Nat /\ MaxPresses \in Nat /\ MaxDays \in Nat
    /\ MaxUnlinks \in Nat /\ MaxLost \in Nat

VARIABLES
    bot,       \* the settings row: token, chat, update offset, day of the last digest
    inbox,     \* [Bot -> the /start updates Telegram still holds]
    note,      \* [message -> its row in notifications]
    told,      \* history: how often a message went out
    lastId,    \* the id that the last row got: the sequence of Postgres
    gone,      \* groups whose assignment was deleted
    tick,      \* what the worker's tick is at, and what it has read
    day,       \* send times of the digest that have passed
    digests,   \* history: how often the digest of a day went out
    pressed,   \* history: the last /start for the saved token, since it was saved
    presses, unlinks, lost

outboxVars == <<bot, inbox, note, told, lastId, gone, tick, day, digests, pressed, presses, unlinks, lost>>

Message == 1 .. MaxMessages
Update  == [id : Nat, chat : Chat]
Saved   == [token : Bot \cup {None}, chat : Chat \cup {None}, offset : Nat, last : 0 .. MaxDays]
Note    == [st : {"none", "unsent", "sent", "deleted"}, id : 0 .. MaxMessages, group : Group \cup {None},
            attempts : 0 .. MAX_ATTEMPTS, due : BOOLEAN]
NoNote  == [st |-> "none", id |-> 0, group |-> None, attempts |-> 0, due |-> TRUE]
Unlinked == [token |-> None, chat |-> None, offset |-> 0, last |-> 0]
Rest     == [pc |-> "poll", got |-> {}, items |-> {}, groups |-> {}, at |-> None, day |-> 0]

OutboxTypeOK ==
    /\ bot \in Saved
    /\ inbox \in [Bot -> SUBSET Update]
    /\ note \in [Message -> Note]
    /\ \A m, n \in Message : m # n /\ {note[m].st, note[n].st} \subseteq {"unsent", "sent"} => note[m].id # note[n].id
    /\ told \in [Message -> Nat]
    /\ lastId \in 0 .. MaxMessages /\ gone \subseteq Group
    /\ tick.pc \in {"poll", "link", "ack", "flush", "send", "mark", "refused", "digest", "stamp"}
    /\ day \in 0 .. MaxDays /\ digests \in [1 .. MaxDays -> Nat]
    /\ presses \in 0 .. MaxPresses /\ unlinks \in 0 .. MaxUnlinks /\ lost \in 0 .. MaxLost

OutboxInit ==
    /\ bot = Unlinked
    /\ inbox = [b \in Bot |-> {}]
    /\ note = [m \in Message |-> NoNote]
    /\ told = [m \in Message |-> 0]
    /\ lastId = 0 /\ gone = {}
    /\ tick = Rest
    /\ day = 0 /\ digests = [d \in 1 .. MaxDays |-> 0]
    /\ pressed = None
    /\ presses = 0 /\ unlinks = 0 /\ lost = 0

telegram_linked == bot.token # None /\ bot.chat # None
Present(m) == note[m].st \in {"unsent", "sent"}
WithId(i)  == {m \in Message : Present(m) /\ note[m].id = i}
Goes(t)    == tick' = t
To(pc)     == Goes([Rest EXCEPT !.pc = pc])
Loses      == lost < MaxLost /\ lost' = lost + 1

-----------------------------------------------------------------------------
(* The rows *)

\* _insert(), for a hand-in or a drain.
Next_id ==
    {i \in 1 .. MaxMessages :
        IF RowIdsReused
        THEN /\ \A m \in Message : Present(m) => note[m].id < i
             /\ i = 1 \/ \E m \in Message : Present(m) /\ note[m].id = i - 1
        ELSE i = lastId + 1}
Insert(g) ==
    /\ g \notin gone
    /\ \E m \in Message, id \in Next_id :
         /\ note[m].st = "none" /\ \A n \in Message : note[n].st = "none" => m <= n
         /\ note' = [note EXCEPT ![m] = [st |-> "unsent", id |-> id, group |-> g, attempts |-> 0, due |-> TRUE]]
         /\ lastId' = id
    /\ UNCHANGED <<bot, inbox, told, gone, tick, day, digests, pressed, presses, unlinks, lost>>

\* remove_hand_in(): what has not gone out yet is not announced.
Withdraw(m) ==
    /\ note[m].st = "unsent"
    /\ note' = [note EXCEPT ![m] = [NoNote EXCEPT !.st = "deleted"]]
    /\ UNCHANGED <<bot, inbox, told, lastId, gone, tick, day, digests, pressed, presses, unlinks, lost>>

DeleteAssignment(g) ==
    /\ g \notin gone /\ gone' = gone \cup {g}
    /\ UNCHANGED <<bot, inbox, note, told, lastId, tick, day, digests, pressed, presses, unlinks, lost>>

\* next_attempt_at has come.
Due(m) ==
    /\ note[m].st = "unsent" /\ ~note[m].due
    /\ note' = [note EXCEPT ![m].due = TRUE]
    /\ UNCHANGED <<bot, inbox, told, lastId, gone, tick, day, digests, pressed, presses, unlinks, lost>>

-----------------------------------------------------------------------------
(* The teacher *)

\* save() with a token: chat, offset and day stay as they are.
SaveToken(b) ==
    /\ bot.token # b
    /\ bot' = [bot EXCEPT !.token = b]
    /\ pressed' = None
    /\ UNCHANGED <<inbox, note, told, lastId, gone, tick, day, digests, presses, unlinks, lost>>

\* clear_telegram()
clear_telegram ==
    /\ bot.token # None /\ unlinks < MaxUnlinks /\ unlinks' = unlinks + 1
    /\ bot' = Unlinked
    /\ pressed' = None
    /\ UNCHANGED <<inbox, note, told, lastId, gone, tick, day, digests, presses, lost>>

\* Somebody presses /start in their chat with a bot.
Press(b, c) ==
    /\ presses < MaxPresses /\ presses' = presses + 1
    /\ inbox' = [inbox EXCEPT ![b] = @ \cup {[id |-> FirstUpdate[b] + presses, chat |-> c]}]
    /\ pressed' = IF bot.token = b THEN c ELSE pressed
    /\ UNCHANGED <<bot, note, told, lastId, gone, tick, day, digests, unlinks, lost>>

SendTime ==
    /\ day < MaxDays /\ day' = day + 1
    /\ UNCHANGED <<bot, inbox, note, told, lastId, gone, tick, digests, pressed, presses, unlinks, lost>>

-----------------------------------------------------------------------------
(* The tick: poll_updates(), flush_notifications(), maybe_send_daily() *)

\* getUpdates: Telegram forgets what lies before the offset.
Fetch ==
    /\ tick.pc = "poll"
    /\ IF bot.token = None THEN To("flush") /\ UNCHANGED <<inbox, lost>>
       ELSE LET got == {u \in inbox[bot.token] : u.id >= bot.offset} IN
            \/ /\ inbox' = [inbox EXCEPT ![bot.token] = got]
               /\ Goes(IF got = {} THEN [Rest EXCEPT !.pc = "flush"] ELSE [Rest EXCEPT !.pc = "link", !.got = got])
               /\ UNCHANGED lost
            \/ Loses /\ To("flush") /\ UNCHANGED inbox
    /\ UNCHANGED <<bot, note, told, lastId, gone, day, digests, pressed, presses, unlinks>>

Newest(got) == CHOOSE u \in got : \A v \in got : v.id <= u.id
LinkFirst ==  \* mutant
    /\ tick.pc = "link"
    /\ bot' = [bot EXCEPT !.chat = (CHOOSE u \in tick.got : \A v \in tick.got : v.id >= u.id).chat]
    /\ Goes([tick EXCEPT !.pc = "ack"])
    /\ UNCHANGED <<inbox, note, told, lastId, gone, day, digests, pressed, presses, unlinks, lost>>
Link ==
    /\ tick.pc = "link"
    /\ bot' = [bot EXCEPT !.chat = Newest(tick.got).chat]
    /\ Goes([tick EXCEPT !.pc = "ack"])
    /\ UNCHANGED <<inbox, note, told, lastId, gone, day, digests, pressed, presses, unlinks, lost>>
Acknowledge ==
    /\ tick.pc = "ack"
    /\ bot' = [bot EXCEPT !.offset = Newest(tick.got).id + 1]
    /\ To("flush")
    /\ UNCHANGED <<inbox, note, told, lastId, gone, day, digests, pressed, presses, unlinks, lost>>

\* The groups of the rows that are due, the oldest first, at most GROUPS_PER_TICK of them.
Item(m)   == [m |-> m, id |-> note[m].id, group |-> note[m].group, attempts |-> note[m].attempts]
AlsoSent(m) == Present(m) /\ note[m].due  \* mutant
IsDue(m)  == note[m].st = "unsent" /\ note[m].due
DueOf(g)  == {m \in Message : IsDue(m) /\ note[m].group = g}
Older(g, h) == Min(DueOf(g)) < Min(DueOf(h))
Chosen ==
    LET groups == {g \in Group : DueOf(g) # {}}
    IN {g \in groups : Cardinality({h \in groups : Older(h, g)}) < GROUPS_PER_TICK}
Flush ==
    /\ tick.pc = "flush"
    /\ IF ~telegram_linked \/ Chosen = {} THEN To("digest")
       ELSE Goes([Rest EXCEPT !.pc = "send", !.groups = Chosen, !.items = {Item(m) : m \in {n \in Message : IsDue(n)}}])
    /\ UNCHANGED <<bot, inbox, note, told, lastId, gone, day, digests, pressed, presses, unlinks, lost>>

ItemsOf(g) == {i \in tick.items : i.group = g}
Tell(M)    == told' = [m \in Message |-> told[m] + IF m \in M THEN 1 ELSE 0]
Next_group(g) ==
    LET groups == tick.groups \ {g} IN
    IF groups = {} THEN To("digest") ELSE Goes([tick EXCEPT !.pc = "send", !.groups = groups])

\* _format_group() and send_message(): delivered, refused, or delivered with the answer lost.
Send(g) ==
    /\ tick.pc = "send" /\ g \in tick.groups
    /\ \/ Goes([tick EXCEPT !.pc = "mark", !.at = g]) /\ UNCHANGED lost
          /\ IF g \in gone THEN UNCHANGED told ELSE Tell({i.m : i \in ItemsOf(g)})
       \/ /\ g \notin gone /\ Goes([tick EXCEPT !.pc = "refused", !.at = g])
          /\ UNCHANGED <<told, lost>> \/ (Tell({i.m : i \in ItemsOf(g)}) /\ Loses)
    /\ UNCHANGED <<bot, inbox, note, lastId, gone, day, digests, pressed, presses, unlinks>>

\* _mark_sent() and _mark_error(), by id: rows of other attempt counts get their own delay.
GroupRows(items) == {m \in Message : note[m].st = "unsent" /\ note[m].group = tick.at}  \* mutant: by group
RowsOf(items) == UNION {WithId(i.id) : i \in items}
mark_sent ==
    /\ tick.pc = "mark"
    /\ note' = [m \in Message |-> IF m \in RowsOf(ItemsOf(tick.at)) THEN [note[m] EXCEPT !.st = "sent"] ELSE note[m]]
    /\ Next_group(tick.at)
    /\ UNCHANGED <<bot, inbox, told, lastId, gone, day, digests, pressed, presses, unlinks, lost>>

NeverClosed(m, n) == [note[m] EXCEPT !.attempts = n, !.due = FALSE]  \* mutant
RetriedForEver(m, n) == [note[m] EXCEPT !.attempts = Min({n, MAX_ATTEMPTS - 1}), !.due = FALSE]  \* mutant
Refused(m, n) == [note[m] EXCEPT !.attempts = n, !.due = FALSE, !.st = IF n >= MAX_ATTEMPTS THEN "sent" ELSE @]
mark_error ==
    /\ tick.pc = "refused"
    /\ LET items == ItemsOf(tick.at)
           tries(m) == (CHOOSE i \in items : i.id = note[m].id).attempts + 1
       IN note' = [m \in Message |-> IF m \in RowsOf(items) THEN Refused(m, tries(m)) ELSE note[m]]
    /\ Next_group(tick.at)
    /\ UNCHANGED <<bot, inbox, told, lastId, gone, day, digests, pressed, presses, unlinks, lost>>

\* A quiet day records its date, a failed send does not.
OwedEachTick == telegram_linked /\ day > 0  \* mutant
Owed         == telegram_linked /\ day > 0 /\ bot.last # day
Digest ==
    /\ tick.pc = "digest"
    /\ \/ ~Owed /\ To("poll") /\ UNCHANGED <<bot, digests, lost>>
       \/ /\ Owed
          /\ \/ bot' = [bot EXCEPT !.last = day] /\ To("poll") /\ UNCHANGED <<digests, lost>>
             \/ To("poll") /\ UNCHANGED <<bot, digests, lost>>
             \/ /\ digests' = [digests EXCEPT ![day] = @ + 1] /\ UNCHANGED bot
                /\ \/ Goes([Rest EXCEPT !.pc = "stamp", !.day = day]) /\ UNCHANGED lost
                   \/ To("poll") /\ Loses
    /\ UNCHANGED <<inbox, note, told, lastId, gone, day, pressed, presses, unlinks>>
Stamp ==
    /\ tick.pc = "stamp" /\ To("poll")
    /\ bot' = [bot EXCEPT !.last = tick.day]
    /\ UNCHANGED <<inbox, note, told, lastId, gone, day, digests, pressed, presses, unlinks, lost>>

Crash ==
    /\ tick # Rest /\ Loses /\ To("poll")
    /\ UNCHANGED <<bot, inbox, note, told, lastId, gone, day, digests, pressed, presses, unlinks>>

Tick == Fetch \/ Link \/ Acknowledge \/ Flush \/ (\E g \in Group : Send(g)) \/ mark_sent \/ mark_error \/ Digest \/ Stamp

OutboxNext ==
    \/ \E g \in Group : Insert(g) \/ DeleteAssignment(g)
    \/ \E m \in Message : Withdraw(m) \/ Due(m)
    \/ \E b \in Bot : SaveToken(b)
    \/ \E b \in Bot, c \in Chat : Press(b, c)
    \/ clear_telegram \/ SendTime \/ Crash \/ Tick

\* The worker's loop ticks for ever, and the time of a retry comes.
OutboxFairness == WF_outboxVars(Tick) /\ \A m \in Message : WF_outboxVars(Due(m))

OutboxSpec == OutboxInit /\ [][OutboxNext]_outboxVars /\ OutboxFairness

-----------------------------------------------------------------------------
(* Properties *)

\* A row is closed only once its message went out, was refused MAX_ATTEMPTS times, or has no
\* assignment any more: none is closed along with others it was grouped with, or for another row.
ClosedWasTold ==
    \A m \in Message : note[m].st = "sent" =>
        told[m] > 0 \/ note[m].attempts = MAX_ATTEMPTS \/ note[m].group \in gone

\* A message goes out once, and again only for a crash or an answer that was lost.
ToldOnce == \A m \in Message : told[m] <= 1 + lost

\* A day's digest goes out once, and again only for those, or after the bot was unlinked.
DigestOnce == \A d \in 1 .. MaxDays : digests[d] <= 1 + lost + unlinks

\* Messages go out once each, and none is closed without having gone out.
ToldAsOwed == ClosedWasTold /\ ToldOnce /\ DigestOnce

\* Every row leaves the outbox in the end while a chat is linked: sent, given up, or withdrawn,
\* although only some groups go per tick and some are refused for ever.
RowsLeave == \A m \in Message : note[m].st = "unsent" ~> note[m].st # "unsent" \/ ~telegram_linked

\* A /start pressed for the saved bot links its chat in the end, unless a later one does, or the
\* bot is unlinked or replaced first.
PressLinks == \A c \in Chat : pressed = c ~> bot.chat = c \/ pressed # c

\* Neither a message nor a teacher who pressed /start waits for ever.
NobodyWaits == RowsLeave /\ PressLinks
=============================================================================
