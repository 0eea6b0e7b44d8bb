------------------------------ MODULE LogProc -------------------------------
(* The logger of xutil (logproc.cpp).  In asynchronous mode logger_write   *)
(* copies a message, character by character and under a lock, into a ring  *)
(* that one thread, async_fputs, empties into the log file without that    *)
(* lock; in synchronous mode every caller writes the file itself.  A file  *)
(* that has grown to its limit is renamed to the next of                   *)
(* g_logfile_max_cnt numbers.  A character is the position at which it was *)
(* accepted; formatting and levels are left out.                           *)
EXTENDS Naturals, Sequences, FiniteSets, SequencesExt

CONSTANTS
    Callers,            \* threads that log
    RING_SIZE,          \* slots of the ring, 0x800000 in the code
    LineLengths,        \* lengths of the messages
    MaxFileLen,         \* g_logfile_max_kb, in characters
    g_logfile_max_cnt,  \* rotated files
    CheckEvery,         \* characters between two size checks, 0x100000
    MaxMessages,        \* bound: messages
    MaxInits,           \* bound: calls of loggger_init
    LogHabits           \* the rules the application keeps, see below

(* oneWriter     in synchronous mode one thread logs at a time             *)
(* exitDrained   loggger_exit is called when the ring is empty and nobody  *)
(*               logs any more                                             *)
(* restartEarly  when loggger_init is called, the directory holds at least *)
(*               as many files as their highest number, and fewer than     *)
(*               g_logfile_max_cnt: the count is then a number after all   *)
(*               those in use, and none has been used again                *)
AllLogHabits == {"oneWriter", "exitDrained", "restartEarly"}

ASSUME LogAssumption ==
    /\ RING_SIZE \in Nat \ {0, 1} /\ MaxFileLen \in Nat \ {0}
    /\ g_logfile_max_cnt \in Nat \ {0} /\ CheckEvery \in Nat \ {0}
    /\ LineLengths \subseteq Nat \ {0} /\ LogHabits \subseteq AllLogHabits
    /\ IsFiniteSet(Callers)

Writer == "async_fputs"
Threads == Callers \cup {Writer}
Nobody == "nobody"

ASSUME LogNames == Writer \notin Callers /\ Nobody \notin Callers

Live == 0                   \* name.log; name.log.k is k
FileNames == Live .. g_logfile_max_cnt + Cardinality(Callers)

VARIABLES
    mode,               \* "none", "async", "sync"; "exiting" in loggger_exit
    g_thd_run,          \* 1 created, 2 running, 0 told to end
    data, front, rear,  \* the ring
    lock,               \* holder of g_log_queue.lock
    at,                 \* thread -> where it is
    left,               \* caller -> characters still to copy
    line,               \* caller -> number of its message
    outch,              \* the character the writer took from the ring
    written,            \* the writer's count, modulo CheckEvery
    goal,               \* thread -> where it goes on after file_size_check
    newFile,            \* thread -> number it renames the log file to
    g_cur_files_cnt,
    file, present,      \* contents of the files, and those that exist
    accepted,           \* history: the message of every character accepted
    messages, inits     \* bounded counters

ringVars == <<data, front, rear, lock>>
fileVars == <<g_cur_files_cnt, file, present>>
checkVars == <<goal, newFile>>
msgVars == <<left, line, accepted, messages>>
logVars == <<mode, inits, g_thd_run, ringVars, at, outch, written, checkVars, fileVars, msgVars>>

LogInit ==
    /\ mode = "none" /\ g_thd_run = 0
    /\ data = [i \in 0 .. RING_SIZE - 1 |-> 0] /\ front = 0 /\ rear = 0
    /\ lock = Nobody
    /\ at = [t \in Threads |-> "idle"]
    /\ left = [c \in Callers |-> 0] /\ line = [c \in Callers |-> 0]
    /\ outch = 0 /\ written = 0
    /\ goal = [t \in Threads |-> "append"] /\ newFile = [t \in Threads |-> 1]
    /\ g_cur_files_cnt = 0
    /\ file = [f \in FileNames |-> <<>>] /\ present = {}
    /\ accepted = <<>> /\ messages = 0 /\ inits = 0

Go(t, to) == at' = [at EXCEPT ![t] = to]
CheckSize(t, to) == Go(t, "size") /\ goal' = [goal EXCEPT ![t] = to]
RingSlot(i) == i % RING_SIZE

-----------------------------------------------------------------------------
(* loggger_init and loggger_exit                                           *)

(* get_cur_logfile_cnt counts every file with the name, the live one too.  *)
get_cur_logfile_cnt == Cardinality(present)

loggger_init(m) ==
    /\ mode = "none" /\ inits < MaxInits
    /\ "restartEarly" \in LogHabits =>
            /\ get_cur_logfile_cnt < g_logfile_max_cnt
            /\ \A f \in present : f <= get_cur_logfile_cnt
    /\ mode' = m /\ inits' = inits + 1
    /\ g_cur_files_cnt' = get_cur_logfile_cnt
    /\ IF m = "async"
       THEN /\ front' = 0 /\ rear' = 0
            /\ g_thd_run' = 1 /\ written' = 0
            /\ CheckSize(Writer, "started")
       ELSE UNCHANGED <<front, rear, g_thd_run, written, at, goal>>
    /\ UNCHANGED <<data, lock, outch, newFile, file, present, msgVars>>

(* In synchronous mode there is nothing to end.                            *)
loggger_exit ==
    /\ mode \in {"async", "sync"} /\ g_thd_run # 1
    /\ "exitDrained" \in LogHabits => front = rear /\ \A c \in Callers : at[c] = "idle"
    /\ IF mode = "async" THEN g_thd_run' = 0 /\ mode' = "exiting"
       ELSE mode' = "none" /\ UNCHANGED g_thd_run
    /\ UNCHANGED <<inits, ringVars, at, outch, written, checkVars, fileVars, msgVars>>

(* pthread_join                                                            *)
exit_joined ==
    /\ mode = "exiting" /\ at[Writer] = "ended"
    /\ \A c \in Callers : at[c] = "idle"
    /\ mode' = "none" /\ Go(Writer, "idle")
    /\ UNCHANGED <<inits, g_thd_run, ringVars, outch, written, checkVars, fileVars, msgVars>>

-----------------------------------------------------------------------------
(* file_size_check, by the writer or by a caller in synchronous mode, who  *)
(* does not hold a lock.                                                   *)
file_size_check(t) ==
    /\ at[t] = "size"
    /\ Go(t, IF Len(file[Live]) >= MaxFileLen THEN "name" ELSE goal[t])
    /\ UNCHANGED <<mode, inits, g_thd_run, ringVars, outch, written, checkVars, fileVars, msgVars>>

(* After the last number the first one is used again.                      *)
WrappedCnt == IF g_cur_files_cnt >= g_logfile_max_cnt THEN 0 ELSE g_cur_files_cnt

(* The rotation: choosing the number, rename, and counting the file.       *)
RotateOnly == UNCHANGED <<mode, inits, g_thd_run, ringVars, outch, written, goal, msgVars>>

rotate_name(t) ==
    /\ at[t] = "name"
    /\ g_cur_files_cnt' = WrappedCnt
    /\ newFile' = [newFile EXCEPT ![t] = WrappedCnt + 1]
    /\ Go(t, "rename")
    /\ RotateOnly /\ UNCHANGED <<file, present>>

rotate_rename(t) ==
    /\ at[t] = "rename"
    /\ IF Live \in present
       THEN /\ file' = [file EXCEPT ![newFile[t]] = file[Live], ![Live] = <<>>]
            /\ present' = (present \ {Live}) \cup {newFile[t]}
       ELSE UNCHANGED <<file, present>>
    /\ Go(t, "count")
    /\ RotateOnly /\ UNCHANGED <<g_cur_files_cnt, newFile>>

rotate_count(t) ==
    /\ at[t] = "count"
    /\ g_cur_files_cnt' = g_cur_files_cnt + 1
    /\ Go(t, goal[t])
    /\ RotateOnly /\ UNCHANGED <<newFile, file, present>>

-----------------------------------------------------------------------------
(* logger_write and logger_char_write (a message of length 1)              *)

Begins(c, m, n) ==
    /\ mode = m \/ (m = "async" /\ mode = "exiting" /\ "exitDrained" \notin LogHabits)
    /\ g_thd_run # 1 /\ at[c] = "idle" /\ messages < MaxMessages
    /\ messages' = messages + 1
    /\ left' = [left EXCEPT ![c] = n]
    /\ line' = [line EXCEPT ![c] = messages']
    /\ UNCHANGED <<mode, inits, g_thd_run, ringVars, outch, written, newFile, fileVars, accepted>>

logger_write(c, n) == Begins(c, "async", n) /\ Go(c, "lock") /\ UNCHANGED goal

LockRing(c) ==
    /\ at[c] = "lock"
    /\ lock' = c /\ Go(c, "in")
    /\ UNCHANGED <<mode, inits, g_thd_run, data, front, rear, outch, written, checkVars, fileVars, msgVars>>

logger_lock(c) == lock = Nobody /\ LockRing(c)

\* Mutant: every slot is used.
Full_all_slots == FALSE

(* One slot stays free so that a full ring is not taken for an empty one.  *)
Full == front = RingSlot(rear + 1)

(* queue_in: a full ring drops the rest of the message.                    *)
queue_in(c) ==
    /\ at[c] = "in" /\ left[c] > 0
    /\ IF Full
       THEN /\ left' = [left EXCEPT ![c] = 0]
            /\ UNCHANGED <<data, accepted, at>>
       ELSE /\ data' = [data EXCEPT ![rear] = Len(accepted) + 1]
            /\ accepted' = Append(accepted, line[c])
            /\ Go(c, "rear")
            /\ UNCHANGED left
    /\ UNCHANGED <<mode, inits, g_thd_run, front, rear, lock, outch, written, checkVars, fileVars,
                   line, messages>>

queue_in_rear(c) ==
    /\ at[c] = "rear"
    /\ rear' = RingSlot(rear + 1)
    /\ left' = [left EXCEPT ![c] = @ - 1]
    /\ Go(c, "in")
    /\ UNCHANGED <<mode, inits, g_thd_run, data, front, lock, outch, written, checkVars, fileVars,
                   line, accepted, messages>>

(* MUTEX_UNLOCK, then the broadcast: the writer may also wake by itself,   *)
(* so a broadcast that nobody hears changes nothing.                       *)
logger_unlock(c) ==
    /\ at[c] = "in" /\ left[c] = 0
    /\ lock' = Nobody /\ Go(c, "idle")
    /\ UNCHANGED <<mode, inits, g_thd_run, data, front, rear, outch, written, checkVars, fileVars, msgVars>>

(* Synchronous mode; logger_char_write does not check the size.            *)
logger_write_sync(c, n) ==
    /\ "oneWriter" \in LogHabits => \A d \in Callers : at[d] = "idle"
    /\ Begins(c, "sync", n)
    /\ CheckSize(c, "append") \/ (n = 1 /\ Go(c, "append") /\ UNCHANGED goal)

(* fopen in append mode, fputs and fclose                                  *)
sync_append(c) ==
    /\ at[c] = "append"
    /\ file' = [file EXCEPT ![Live] = @ \o [i \in 1 .. left[c] |-> Len(accepted) + i]]
    /\ present' = present \cup {Live}
    /\ accepted' = accepted \o [i \in 1 .. left[c] |-> line[c]]
    /\ left' = [left EXCEPT ![c] = 0]
    /\ Go(c, "idle")
    /\ UNCHANGED <<mode, inits, g_thd_run, ringVars, outch, written, checkVars, g_cur_files_cnt, line, messages>>

-----------------------------------------------------------------------------
(* async_fputs                                                             *)

WriterOnly == UNCHANGED <<mode, inits, data, rear, lock, newFile, g_cur_files_cnt, msgVars>>

fputs_start ==
    /\ at[Writer] = "started"
    /\ g_thd_run' = 2 /\ Go(Writer, "test")
    /\ WriterOnly /\ UNCHANGED <<goal, front, outch, written, file, present>>

fputs_test ==
    /\ at[Writer] = "test"
    /\ Go(Writer, IF g_thd_run = 0 THEN "ended" ELSE "wait")
    /\ WriterOnly /\ UNCHANGED <<g_thd_run, goal, front, outch, written, file, present>>

(* pthread_cond_timedwait returns, notified or not, and the file is        *)
(* opened; if that fails the loop starts again.                            *)
fputs_open ==
    /\ at[Writer] \in {"wait", "reopen"}
    /\ \/ present' = present \cup {Live} /\ Go(Writer, "out")
       \/ UNCHANGED present /\ Go(Writer, "test")
    /\ WriterOnly /\ UNCHANGED <<g_thd_run, goal, front, outch, written, file>>

(* queue_out: -1 on an empty ring, else the character is read ...          *)
queue_out ==
    /\ at[Writer] = "out"
    /\ IF front = rear THEN Go(Writer, "test") /\ UNCHANGED outch
       ELSE Go(Writer, "front") /\ outch' = data[front]
    /\ WriterOnly /\ UNCHANGED <<g_thd_run, goal, front, written, file, present>>

(* ... and then its slot is given back.                                    *)
queue_out_front ==
    /\ at[Writer] = "front"
    /\ front' = RingSlot(front + 1) /\ Go(Writer, "put")
    /\ WriterOnly /\ UNCHANGED <<g_thd_run, goal, outch, written, file, present>>

fputs_put ==
    /\ at[Writer] = "put"
    /\ file' = [file EXCEPT ![Live] = Append(@, outch)]
    /\ written' = (written + 1) % CheckEvery
    /\ IF written' = 0 THEN CheckSize(Writer, "reopen") ELSE Go(Writer, "out") /\ UNCHANGED goal
    /\ WriterOnly /\ UNCHANGED <<g_thd_run, front, outch, present>>

LogNext ==
    \/ \E m \in {"async", "sync"} : loggger_init(m)
    \/ loggger_exit \/ exit_joined
    \/ fputs_start \/ fputs_test \/ fputs_open \/ queue_out \/ queue_out_front \/ fputs_put
    \/ \E t \in Threads : file_size_check(t) \/ rotate_name(t) \/ rotate_rename(t) \/ rotate_count(t)
    \/ \E c \in Callers :
        \/ \E n \in LineLengths : logger_write(c, n) \/ logger_write_sync(c, n)
        \/ logger_lock(c) \/ queue_in(c) \/ queue_in_rear(c) \/ logger_unlock(c)
        \/ sync_append(c)

LogSpec == LogInit /\ [][LogNext]_logVars

-----------------------------------------------------------------------------
OnDisk == UNION {Range(file[f]) : f \in present}
InRing == {data[RingSlot(front + i)] : i \in 0 .. ((rear + RING_SIZE - front) % RING_SIZE) - 1}
InHand == (IF at[Writer] = "put" THEN {outch} ELSE {})
          \cup UNION {IF at[c] = "rear" THEN {data[rear]} ELSE {} : c \in Callers}

(* Once accepted, a character is lost only with everything older than it:  *)
(* what is in the files, in the ring and between the two is an unbroken    *)
(* end of the log.  A full ring is never overwritten, a rename never takes *)
(* a newer file's name, nothing is left behind at exit (logproc.cpp:85-170 *)
(* and 280-413).                                                           *)
NewestKept ==
    LET kept == OnDisk \cup InRing \cup InHand
    IN  \A i, j \in DOMAIN accepted : i < j /\ i \in kept => j \in kept

(* Every file holds consecutive characters in the order they were          *)
(* accepted, and a message is not mixed with another thread's.             *)
InOrder ==
    /\ \A f \in present : \A i \in 1 .. Len(file[f]) - 1 : file[f][i + 1] = file[f][i] + 1
    /\ \A i, j, k \in DOMAIN accepted :
            i < j /\ j < k /\ accepted[i] = accepted[k] => accepted[j] = accepted[i]

(* The two together: what the log promises to someone who reads the files  *)
(* (logproc.cpp:85-119, 139-170, 280-413, 462-537).                        *)
LogIntact == NewestKept /\ InOrder
=============================================================================
