----------------------------- MODULE IoThreads -----------------------------
(***************************************************************************)
(* performance/io-threads: which thread runs a call.  Threads are numbered *)
(* 1 to thread_count; 0 is the thread the requests arrive in, which runs   *)
(* every call that is not handed to a worker.                              *)
(***************************************************************************)
EXTENDS Naturals, Sequences

CONSTANT thread_count

ASSUME ThreadCount == thread_count \in Nat \ {0}

Poll == 0
Workers == 1 .. thread_count
Threads == {Poll} \cup Workers

\* The worker of a number: an inode number, or the running index of calls without a file.
iot_schedule(ino) == (ino % thread_count) + 1

\* A descriptor gets the worker of its inode; a created file's inode is not linked yet, its number is 0.
iot_open_cbk(ino) == iot_schedule(ino)
iot_create_cbk(ino) == iot_schedule(0)

\* Mutant: writes go to the workers in turn.
WritesInTurn == "misc"

\* Where a call goes: the worker of its descriptor, the worker of its inode when the
\* caller has it open, the next worker in turn, or straight down.
iot_readv == "file"
iot_flush == "file"
iot_fsync == "file"
iot_writev == "file"
iot_lk == "file"
iot_stat == "inode"
iot_fstat == "file"
iot_truncate == "inode"
iot_ftruncate == "file"
iot_utimens == "inode"
iot_checksum == "misc"
iot_unlink == "misc"

\* The calls of io-threads; open, create and every other call go down in the thread they came in.
fops(op) ==
    CASE op = "readv" -> iot_readv          [] op = "flush" -> iot_flush
      [] op = "fsync" -> iot_fsync          [] op = "writev" -> iot_writev
      [] op = "lk" -> iot_lk                [] op = "stat" -> iot_stat
      [] op = "fstat" -> iot_fstat          [] op = "truncate" -> iot_truncate
      [] op = "ftruncate" -> iot_ftruncate  [] op = "utimens" -> iot_utimens
      [] op = "checksum" -> iot_checksum    [] op = "unlink" -> iot_unlink
      [] OTHER -> "down"

\* Queues are first in, first out.
iot_queue(queue, w, r) == [queue EXCEPT ![w] = Append(@, r)]
iot_dequeue(queue, w) == [queue EXCEPT ![w] = Tail(@)]
=============================================================================
