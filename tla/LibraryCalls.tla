------------------------------ MODULE LibraryCalls ------------------------------
(***************************************************************************)
(* The wrappers of proj_pass/tools/utils/profile_function_wrappers.h for   *)
(* the string, memory, stream, printf, scanf and random number functions.  *)
(* Each makes the library call and tells a memory profiler, with LOAD and  *)
(* STORE, the memory the library read and wrote in it.  What the calls of  *)
(* a program hand one another through a stream or a random generator is    *)
(* told the same way, as a load and a store of a token kept for it.        *)
(*                                                                         *)
(* The memory is two buffers next to each other.  The model follows one    *)
(* location of it, any one: the call that told of the last STORE there is, *)
(* or is not, the one that wrote it last.  Only NUL and not NUL are told   *)
(* apart in the contents.                                                  *)
(***************************************************************************)
EXTENDS Integers, FiniteSets

CONSTANTS Size,    \* model bound: bytes of a buffer
          Files    \* model bound: descriptors, standard input and output the first two

ASSUME CallsAssumption == Size \in Nat \ {0} /\ Files \in Nat

Buffers == {0, Size}            \* their first addresses
Memory == 0..(2 * Size - 1)
Fds == 0..(Files - 1)
Token(fd) == 2 * Size + fd
RandToken == 2 * Size + Files
Locations == Memory \cup {Token(fd) : fd \in Fds} \cup {RandToken}

VARIABLES watch,       \* the location followed
          nul,         \* addresses that hold a NUL
          open,        \* open descriptors
          told,        \* "exact", or the wrapper that wrote or told of a STORE wrongly
          missed,      \* "nothing", or the wrapper at fault for what the last call's
                       \* LOADs tell of the place it read from
          callStatus   \* "running", or how the wrapper called last ended the program

callVars == <<watch, nul, open, told, missed, callStatus>>

CallsInit == /\ watch \in Locations
             /\ nul \in SUBSET Memory
             /\ open = Fds
             /\ told = "exact" /\ missed = "nothing"
             /\ callStatus = "running"

Region(a, n) == a..(a + n - 1) \cap Memory

\* Strings start anywhere in a buffer and end in it.
Strings == {a \in Memory : \E z \in nul : a <= z /\ (a < Size <=> z < Size)}
End(a) == CHOOSE z \in nul : z >= a /\ \A y \in nul : y >= a => z <= y
Length(a) == End(a) - a
String(a) == a..End(a)

\* Those that start a buffer; they stand for the others in the calls with formats.
Wholes == Strings \cap Buffers

-------------------------------------------------------------------------------
\* A call: the wrapper tells of `loads` and then of `stores`, the library reads
\* `reads` and then writes `writes`.
Does(wrapper, loads, stores, reads, writes) ==
  /\ missed' = IF watch \notin reads THEN "nothing"
               ELSE IF told # "exact" THEN told
               ELSE IF watch \notin loads THEN wrapper ELSE "nothing"
  /\ told' = IF watch \in stores \cap writes THEN "exact"
             ELSE IF watch \in stores \cup writes THEN wrapper ELSE told
  /\ UNCHANGED <<watch, callStatus>>

Loads(wrapper, loads) == Does(wrapper, loads, {}, loads, {})
Stores(wrapper, stores) == Does(wrapper, {}, stores, {}, stores)

\* The bytes of `written` become NUL in `zero` and something else in the rest.
Writes(written, zero) == nul' = (nul \ written) \cup zero

\* memprof_write_region of less than no bytes, and the functions left unimplemented.
EndsIn(why) == callStatus' = why /\ UNCHANGED <<watch, nul, open, told, missed>>

\* The program's own loads and stores.
ProgramAccess == /\ UNCHANGED open
                 /\ \E a \in Memory : \/ Loads("program", {a}) /\ UNCHANGED nul
                                      \/ /\ Stores("program", {a})
                                         /\ \E zero \in SUBSET {a} : Writes({a}, zero)

-------------------------------------------------------------------------------
\* strlen to strcmp, strstr to strcspn, strpbrk, atoi and its kin, and the file
\* names and options given to open, remove, mkdir, unlink, rename, utime, utimes, getopt
\* and so on.  Where a call loads several strings and does nothing else with them, one
\* stands for them all: the location followed is in one of them or in none.
StringQuery == \E a \in Strings : Loads("query", String(a)) /\ UNCHANGED nul

\* memprof_strncmp tells of n bytes, the library stops at the end of a string.
Strncmp == \E a \in Strings, n \in 0..Size :
             Does("strncmp", Region(a, n), {}, Region(a, n) \cap String(a), {}) /\ UNCHANGED nul

\* memprof_utimes: of the two timevals that the library reads it tells of one.
Utimes == \E tvp \in Buffers, n \in 1..(Size \div 2) :
            Does("utimes", Region(tvp, n), {}, Region(tvp, 2 * n), {}) /\ UNCHANGED nul

\* memprof_getopt: the array that points to the strings it loads is not told of; the
\* library reads it, and moves what is no option to its end.
Getopt == \E argv \in {Region(b, Size) : b \in Buffers} :
            \E moved \in {{}, argv} : \E zero \in SUBSET moved :
               Does("getopt", {}, {}, argv, moved) /\ Writes(moved, zero)

Strcpy == \E dest \in Buffers, src \in Strings :
             LET written == Region(dest, Length(src) + 1)
             IN  /\ String(src) \cap Region(dest, Size) = {}
                 /\ Does("strcpy", String(src), written, String(src), written)
                 /\ Writes(written, {dest + Length(src)})

Strncpy == \E dest \in Buffers, src \in Strings, n \in 0..Size :
             LET end == IF Length(src) < n THEN Length(src) ELSE n
             IN  /\ Region(src, n) \cap Region(dest, n) = {}
                 /\ Does("strncpy", Region(src, n), Region(dest, n),
                         Region(src, n) \cap String(src), Region(dest, n))
                 /\ Writes(Region(dest, n), Region(dest + end, n - end))

\* Mutant: the end of s1 is looked for when the library has moved it.
StrcatLate == \E s1 \in Buffers \cap Strings, s2 \in Strings :
                LET n == Length(s1) + Length(s2)
                    written == Region(End(s1), Length(s2) + 1)
                IN  /\ n < Size /\ String(s2) \cap Region(s1, Size) = {}
                    /\ Does("strcat", String(s1) \cup String(s2), Region(s1 + n, Length(s2) + 1),
                            String(s1) \cup String(s2), written)
                    /\ Writes(written, {s1 + n})

Strcat == \E s1 \in Buffers \cap Strings, s2 \in Strings :
             LET n == Length(s1) + Length(s2)
                 written == Region(End(s1), Length(s2) + 1)
             IN  /\ n < Size /\ String(s2) \cap Region(s1, Size) = {}
                 /\ Does("strcat", String(s1) \cup String(s2), written, String(s1) \cup String(s2), written)
                 /\ Writes(written, {s1 + n})

\* memprof_strncat looks for the end of s1 when the library has moved it.
Strncat == \E s1 \in Buffers \cap Strings, s2 \in Strings, n \in 0..Size :
             LET k == IF Length(s2) < n THEN Length(s2) ELSE n
                 written == Region(End(s1), k + 1)
             IN  /\ Length(s1) + k < Size /\ String(s2) \cap Region(s1, Size) = {}
                 /\ Does("strncat", String(s1) \cup Region(s2, n), Region(End(s1) + k, n + 1),
                         String(s1) \cup (Region(s2, n) \cap String(s2)), written)
                 /\ Writes(written, {End(s1) + k})

\* memprof_strtok of a string, or of what an earlier call left of one: the library
\* skips delimiters to `first` and writes a NUL over the one at `last`, if the token
\* does not end the string.  The wrapper tells of the token found, and of no store.
Strtok ==
  \E from \in Strings : \E first, last \in String(from) :
     /\ first <= last
     /\ \/ first < last /\ Does("strtok", first..last, {}, from..last, {last} \ nul)
        \/ first = End(from) /\ Does("strtok", {}, {}, String(from), {})
     /\ nul' = IF first < last THEN nul \cup {last} ELSE nul

-------------------------------------------------------------------------------
\* memset and bzero.
Memset == \E b \in Buffers, n \in 0..Size :
             /\ Stores("memset", Region(b, n))
             /\ \E zero \in {{}, Region(b, n)} : Writes(Region(b, n), zero)

\* memcpy, memmove and bcopy: the destination may overlap the source.
Memcpy == \E to \in Memory, from \in Buffers, n \in 0..Size :
             LET written == Region(to, n) IN
             /\ written \cup Region(from, n) \subseteq Memory
             /\ Does("memcpy", Region(from, n), written, Region(from, n), written)
             /\ Writes(written, {a \in written : a - to + from \in nul})

\* memcmp, and the structures that setrlimit and tcsetattr load.
Memcmp == \E b \in Buffers, n \in 0..Size : Loads("memcmp", Region(b, n)) /\ UNCHANGED nul

\* Structures, numbers and strings the library fills in: time, localtime, times,
\* getrusage, getrlimit, tcgetattr, xstat, modf, frexp, strtol and ctime, getenv,
\* strerror.  When the call fails, or had the string already, it writes nothing, and
\* the wrapper tells of it all; ctime also fills in the structure of localtime, untold.
Fill == \E b \in Buffers, n \in 1..Size :
          LET filled == Region(b, n)
          IN  \/ Stores("fill", filled) /\ \E zero \in SUBSET filled : Writes(filled, zero)
              \/ Does("fill", {}, filled, {}, {}) /\ UNCHANGED nul
              \/ Does("fill", {}, {}, {}, filled) /\ \E zero \in SUBSET filled : Writes(filled, zero)

\* memprof_getcwd tells of the whole buffer, strftime of all but the NUL.
Getcwd == \E b \in Buffers, n \in 0..(Size - 1) :
             /\ Does("getcwd", {}, Region(b, Size), {}, Region(b, n + 1))
             /\ Writes(Region(b, n + 1), {b + n})
Strftime == \E b \in Buffers, n \in 0..(Size - 1) : \E format \in Wholes :
             /\ String(format) \cap Region(b, Size) = {}
             /\ Does("strftime", String(format), Region(b, n), String(format), Region(b, n + 1))
             /\ Writes(Region(b, n + 1), {b + n})

-------------------------------------------------------------------------------
\* The strings a printf loads: its format and, with touch_printf_args, those given
\* for its conversions.  Where a va_list is handed on by reference, as on x86-64,
\* touch_printf_args leaves it at its end, and the library takes what comes after the
\* arguments for them: it reads anything then, the location followed or not.
PrintfArgs == {String(arg) : arg \in Wholes}
Taken(args) == {args, {}, Memory}

\* memprof_vsprintf tells of `size` bytes, the NUL after them not among them.
Sprintf == \E str \in Buffers, args \in PrintfArgs, size \in 0..(Size - 1) : \E taken \in Taken(args) :
             /\ args \cap Region(str, Size) = {}
             /\ Does("sprintf", args, Region(str, size), taken, Region(str, size + 1))
             /\ Writes(Region(str, size + 1), {str + size})

\* memprof_vsnprintf tells of as many bytes as there would have been with room for
\* them all; a result of -1 ends the program.
Snprintf == \E str \in Buffers, args \in PrintfArgs, n \in 0..Size, result \in 0..(Size + 1) :
             \E taken \in Taken(args) :
             LET end == IF result < n THEN result ELSE n - 1
             IN  /\ args \cap Region(str, Size) = {}
                 /\ Does("snprintf", args, Region(str, result), taken, Region(str, end + 1))
                 /\ Writes(Region(str, end + 1), IF n = 0 THEN {} ELSE {str + end})

\* A conversion that is_format_char does not know, such as %n or %a, is read on to
\* the end of the format, and ends the program as well.
PrintfFails == Strings # {} /\ (EndsIn("Illegal value for n") \/ EndsIn("Error in format string"))

\* touch_scanf_args, after the library read its input: a string converted by %s is
\* loaded, its store not told of; a number's store is told of, converted or not, and
\* a %c's is told of as an int's.  The va_list may be at its end here too: the library
\* writes `a`, and what is told of is `b`, the same or what comes after the arguments.
Converted(loads, reads, stores, writes) ==
  \E a, b \in Buffers :
     \/ \E z \in Region(a, Size) :
           /\ Does("scanf", loads \cup Region(b, Size), stores, reads, writes \cup (a..z))
           /\ Writes(a..z, {z})
     \/ Does("scanf", loads, stores \cup {b}, reads, writes \cup {a})
           /\ \E zero \in SUBSET {a} : Writes({a}, zero)
     \/ Does("scanf", loads, stores \cup Region(b, Size), reads, writes \cup {a}) /\ Writes({a}, {})
     \/ Does("scanf", loads, stores \cup {b}, reads, writes) /\ UNCHANGED nul

Sscanf == \E s \in Wholes : Converted(String(s), String(s), {}, {})

MemoryCall == /\ \/ StringQuery \/ Strncmp \/ Utimes \/ Getopt
                 \/ Strcpy \/ Strncpy \/ Strcat \/ Strncat \/ Strtok
                 \/ Memset \/ Memcpy \/ Memcmp \/ Fill \/ Getcwd \/ Strftime
                 \/ Sprintf \/ Snprintf \/ Sscanf
              /\ UNCHANGED open

-------------------------------------------------------------------------------
\* A stream or descriptor `fd` is read and written by everything done with it: its
\* position, its end of file and error flags and what is buffered for it.
Uses(wrapper, fd, loads, stores, reads, writes) ==
  LET token == {Token(fd)} IN Does(wrapper, token \cup loads, token \cup stores, token \cup reads, token \cup writes)

\* open and fopen; one that fails tells of no descriptor, or of descriptor -1.
Open == \E fd \in Fds \ open : Stores("open", {Token(fd)}) /\ open' = open \cup {fd} /\ UNCHANGED nul

\* memprof_tmpfile loads the new token.
Tmpfile == \E fd \in Fds \ open : /\ Does("tmpfile", {Token(fd)}, {}, {}, {Token(fd)})
                                  /\ open' = open \cup {fd} /\ UNCHANGED nul

\* close and fclose tell of a store alone; the library writes out what is pending.
\* Descriptors that are not followed stay open, and so does all that can be done with them.
Close == \E fd \in open : /\ watch = Token(fd)
                          /\ Does("close", {}, {Token(fd)}, {Token(fd)}, {Token(fd)})
                          /\ open' = open \ {fd} /\ UNCHANGED nul

\* Mutant: the position a read leaves behind is not told of.
ReadUntold(fd, data) == Does("read", {Token(fd)}, data, {Token(fd)}, {Token(fd)} \cup data)

\* memprof_read of `data` bytes.
Read(fd, data) == Uses("read", fd, {}, data, {}, data)

\* The calls that read into memory: fread tells of whole items (of two bytes),
\* fgets of the bytes to the first NUL, and of nothing when it returns null.
Input ==
  \E fd \in open, b \in Buffers, n \in 0..Size : \E zero \in SUBSET Region(b, n) :
     LET data == Region(b, n)
         line == {a \in data : \A z \in zero : a <= z}
     IN  /\ Writes(data, zero)
         /\ \/ Read(fd, data)
            \/ Uses("fread", fd, {}, Region(b, 2 * (n \div 2)), {}, data)
            \/ n > 0 /\ b + n - 1 \in zero /\ Uses("fgets", fd, {}, line, {}, data)
            \/ n = 0 /\ Does("fgets", {Token(fd)}, {}, {Token(fd)}, {Token(fd)})
         /\ UNCHANGED open

\* write and fwrite, which tells of the whole items (of two bytes) that were written.
Output == \E fd \in open, b \in Buffers, n \in 0..Size :
            /\ \/ Uses("write", fd, Region(b, n), {}, Region(b, n), {})
               \/ Uses("fwrite", fd, Region(b, 2 * (n \div 2)), {}, Region(b, n), {})
            /\ UNCHANGED <<nul, open>>

\* fprintf, and fputc, fputs, puts and putchar through it.
Fprintf == \E fd \in open, args \in PrintfArgs : \E taken \in Taken(args) :
             Uses("fprintf", fd, args, {}, taken, {}) /\ UNCHANGED <<nul, open>>

Fscanf == \E fd \in open, format \in Wholes :
            /\ Converted({Token(fd)} \cup String(format), {Token(fd)} \cup String(format), {Token(fd)}, {Token(fd)})
            /\ UNCHANGED open

\* fgetc, getchar, ungetc, fseek, lseek, _IO_getc, _IO_putc and perror.
Position == \E fd \in open : Uses("position", fd, {}, {}, {}, {}) /\ UNCHANGED <<nul, open>>

\* memprof_fcntl does not tell of the lock that the library reads and may fill in.
Fcntl == \E fd \in open, lock \in {{}} \cup {Region(b, Size) : b \in Buffers} :
           \E filled \in {{}, lock} : \E zero \in SUBSET filled :
              /\ Uses("fcntl", fd, {}, {}, lock, filled)
              /\ Writes(filled, zero) /\ UNCHANGED open

\* memprof_fflush tells of nothing.
Fflush == \E fd \in open : /\ Does("fflush", {}, {}, {Token(fd)}, {Token(fd)})
                           /\ UNCHANGED <<nul, open>>

\* isatty, tcgetattr, tcsetattr and ioctl do not tell of the descriptor.  Nor does
\* memprof_ioctl hand on the address it was given: what the library finds in its
\* place is the memory that it reads, or fills in.
Terminal == \E fd \in open, found \in {{}} \cup {Region(b, Size) : b \in Buffers} :
              \E filled \in {{}, found}, set \in {{}, {Token(fd)}} : \E zero \in SUBSET filled :
                 /\ Does("ioctl", {}, {}, {Token(fd)} \cup found, set \cup filled)
                 /\ Writes(filled, zero) /\ UNCHANGED open

\* rewind, and clearerr, setbuf, fdopen, fchmod and fchown, tell of a store alone;
\* rewind also writes out what is pending.
Reset == \E fd \in open : /\ Does("rewind", {}, {Token(fd)}, {Token(fd)}, {Token(fd)})
                          /\ UNCHANGED <<nul, open>>

\* ferror, feof, ftell, fileno and ttyname, fxstat with what they fill in.
StreamQuery == \E fd \in open : Loads("feof", {Token(fd)}) /\ UNCHANGED <<nul, open>>

\* rand, lrand48 and drand48; srand sets the generator anew.
Random == /\ \/ Does("rand", {RandToken}, {RandToken}, {RandToken}, {RandToken})
             \/ Stores("srand", {RandToken})
          /\ UNCHANGED <<nul, open>>

\* read returning -1; ttyname of what is no terminal, tmpfile without a file; select,
\* dup, pipe, truncate, system, fork, kill and the exec family.
CallEnds == \/ open # {} /\ EndsIn("Illegal value for n")
            \/ EndsIn("null pointer")
            \/ EndsIn("not implemented")

CallsNext == /\ callStatus = "running"
             /\ \/ ProgramAccess \/ MemoryCall \/ PrintfFails
                \/ Open \/ Tmpfile \/ Close \/ Input \/ Output \/ Fprintf \/ Fscanf
                \/ Position \/ Fcntl \/ Fflush \/ Terminal \/ Reset \/ StreamQuery \/ Random \/ CallEnds

CallsSpec == CallsInit /\ [][CallsNext]_callVars

-------------------------------------------------------------------------------
\* The wrappers that tell of a place in memory wrongly, or load less than is read.
InexactForMemory == {"strncat", "strtok", "utimes", "getopt", "sprintf", "snprintf", "fprintf",
                     "scanf", "fread", "fgets", "fwrite", "fcntl", "ioctl", "fill", "getcwd",
                     "strftime"}

\* Those that leave untold what they do to a stream or descriptor, or what they take
\* from it.
InexactForStreams == {"tmpfile", "fgets", "fflush", "ioctl", "close", "rewind"}

\* Whatever calls were made before, what a wrapper loads leads the profiler to the
\* call, or the store of the program, that wrote the memory it reads, unless one of
\* the inexact wrappers is at fault.
MemoryDependencesSeen == watch \in Memory => missed \in {"nothing"} \cup InexactForMemory

\* The order of the calls on a stream or random generator that depend on one another
\* is seen through the tokens.  Only tmpfile, fgets, fflush, tcsetattr and ioctl leave
\* a change untold, and only close, fclose and rewind with its kin, fflush, isatty,
\* tcgetattr, tcsetattr and ioctl do not load what they depend on.
StreamDependencesSeen == watch \notin Memory => missed \in {"nothing"} \cup InexactForStreams
===============================================================================
