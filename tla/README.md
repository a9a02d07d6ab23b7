# A TLA+ verification of CardboardOS

CardboardOS is a single-threaded x86_64 kernel: a keyboard interrupt, a text console, a
shell with users, FatFs over a polling IDE driver, and a small bytecode language. This
directory holds TLA+ models of its parts, the TLC runs that check them on small instances,
and proofs, checked by TLAPS, of what matters most for instances of every size. Line numbers
refer to `src/src/kernel/` unless a path is given.

To check a run: `tlc -config <run>.cfg <module>.tla` with the module that `PROJECT.json`
names for it. To check the proofs: `tlapm <Module>Proofs.tla`.

## 1. The system

| component | state | operations | what makes it correct |
|---|---|---|---|
| Interrupts and keyboard (`kmain.c` 95-227, `irq1.asm`) | `kbd_buf`, `kbd_head`, `kbd_tail`, `shift_down`, `caps_lock`; IF, IDT, PIC | `kbd_handler` under IRQ1; `kinput` in the thread; `idt_load`, `pic_remap` at boot | characters reach `kinput` once, in order and with the case meant; no interrupt without a gate; the keyboard never stops |
| User administration (270-397, 860-963) | `users[]`, `user_count`, `current_user`, `current_is_admin`; `/user.card` on the disk | boot parse and fallback, `authenticate`, `createuser`, `deluser`, `setrole`, `passwd`, `save_user_card` | the cached role is the table's, only administrators administer, an administrator remains, and what is saved is what is read back |
| ATA driver and disk I/O layer (`ide.c`, `diskio.c`) | the drive's registers; local loop variables | `disk_read`, `disk_write` | RES_OK means done, and requests are cut into commands without a gap |
| Terminal, line editor, history (38-93, 360-397, 543-560, 1163-1198) | framebuffer, cursor, `line`, `hist` | `kprint`, `fb_scroll`, `fb_clear`, erase, Enter, `history` | the screen shows what was printed and not erased; history is the last lines in order |
| Shell dispatcher and redirection (1039-1120) | none of its own | `shell_line`, `write_redirect` | the command meant is the command run |
| Shell file commands and paths (229-268, 563-843) | `cwd`, `fs_mounted`, `file_buffer` | `mkdir` ... `stat`, `path_join` | a command changes the files it names and no other, also when `cwd` is gone; readers do not depend on where a read ends |
| FatFs (`ff.c`) | FAT, directories, window buffer, FSInfo | `f_mount`, `f_open`, `f_read`, `f_write`, `f_close`, `f_lseek`, `f_opendir`, `f_readdir`, `f_mkdir`, `f_unlink`, `f_rename`, `f_getfree` | no cluster in two chains, none lost, and a tree of files across power failures |
| NotC (`notc.c`, `kmain.c` 965-1035) | the compiler's tables, the `.ca` file, the VM's stack and program | `notc_compile`, `notc_load`, `notc_run`, `cmd_notc`, `cmd_run` | what is compiled, loaded and run prints the program's strings; a file cut short never runs |
| C library (`string.c`, `libc_stubs.c`) | the bump allocator, which nothing that runs calls | `memcpy`, `vsnprintf`, ... | straight-line loops |
| GUI port, serial console, boot, build | none | | |

How they interact. The only concurrency is between the kernel thread and the keyboard
interrupt, and the only data they share is the keyboard's: `kbd_handler` writes the ring's
head, `kinput` its tail. Everything else is called by the thread, in a stack of calls:
`kmain` reads characters with `kinput`, edits a line, and `shell_line` runs the command,
which prints with `kprint` and calls FatFs, which calls `disk_read` and `disk_write`, which
poll the drive. The drive runs concurrently with the driver. Power may fail at any time, and
what is on the disk is all that the next boot has; the user table lives in memory and is
rewritten to `/user.card` after every change. A `.ca` file is the only thing that passes
from `notc` to `run`.

What is hard: the interrupt between any two instructions of the thread, and the order of the
bring-up; the drive behind the driver, its errors and its time; power failing in the middle
of a save or between two sectors of a directory update; the window buffer of FatFs, one for
all of FAT, directories and FSInfo; the caches (`current_is_admin`, `shift_down`, `cwd`)
that must follow what they cache; and the arithmetic of rings, of the cursor, of sector
counts and of buffers that cut what does not fit. `PROJECT.json` lists these hazards line by
line.

## 2. The modules

| module | role |
|---|---|
| `KbdQueue` | abstract: a bounded FIFO queue of characters |
| `Pic8259` | operators for the interrupt controller: edges, masks, ICW1-4, EOI |
| `Keyboard` | the keyboard path, from the user's keys to `kinput` |
| `KeyboardProofs` | theorems about it |
| `Accounts` | abstract: accounts, a session, and what may change them |
| `Users` | the user administration with boot, save, crash and disk faults |
| `UsersProofs` | theorems about it |
| `BlockDevice` | abstract: a disk of sectors, one request at a time |
| `Ata` | `diskio.c` and `ide.c` with the drive |
| `AtaProofs` | theorems about it |
| `Terminal` | the text console, the line editor and the history |
| `TerminalProofs` | theorems about it |
| `FileTree` | abstract: a tree of files, its commands, and what a power failure may leave |
| `FileTreeProofs` | a theorem about it |
| `FatFs` | `ff.c` as operators on a volume: window, FAT, directories, files |
| `Volume` | the file commands on `FatFs`, sector by sector, with power failures |
| `Readers` | `head`, `tail` and `wc` as operators, with their reference definitions |
| `Shell` | `shell_line`, `path_join`, `cwd` and the file commands on a tree |
| `ShellProofs` | theorems about it |
| `NotC` | compiler, `.ca` file and interpreter |
| `NotCProofs` | theorems about it |
| `SetInduction` | lemmas the proofs share: induction over numbers and sequences, loops, what `FlattenSeq` makes |
| `MC...` | the instances TLC checks; the sizes are in the `.cfg` files |

An operator `X_bug` next to `X` is `X` with a plausible mistake in it. No specification uses
it: put in place of `X`, it shows that a property notices.

### Keyboard

State: the driver's statics under their names; `pc`, where the thread is; `irq`, where the
handler is; `iflag`, `idt_loaded`, `pic`; `wire`, bytes on their way from the keyboard;
`held` and `capsOn`, what the user does and expects. Each scan code carries what the user
meant by it, a history field that no action reads.

- `banner`, `idt_load`, `pic_remap`, `boot_sti` are kmain 1137-1143. `kprint` is cli, draw,
  sti, and enables interrupts whatever IF was before.
- `kinput_check`, `kinput_hlt`, `kinput_take`, `kinput_return` are the instructions of
  `kinput` (164-169) that an interrupt may come between.
- `TakeInterrupt` is the CPU: vector 0x21 has a gate once `lidt` was executed, any other
  vector ends in `fault`. `kbd_handler` (142-162) and `irq1_return` (the EOI and `iretq`)
  are the handler; no other interrupt comes between them, for the gate clears IF.
- External: the keyboard (makes, breaks, typematic repeats), the 8042 (an edge when its
  buffer fills) and the 8259 (`Pic8259`).

The key maps are cut down to what the code distinguishes: letters, other characters, shift,
caps lock, keys without a character.

`EarlyKeys` lets the user type before `pic_remap` is done. ICW1 then forgets the edge of a
waiting byte and no new one comes until the byte is read, so the keyboard may stay silent:
safety is checked with early keys, liveness without. `TimerRunning` leaves the PIT running:
a tick between ICW1, which unmasks all lines, and OCW1 has no gate, since the sti of
`kprint` has enabled interrupts already. Safety is checked with the timer, liveness without;
`FaultsOnlyInRemap` says that such a tick is all that may fault.

### Users

A line of the card is a record; `Colon` is the set of names and passwords with a ':' in
them, which make a line unreadable (`Valid`). The boot parses the card a line per step,
since a read error ends the loop as the end of the file does. `save_user_card` is split at
its FatFs calls: `save_open` truncates the card on the disk at once, `save_line` is one
`f_write`, and the new size reaches the directory entry in `save_close`. `power_cycle` may
come anywhere. `cmd_mount` is `mount` and `umount`; `edit_card` stands for `rm`, `write`,
`cp` and `mv` on `/user.card`. `Faults` selects what may go wrong with the disk: `mount`
(the volume does not mount at boot), `read`, `write` (sector errors), `full`. The history
variable `adminLost` notes that a fault, or a ':', has cost an administrator's line: a line
not read, not stored, or stored as one that cannot be read back.

`LongNames` is FatFs's `FF_USE_LFN`. It is 0 (`src/include/ffconf.h:116`), and the name
`user.card` then has an extension too long for FatFs. The run `UsersAsBuilt` shows what
follows; all other runs, and the rest of the module, are about the program as its README
describes it, with `LongNames = TRUE`.

### Ata

The driver's loops are steps: `issue` (after `ata_wait_bsy`: registers and command),
`wait_drq_error` and `wait_drq_gives_up` (the two ways `ata_wait_drq` fails), `read_sector`
and `write_sector` (the 256 words of one sector), `flush`, `flushed`. The drive is external
and behaves as the emulated IDE disk that `build.py` starts: while it shows BSY or DRQ it
ignores what is written to its command block. A sector's transfer is one step, because the
drive does nothing else while it shows DRQ. `Slow` says whether the drive may take longer
than the 100000 polls of `ata_wait_drq`, `ReadErrors` and `WriteErrors` whether sectors may
fail, `WriteCache` whether written sectors may be lost with the power. `Lba28` is 2^28;
FatFs asks only for sectors of the volume, which are assumed to be below it.

### Terminal

The framebuffer is a grid of cells, a cell the set of glyphs lit in it: `draw_char` sets
pixels and clears none, so that two glyphs drawn at one place add up. The cursor has the
width of `fb_cursor_x` (`Columns32` is 2^32 / FONT_W). `kprint_char` draws one character of
what is to be printed; what a command prints is any of a few texts. The history variable
`text` is what was printed since the last clear, line by line, less what the line editor
erased, and it knows nothing of rows, wrapping or scrolling. The history variable `astray`
notes that the cursor has left the end of that text: by an erasure in column 0, where
`fb_cursor_x` underflows, or by a return that does not end its line. From there to the next
clear the properties claim nothing of the screen. The backspace at the login prompt prints
the glyph of character 8, as `kprintc('\b')` does.

### FileTree, FatFs and Volume

`FileTree` is what a user of the file commands relies on: a map from paths to directories
and files, one action per command. A command that finds the volume full may store a
beginning of its data. A power failure leaves the tree before the command, the one after it,
or the one before it with the file being written left empty.

`FatFs` is `ff.c` for FAT32: `sync_window`, `move_window`, `sync_fs`, `get_fat`, `put_fat`,
`create_chain`, `remove_chain`, the `dir_` functions, `follow_path` and the `f_` functions
that the shell calls, as operators on a volume `v` with its sectors, its one window and
whether that is dirty, the FSInfo counts, and a log of the sectors written. Each open file
has a buffer of its own (`FF_FS_TINY` is 0). A loop over entries, clusters or sectors is a
recursive operator. Names are what `create_name` makes of them: an 8.3 name or `Invalid`.

`Volume` runs a command on `vol` in one step, as nothing else runs until it returns; the
sectors it has logged wait in `pending`, and `store` writes them to `disk` one by one.
`power_cycle` may come between any two and mounts what is on `disk`. `cmd_umount` forgets
`vol`, a dirty window with it. `ls`, `cat`, `tail` (`cmd_read`) and `stat` change no file
and are commands all the same, for they move the window. Two windows of time are excluded
from the crashes and from `CrashSafe`, for there the volume does come apart: `Renaming`,
when `f_rename` has written the new entry and not removed the old one, and `Stretching`,
when `dir_next` has linked a cluster to a directory before `dir_clear` has cleared it.
`Careful` excludes `cp` of a file onto itself and `mv` of a directory into itself, which
destroy data without any power failure (section 5).

Left out: the second copy of the FAT, which is written and never read, dates, attributes
other than the directory bit, the 2 MiB limit of a directory, and errors of the disk, which
`Ata` has.

### Shell and Readers

A line is a sequence of symbols (a blank, `>`, `/`, `.`, `..`, a name, a piece of text), and
`Lines` holds each with what was meant by it, `said`: the command, its paths as lists of
names, its text, and how many blanks end a path that is the rest of the line; `parts` are
the pieces the line is written of. `shell_line` is the code: the scan for `>` that stops
before the last character, the trimming, the dispatch, and per command the taking apart of
its argument, `path_join` with its stack of segments and its buffer, and the call of FatFs.
The properties compare this with `said`, followed name by name (`Walk`). `SymbolLen` gives a
symbol its length in the buffers. FatFs is here the tree of `FileTree`: `Volume` implements
`FileTree`, `Shell` is built on it and implements it too, so the two layers meet in one
abstract specification. Every loop (the split of a path, the stack of segments, the length
of a path, the reads of a file) is a recursive function with a value for each round of the C
loop; nothing is declared RECURSIVE, so that the modules can be proved about. `Clear` says
for which lines the comparison is made: the commands on files, from a `cwd` without a blank,
while the paths they name, with the blanks behind them, fit into the buffer behind `cwd`.
`Volumes`, `AllPaths`, `AllTexts`, `Alphabet` and `Faithful` say what the proofs ask of the
constants (section 4). `UpToBlank` is `create_name`, which ends a path at its first blank.
Commands that print without reading a file and do not change the tree are left out.

`Readers` has the loops of `head`, `tail` and `wc` over successive `f_read`s, and
`FirstLines`, `LastLines` and `Counts` over the whole file.

### NotC

A source is a sequence of tokens; in a `.ca` file a word of code and a string are one cell
each. `CompileFrame` is the size of the tables that `notc_compile` has on the stack, and
`KernelStack` that of the stack: where the first is larger, `notc_begin` ends in `overrun`,
and nothing is said of the kernel from there on. With the sizes in the repository it always
is (`NotCAsBuilt`); the other properties are about the compiler's logic, on a stack that
holds its tables. `Cut` is what `f_read` leaves of a source longer than `source[]`, perhaps
with half a token at its end. The compiler's loop is `header`, `write_stmt`, `close` or
`compile_fail`; `save` stores the file whole, in part, or not even its header, because no
one looks at the count of `f_write`; `save_fails` is an output that cannot be created;
`replace` puts a file there that notc did not write. `notc_load` reads the file into
`data[]`, whose old contents stay behind the end of a short one, and fills the program; code
beyond `data[]` is stray memory (`stray`). The strings are parsed by the lengths in front of
them: a table that holds anything else, or begins within the header, puts the lengths out of
step, and `LoadStrings` is then the set of what may come of it. `run_push`, `run_write`,
`run_end` and `run_error` are the interpreter.

## 3. The runs

| run | instance | what it shows |
|---|---|---|
| `KeyboardRing` | a shift key, caps lock, a repeating letter; 3 slots, 2 bytes on the wire; early keys, timer running; 1.1 million states | the ring implements `KbdQueue` under every interleaving, drops only when full, and stores the case the user meant; the bring-up faults by a timer tick within `pic_remap` only |
| `KeyboardLive` | a shift key, a repeating letter; 3 slots | every byte is read; every character is returned |
| `UsersCrash` | 3 names, one with a ':', 2 passwords, table of 2; all disk faults, power failure anywhere; 54,000 states | the session is the table's; an administrator remains unless his line was lost; implements `Accounts` |
| `UsersAsBuilt` | `LongNames = FALSE` | **violated**: a valid card is ignored for `root:root:admin` (320) |
| `AtaDriver` | 3 sectors, requests up to 3, commands up to 2; unreadable sectors | the driver stays in step with the drive and implements `BlockDevice` |
| `AtaFaults` | 2 sectors; all errors, slow drive | every request returns |
| `AtaFlush` | write cache | **violated**: the flush is issued to a busy drive and lost, though "flushed" is printed (86) |
| `TerminalScreen` | 4 x 3 cells, lines up to 4, history of 2; 720,000 states | the screen shows what was printed and not erased, over wraps and scrolls, until the cursor leaves the text; history lists the last lines in order |
| `VolumeFiles` | 5 clusters of 2 sectors of 2 bytes, 2 entries a sector, 4 FAT entries a sector; five prepared disks; 2 or 3 commands; 340,000 states | no power failure cross-links or orphans, nothing is lost while none happens, commands do what they can, `ls`, `cat` and `tail` show the tree; implements `FileTree` |
| `ShellLines` | `PathMax` 9, `SegMax` 5; up to 4 of some 140 lines on four trees, and every file of 5 characters or less; 7,575 states | each line does what was meant by it, also in a `cwd` that is gone; `head`, `tail`, `wc` agree with the whole file; implements `FileTree` |
| `NotCPrograms` | programs of up to 4 writes; `source[]` 19 tokens, 8 words, 3 strings, stack 1; cut, wrong, short and foreign files; 1.2 million states | a compiled program prints its source, a cut file never runs, only what does not fit is refused |
| `NotCAsBuilt` | 4096 words, 256 strings of 256, a stack of 32768 bytes | **violated**: the tables of `notc_compile` (`notc.c` 82) do not fit on the kernel's stack |

The bounds. Three slots make the ring wrap, be full with two characters, and be empty; two
bytes on the wire give both cases of the 8042's edge. A table of two with three names has a
full table, an unknown name, one and two administrators, and a deletion from either end.
Commands of two sectors and requests of three need two commands, the second shorter. Four
columns and three rows let a line of output wrap, fill a row exactly and scroll; a history
of two wraps after three lines. Lines of `TerminalScreen` are as long as a row, so that with
the prompt they wrap, and erasing them goes back to the wrap and over it. Five clusters are
enough to fill a volume, to stretch a directory (a cluster has four entries) and to make a
file of two clusters that are not neighbours, whose second one is where `tail` begins; the
prepared disks are empty, fragmented, full, with a directory that has no free entry, and
without a free count. In a buffer of 9 characters a path of four names is cut; reads of 2
characters end inside lines and words, and `tail`'s buffer of 4 is smaller than a file of 5.
The limits of NotC are each reached by a program one larger than they allow. The named
bounds that are no constants of the code are `WireMax` (what the keyboard and the 8042 hold
back), `PrintedMax` (erasures at a login prompt), and the number of commands or lines
(`Prepared`).

`ShellLines` uses a VIEW that drops `screen` and `said`: no action reads them, and only
action properties do, which TLC evaluates on every step before the view is taken.

Deadlock is not checked in `KeyboardRing` (a triple fault by a timer tick, or a wire that an
early key has filled and no interrupt empties), in `TerminalScreen` (three failed logins
halt the kernel), and in `VolumeFiles` and `ShellLines` (no command is left).

Fairness. `Keyboard`: strong fairness of the thread and of `TakeInterrupt`, because bytes
come milliseconds apart and a handler takes microseconds, so the thread runs and requests
are accepted between them again and again; strong fairness of `call_kinput`, because every
loop of the shell comes back to it; weak fairness of the handler's steps. It also assumes a
user who goes on typing: `kinput` tests and halts in two instructions, and only a later
interrupt wakes a thread that halted with a character in the ring. `Ata`: weak fairness of
the driver and of the drive, that is, a drive that gets on with its commands; `ata_wait_bsy`
has no limit and waits for ever for a drive that does not.

## 4. What is proved

TLAPS checks these for every value of the constants that the modules' assumptions allow. A
theorem that needs more states it as a hypothesis. Induction over data is out of the
provers' reach as the library states it, with a predicate for a parameter; `SetInduction`
states it about sets (a set that has 0, and the next number of each it has, has them all),
and what a scan, a loop or a row of the screen comes to for every length is proved from it.

- `KeyboardProofs`. `TypeCorrect`; `RingInvariant`: kinput is past its test only with a
  character waiting, between its two statements the slot still holds the character it read,
  and all slots between tail and head hold characters. The third is needed for an arrival to
  be an append, the second because the handler runs in between. `RingImplementsQueue` and
  `DropsFull` follow step by step. `BringUpSafe` is `FaultsOnlyInRemap`, with early keys and
  a running timer: until `lidt` every line is masked, from then on the timer's line is
  masked but between ICW1 and OCW1, and before ICW4 nothing is delivered; so the only vector
  ever taken without a gate is a tick between ICW4 and OCW1. `CharactersAsMeant` is
  `TypedAsMeant`: the invariant says that the driver's two flags, carried through the bytes
  on the wire, become the shift and caps lock the user has at the keyboard, and that each
  byte will be decoded with the flags it was typed under. It assumes one shift key and a
  caps lock key that does not repeat; section 5 has the two findings that make it necessary.
- `UsersProofs`. `UsersTypeCorrect`, with all faults; `SessionInvariant`, assuming that no
  card names a user twice. The invariant says that names are unique in the table and on the
  card, that while parsing the table holds lines already read, and that the session's entry
  has the cached role: without uniqueness `find_user` and `authenticate` may mean different
  entries. `AdminsRemain` assumes besides that every card somebody put there has an
  administrator (`CardsHaveAdmins`); disk faults and names with a ':' are arbitrary, and
  power may fail anywhere. Its invariant says that, as long as no administrator's line was
  lost, the card has an administrator among its first `MAX_USERS` lines, or no account at
  all; that while the card is parsed the table holds every administrator read so far and
  nothing but accounts of the card; and that a save has stored every administrator's line it
  has passed, in a form that can be read back. `UsersImplementAccounts`, the refinement of
  `Accounts`, assumes only unique cards: it holds for every disk fault.
- `AtaProofs`. `AtaTypeCorrect`, `DriverInStep` (assume that the drive answers within the
  poll limit) and `AtaImplements` (that it also has no write errors; the flush, the cache
  and read errors are arbitrary). The invariant relates the drive's position to the driver's
  in each of its states, the driver's variables to each other (`lba`, `count`, `p` and `s`
  count the same sectors), and the buffer to the disk up to the sector in transfer.
- `TerminalProofs`. `HistoryTheorem`: `HistoryIsLastLines` for every size of the ring. The
  inductive invariant adds that until the ring is full `hist_next` equals `hist_count` (the
  oldest line is then in slot 0, and listing it starts there); `AddLists` shows that adding
  a line appends it to the listing and drops the oldest of a full one.
  `TerminalTypeCorrect`: on a screen of any size the row, every pixel, the line, the names
  and the history stay in their buffers. `TerminalShowsText` is `ScreenShowsText` on a
  screen of any size. Its invariant says that the cells the text has not reached are dark,
  and that the cursor is where the text ends, modulo the row, all this as long as the cursor
  has not gone `astray`. It holds for every line, text and width, with nothing assumed of
  them: lines wrap, and may be erased as far as the wrap. The module assumes that a 32-bit
  count of pixels has room for more columns than the screen has (`Columns32 > Cols + 1`).
- `FileTreeProofs`. `TreeStaysATree`: no command and no power failure leaves a node whose
  directory is missing. `IsTree` speaks of every prefix of a path and not of its parent
  only, so that moving a subtree needs no induction over the length of paths. What holds for
  `FileTree` holds for `Shell` by the next theorems, and for `Volume` as far as TLC has
  shown that it implements it.
- `ShellProofs`. `ShellKeepsTypes`: whatever is entered, a path that `path_join` resolves
  fits into its buffer, for every size of buffer and stack, so that `cwd` never overflows,
  and the volume stays a tree. `ShellImplementsFileTree`: each line is one command of
  `FileTree`, with the text that the code takes from the line, or changes nothing. The way
  there: the segments that fit, with their slashes, are shorter than the buffer; a segment
  and its slash are two characters or more, so a path has less than half as many names as
  the buffer has characters; what has a place in the tree has no name that FatFs refuses.
  Such a path is one of `FileTree`'s `Paths`. The hypotheses are about the constants, and
  TLC evaluates them in `MCShell`: every volume one may start with is a tree of 8.3 names
  (`Volumes`), and `FileTree`'s parameters hold every path a buffer has room for and every
  text a line stores (`AllPaths`, `AllTexts`).

  That the command is the one the user meant, on the files that were meant, is
  `ShellDoesAsSaid`; where `cd` goes, `ShellGoesAsSaid`; that in a working directory that is
  gone no name below it does anything, `ShellStaleCwdIsHarmless`; that `head`, `tail` and
  `wc` show what the whole file has, `ShellShowsLines` and `ShellCountsWords`. They hold for
  all lines at once, of any length. Two more hypotheses: `Alphabet`, a name is no slash,
  dot, blank or '>', and the buffer is full before the stack of segments is (256 and 128);
  and `Faithful`, each line is written as its `said` says: a command and, with any blanks
  where the code skips them, a path of names, dots and slashes, a second one or a text. It
  defines a grammar (`OnePath`, `TwoPaths`, `PathAndText`, `TextAndPath`, `BareCd`), and is
  not about what the code does with the line. TLC evaluates both in `MCShell`, so every line
  of `ShellLines` is one of that grammar. The argument has five parts:
  - Taking apart: of a line of the grammar the code's `ArgOf`, `FirstWord`, `AfterWord`,
    `gt` and `Redirected` give back the pieces it was put together of.
  - Splitting: `Segments` of two strings with a slash between them is that of one and then
    that of the other, and of a path that was put together from segments it gives these
    back.
  - Walking: what `path_join` has on its stack after each segment is where `Walk` is after
    that name, as long as everything fits; and what `FatFs` makes of the joined string
    (`follow_path`) is that place. This needs `Settled`, a new part of the inductive
    invariant: `cwd` is a string that `path_join` would leave as it is.
  - Each command then changes the tree by `TreeAfter`, moves `cwd` or shows what it reads.
  - The loops over reads are one loop over the file, whatever a read fetches (`ReadsFold`);
    `wc`'s counters are then the counts of the characters before, and `head`'s output the
    beginning that ends before the last newline it may print. `tail` starts at the place
    from which there are as many newlines as it may print, in its buffer (`IsTailStart`); in
    a longer file that place is not before the one it would be in the whole file.
- `NotCProofs`. `NotCTypeCorrect`, `NotCInvariant`, `NotCCompilesTheSource`,
  `NotCShortNeverRuns`, `NotCPrintsTheSource` and `NotCRefusesOnlyNonPrograms`, for all
  sources, files and limits. The
  invariant follows the strings of the source through the compiler's tables, the file (code,
  then table, with the header's offsets), `data[]` and the loaded program into the
  interpreter, where the output is the strings up to `ip`. It counts the words and
  strings compiled as statements read, which gives the last theorem: a compiler out of room
  has a source that is too long for that buffer.

The runs check on small instances what the theorems say in general. Only model-checked:

- liveness, for which TLAPS has no rule here: `EveryByteRead`, `EveryCharReturned`,
  `EveryRequestReturns`;
- all of `Volume`: `TypeOK`, `CrashSafe`, `NothingLost`, `DoneUnlessFull`, `ShowsTheTree`,
  `ImplementsFileTree`. The loops of FatFs are RECURSIVE operators, for which tlapm has no
  backend. Every other safety property that a passing run checks is a theorem.

## 5. What was found

Three runs are violated: `UsersAsBuilt` (`user.card` is no 8.3 name and `FF_USE_LFN` is 0,
so the card is never found or saved, and `root:root:admin` always applies), `AtaFlush` (the
flush is given to a busy drive) and `NotCAsBuilt`: `notc_compile` has 82,944 bytes of tables
on a stack of 32,768 (`notc.c` 82-87, `boot.asm` 4 and 13), so its first call writes some 50
KB below the stack, into what lies in front of `.bss`; nothing checks, for `build.py` asks
for no stack probes. What follows was met while modelling. A name in parentheses is the
constant that brings it back in the runs, or the definition in which it can be seen.

Keyboard, users, disk:

- Releasing one of two held shift keys ends the shift (148; both keys in `KeyboardRing`).
- The repeats of a held caps lock key toggle it again (152; `Typematic`).
- With the timer left running, a tick during `pic_remap` ends in a triple fault (198-202;
  `TimerRunning`, and `FaultsOnlyInRemap` says that this is the only fault).
- A save reports success although a full disk (353) or a write error at `f_close` (356) has
  kept it from being stored, and may leave a card without an administrator (`Faults`,
  `adminLost`). `AdminRemains` shows that nothing but such a loss, a read error or a ':'
  costs the last administrator.
- A ':' in a name or password makes the saved line unreadable (880; `Colon`): an
  administrator of such a name is gone after a boot.
- After a timed-out command the drive answers the next read with the old command's sector,
  and `disk_read` returns RES_OK (`ide.c` 39; `Slow`).
- An error of the last sector of a write is not noticed (`ide.c` 87; `WriteErrors`).
- A backspace in column 0, that is, behind a line that has wrapped, underflows
  `fb_cursor_x`: the character stays on the screen, and the next one is drawn outside of it
  (1187; `astray`, which `TerminalScreen` reaches).

Files:

- `cp f f` truncates `f`, and `mv d d/e` cuts `d` off from the tree, its clusters lost (678,
  703; `Careful`).
- A power failure during `mv` may leave the file under both names, and one while a directory
  is being stretched may leave entries of old data in it (`Renaming`, `Stretching`).
- A command that fails half way (`f_mkdir` with a full directory, for one) leaves the FAT
  sector it has changed back in the window; `umount` forgets the window, and the cluster is
  lost (`whole`). FSInfo on the disk is then older than the FAT.
- `rm` removes empty directories and `rmdir` removes files: both are `f_unlink`
  (`README.md:201` says "Delete a file").
- A path ends at its first blank, since `create_name` ends it there: `mkdir a b` makes `a`,
  `rm a b` removes `a`, `echo x > b > c` stores in `b`, and after `cd a b` relative names
  are those of `/a` (`UpToBlank`).
- `path_join` drops the segments that do not fit, so that in a `cwd` of some 250 characters
  `rm x` asks for the removal of `cwd` itself (261; `Clear` leaves these paths out).
- `echo > f` is refused and `echo x>` prints its '>' (1059); `write f a>b` is taken for a
  redirection (`Refused`).

NotC:

- `notc` prints "compiled to" although `f_write` was short (1003); that `notc_load` refuses
  such a file (`ShortNeverRuns`) is what saves it.
- `notc_load` does not hold `code_len` against the file (`notc.c` 21): a foreign file runs
  what the last one left in `data[]`, or what lies behind it. `PrintsTheSource` shows that
  no file of notc's own does.

## 6. Not modelled

- `hexdump`, which reads as `cat` does, and the commands that print constants: they format.
- `ide_sector_count` and the constant answers of `disk_initialize`, `disk_status` and
  `disk_ioctl`.
- What of `ff.c` nothing calls or `ffconf.h` leaves out: `f_lseek` of a file that is
  written, `f_truncate`, `f_mkfs`, FAT12, FAT16, exFAT, long names, volume labels; and the
  code page tables of `ffunicode.c`.
- The C library: straight-line loops. The bump allocator has no caller in what runs.
- Boot assembly and Limine requests (their order is in `Keyboard` and `Users`), the serial
  console, the GUI port and GuiLite (linked, never called), the build script.
- Sources that no build compiles: `src/src/*.c`, `atascii.c`, `pci.c`, and the ext4, AHCI,
  NVMe and PCI headers. `src/src/ff.c` is a second copy of FatFs.

Most lines of the repository are in the last two groups and in `ffunicode.c`, and have no
behaviour to model. Of `kmain.c`, `irq1.asm`, `ide.c`, `notc.c` and the part of `ff.c` that
the kernel reaches, the models cover nearly every function with a state.

What would come next: the disk errors of `Ata` under `Volume`, the user's card as a file of
`Volume` (here `Users` sees FatFs through the results of its calls), and `Volume` with its
loops as functions, as `Shell` has them, so that `CrashSafe` could be proved.
