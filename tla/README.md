# FlexProp in TLA+

FlexProp is an IDE for the Parallax Propeller boards: a Tcl/Tk program that edits
sources in tabs, runs an external compiler and loader, and shows the output of
the board in a terminal window that also draws debug windows. Two C launchers
start it, and it is delivered with programs for the board, of which four have a
logic of their own: a client for files of the host, a Lisp interpreter, a shell
that copies files, and a server of assembly loops that blink lamps. This
directory holds TLA+ models of them, the TLC configurations that check them, and
theorems with proofs for TLAPS. Paths such as `gui.tcl` are below `src/src/`;
`fs9p.cc` is in `src/samples/fileserver/`, `lisplib.c` in `src/samples/proplisp/`,
`shell.c` in `src/samples/shell/`, `led_server_asm.c` in `src/samples/`.

## 1. The program and its parts

FlexProp is one process with one Tcl event loop. A handler (a menu command, a
button, a key) runs to its end before the next one begins, with two exceptions
that make it concurrent: a handler that waits in `tk_messageBox` or in a file
dialog serves events while it waits, and the disk, the compiler, the loader and
the board are other processes that act at any time.

| part | state | operations | talks to |
|---|---|---|---|
| **Editor** (`gui.tcl`, `project.tcl`, `ctext/ctext.tcl`) | tabs, `filenames(w)`, text, `ar(modified)` and undo stack of each, `filetimes(name)`, `config(autoreload)` | new, open, click on a link, new project, edit, undo, redo, save, save as, close, exit, save before compile, reload on focus | files on disk, other programs |
| **Build** (`gui.tcl`) | `BINFILE`, `curProj` | compile, make zip, run, flash, load binary, special commands | Editor (calls `saveFilesForCompile`, reads `filenames`), compiler, loader, terminal |
| **Terminal screen** (`tkterm.tcl`) | cursor, rows, columns, parser state, attributes | `term_recv` of ANSI and PST bytes, resize, clear | Debug windows (a line that begins with a back-quote) |
| **Terminal session** (`tkterm.tcl`) | pipe, its fileevent, the window, blink timer | `RunInWindow`, `Terminal_Data`, `close_term`, `force_close_term`, `term_send` | loader process, screen, debug windows |
| **Debug windows** (`debugwin.tcl`, `debug_*.tcl`) | windows, a command queue each | create, feed, update, close | screen |
| **Configuration** (`gui.tcl`) | `config`, the configuration file, the dialog's `shadow` | `config_open`, `config_save`, options dialogs, session restore | Editor, Build |
| **Search and replace** (`gui.tcl`) | cursor, highlighted match, text | next, replace, replace all | Editor's text |
| **Library paths, ports, IP entry** (`pathbox.tcl`, `ipval.tcl`, `checkserial.tcl`) | lists of paths, ports, saved addresses | edit, rescan | operating system |
| **ctext** (`ctext/ctext.tcl`) | tags, line map | highlighting | Editor |
| **Launchers** (`flexprop_win.c`, `flexprop_native.c`) | arguments, place of the executable, environment, packages | `setargv`, `fixup_argv`, `Tcl_AppInit` | the system, the interpreter |
| **File client** (`fs9p.cc`, `test9p.c`) | `maxlen`, `txbuf`, an offset per handle | `fs_init`, `fs_open`, `fs_create`, `fs_close`, `fs_read`, `fs_write` | a 9P server on the host, by a serial line |
| **Lisp** (`lisplib.c`, `lisp.c`, `cell.h`) | cells and free list, environment, the machine stack | read, evaluate, print, allocate, collect; the line editor | its arena, a keyboard |
| **Shell** (`shell.c`) | current directory, mounts, `tempname`, `tempdir`, the open files | one command a line: copy, list, delete, rename, make, mount, format, execute | the user's line, file systems, programs on the host |
| **LED server** (`led_server_asm.c`, its twins `_pasm.c`, `.bas`) | a mailbox of three longs to a cog, the cog's registers | `update_mbox`, the loop of the cog | shared memory without a lock |
| fonts, tooltips, packaging, other samples | none of interest | | |

What is hard here, and what makes each part correct:

* *Editor.* What the tab shows, what the file holds, the modified mark and
  `filetimes` are four records of the same thing, kept by ten handlers, while
  other programs write the file. Correct is: the mark tells whether the text was
  changed; `filetimes` tells whether the file was; a modified tab is not closed
  without a question; the compiler reads what the tabs show. The hard cases are
  two tabs of one file, two names of one file, failing and refused saves, changes on
  disk while a dialog waits, and a Tcl error in the middle of a loop over the tabs.
* *Build.* `BINFILE` decides both what is loaded and, through `currentFile`, what
  is compiled; seven handlers set or clear it. Correct is: what runs is what was
  just compiled, and what was compiled is what the tab showed. Flashing asks a
  question between the two, during which tabs are reloaded and files written.
* *Terminal.* Bytes arrive in arbitrary pieces; the cursor can be moved anywhere;
  a Tcl error in a fileevent silences the terminal. Correct is: the cursor stays
  on the screen, the screen keeps its shape, a piece boundary makes no difference,
  and only what is malformed, or off the screen, silences it.
* *Session and debug windows.* The child may end, the window may be closed and a
  new run started in any order, and a line of output may make a window, be queued
  for it, or end in a Tcl error, also in the middle of making one.
  Correct is: while the terminal listens, what it shows and what waits in the pipe
  is what the program printed; a channel ends with its program; nothing is
  left behind by a window that is gone.
* *File client.* The server may refuse, or move less than it was asked to, in the
  middle of a transfer cut into messages. Correct is: a handle is a cursor in the
  file its path names, whatever the messages.
* *Lisp.* The collector sees the calls under way only by what is on the machine
  stack, and can come in at every allocation. Correct is: no cell in use is given
  away, and a program's answer does not depend on when collections come. A key
  typed ahead may reach the prompt, or be taken by the evaluation before it.
* *Launchers.* Quotes and backslashes, a guessed number of arguments, paths of
  any length. Correct is: the script gets the arguments that were meant.
* *Shell.* Calls fail, names and lines do not fit their buffers, and the host
  changes its files while a command runs. Correct is: what runs is what was typed,
  a command ends and leaves nothing open, and a copy is a copy.
* *LED server.* A main program and a cog use three words of memory with no lock,
  only the order of their accesses. Correct is: a cog goes by whole settings, each
  taken once and in the order they were given.
* *Configuration.* What is saved is read back, also across versions.
* *Search.* "Replace all" replaces all, and only, matches.

`PROJECT.json` lists the single hazards with their source lines.

## 2. Modules

| module | what it is | source |
|---|---|---|
| `Editor` | the notebook of tabs and the files; its properties | `gui.tcl` 276-285, 472-733, 838-1161, 2326-2399, `project.tcl` 84-129, `ctext.tcl` 349-532 |
| `Build` | extends the handlers of `Editor` with `BINFILE`, `curProj`, the compiler and the loader | `gui.tcl` 154-167, 1205-1222, 2154-2415 |
| `TermScreen` | the lines, cursor and byte parser of the terminal window; its properties | `tkterm.tcl` 306-1055, `gui.tcl` 1703-1706 |
| `TermSession` | the terminal's window, pipe, fileevent and timer, and the debug windows | `tkterm.tcl` 645-676, 1044-1246, `debugwin.tcl` 253-346, `debug_term.tcl`, `debug_plot.tcl` |
| `Fs9p` | the 9P client and an external server | `fs9p.cc`, `fs9p.h`, `test9p.c` 49-82 |
| `HostFile` | what a program is promised of it: a cursor in a file; `Fs9p` implements it | |
| `LispHeap`, `Lisp` | cells, allocation and collection; reader, evaluator, builtins, printer, prompt | `lisplib.c`, `lisp.c`, `cell.h` |
| `Arena` | what the interpreter needs of its memory; `Lisp` implements it | |
| `Launcher` | from the command line to the running script | `flexprop_win.c` 94-519, `flexprop_native.c` 81-276, `p2debug.c` |
| `Shell` | the command line and the copies of the file shell | `shell.c` 148-480 |
| `LedServer` | main and the cogs, an access to shared memory a step | `led_server_asm.c`, `led_server_pasm.c` |
| `LedSettings` | cogs that take settings one by one; `LedServer` implements it | |
| `MCTermSession`, `MCFs9p`, `MCLisp`, `MCLauncher`, `MCShell`, `MCLedServer` | lines, paths, programs, command lines and calls for the runs | |
| `EditorDocs`, `BuildDocs` | statements of the documentation the code does not keep | `doc/help.txt`, comments |
| `Inductions` | induction over the natural numbers, and what a fold computes; the proofs rest on it | |
| `EditorProofs` | proofs about `Editor` and, on top of those, about `Build` | |
| `TermProofs`, `TermSessionProofs` | proofs about `TermScreen` and `TermSession` | |
| `Fs9pProofs` | proofs about `Fs9p`, and that it implements `HostFile` | |
| `ShellProofs` | proofs about `Shell` | |
| `LauncherProofs` | proofs about `Launcher` | |
| `LedProofs` | proof that `LedServer` implements `LedSettings` | |

### Editor

`tabs`, `select`, `filenames`, `text`, `modified`, `autoreload`, `filetimes` are the
program's variables of these names or, for the text widget, what its name says.
`exists`, `disk`, `mtime`, `clock` are the disk. A handler with a dialog or a loop in
it is several actions, and `op`, `cur`, `stage`, `needRead` say which handler it is,
at which tab, and what it does next:

| procedure | actions |
|---|---|
| `saveFileFromWindow` | `SaveFileFromWindow`, `AnswerOverwrite` (with `WriteFile`) |
| `saveFile`, `saveCurFile`, `saveFileAs` | `SaveCurFile`, `SaveFileAs`, then the above |
| `closeTab`, `checkChanges` | `CloseTab`, `CheckChanges`, `AnswerSave`, `DestroyTab` |
| `exitProgram`, `checkAllChanges` | `ExitProgram`, `CheckChanges`, `AnswerSave`, `Leave` |
| `saveFilesForCompile` | `StartCompile`, `CheckUnnamed`, `CheckNamed`, `ReloadForCompile`, `AnswerReload`, `Compile` |
| `loadSourceFile` and its callers | `OpenFile`, `CreateLinked`, `CreateNewProject`, `NotCreated` (the new file cannot be written) |
| `doCompileFlash`, `doLoadFlash`, `doJustFlash` | `Compile` to the question or `LoadFlash`, `AnswerFlash` |
| `checkFocusIn`, `checkFilesForChanges` | `CheckFocusIn` |
| `createNewTab`, notebook, ctext | `CreateNewTab`, `SelectTab`, `Edit`, `Undo`, `Redo` |
| another program | `ExternalWrite`, `ExternalDelete` |

`Return` is what the caller of `saveFile` does next, `Advance` the next turn of a
loop over the tabs, `Abort` a Tcl error. `CheckFocusIn` is enabled whenever the
event loop is served (`Served`): between handlers and inside every dialog.
Writing can fail before or after `open ... w` truncated the file.

`Files` are names, not files. The code knows a file by its name: `filenames`,
`filetimes` and `getTabFor` compare strings, and the comment before `getTabFor` (`gui.tcl`:271-274)
says that it looks for a tab which contains the file. `Normal` are the names file dialogs,
the command line and `file normalize` give. `findFileOnPath` (871-924) gives the
normalized name of a file that it finds by a relative name; of a file that is not
there, and of an absolute link, it gives what is written in the link. So the
members of a set in `Aliases` are names of one file (`SameFile`), of which at most one is
normal: they are on disk together, with one text and one time (`PutFile`), but have a
`filetimes` element each, and a tab that has one of them is not found by another.

The branch of `checkFilesForChanges` that asks "Reload it?" is not in the model:
`checkFocusIn`, its one caller, calls it only when Auto Reload is on, and then it
does not ask.

Four history variables serve the properties only. `base[w]` is the version on
disk that tab `w` was last in step with (loaded or saved). `loose` are the tabs
whose tie to their file the code itself broke: their file's `filetimes` was moved
on behalf of another tab or of a question, or they were renamed and not yet
saved. `undone` are the tabs where undo or redo was used since. `asked` are the
tabs "Save file?" was asked about in the running handler.

Texts are numbers: a new text differs from all before it. The white space at the
end of a text that a save trims, and encodings, are left out.

### Build

`Build` conjoins each handler of `Editor` with its assignments to `BINFILE` and
`curProj`; `EditorOnly` are the handlers that have none. The compiler (`Makes`) and
the loader (`Load`) are external: the compiler fails or makes a binary from the
text on disk, the loader runs or does not start. `exec` does not serve the event
loop, so the compiler is one step with `Compile`, and for `doCompileRun` the loader is in
it too. `doCompileFlash` stops in it at `doJustFlash`'s message box, the stage `askFlash`:
the event loop is served there, `CheckFocusIn` reloads tabs, other programs write, and
`JustFlash` is the answer. `doLoadFlash` does the same with a binary that was picked
(`FlashBinary`). The second box, about Wi-Fi, comes before it and has the same answers.

`job` remembers from the compiler on what it was given, the text it read there and what
the selected tab showed then; `board` is what the last step gave to the loader. A
binary is known by the names that have its root (`Roots`): `x.spin` and `x.c` have one. The
listing window and options are not modelled; where `doListing` could end `doCompile`
with an error the model has the same outcome, a binary that is made and not run.

### TermScreen

`rows`, `cols`, `cur_row`, `cur_col`, `cur_state`, `cur_saw_cr` are the program's
variables of these names (rows count from 1, columns from 0, and `cur_col = cols`
is "the next character wraps"), `kind` is `config(internal_term)`, `lines` are the
lines of the text widget with the empty one Tk keeps at its end. `alive` says that
no Tcl error has happened in `term_recv` since the run began: after one, the
event loop deletes the fileevent and the terminal is silent.

A step is one turn of `term_recv`'s loop. `Receive` is its match of a run of printable
characters, and `FirstLine`, `FullLine`, `LastLine` are the three phases in which
`term_insert` writes it; `rest` and `writing` say what is still to be written and by
which phase. Where one read ends and the next begins matters to nothing else,
since all the parser knows is in variables, so a read is not an action.

| procedure | actions |
|---|---|
| `term_recv`, state `normal` | `Receive`, `CarriageReturn`, `LineFeed`, `Backspace`, `Tab`, `Escape`, `OtherControl`, the `Pst...` actions |
| `term_recv`, other states | `PstX`, `PstY`, `GatherEscape`, `CsiMove`, `CsiClear`, `CsiGraphics`, `CsiOther` |
| `term_insert` | `FirstLine`, `FullLine`, `LastLine` |
| `term_clear_to_eol`, `term_clear_to_eos` | `ClearToEol`, `ClearToEos` (in `CsiClear`, `PstClearToEol`, `PstClearToEos`) |
| `term_down`, `term_newline`, `term_gotoxy` | `TermDown`, `Newline`, `GotoXY` |
| `term_clear`, `term_init`, `RunInWindow` | `TermClear`, `RunInWindow`, `PstClear` |
| `term_resize`, the Options menu | `TermResize`, `ChooseKind` |

A character is blank or not; colours and attributes are left out, but that `ESC [ m`
with an argument such as `31:` is a Tcl error is not (`CsiGraphics`): it compares as one
between 30 and 37, and `expr` at 794 or 801 takes it for no number. A line that
begins with something other than a blank may be a debug command. The argument of
an escape sequence is chosen when its last letter comes. `Overwrite` is Tk's
`delete` and `insert` with indices outside the text taken to its nearest place.
`BlankBelow` is the loop of `term_clear_to_eos` in closed form. `last` is a history
variable for one property.

### TermSession

`toplev`, `term_pipe` are the program's; `open`, `readable`, `eof` are what Tcl knows of
the channels (`eof` is set by the read that meets the end, not when the program
ends), `unread` is what waits in one. Tcl runs one handler at a time and none of
these waits, so each handler is one action, with all it calls:

| procedure | actions |
|---|---|
| `Terminal_Data`, `term_recv`, `term_newline` | `Terminal_Data` (`Reads` with `Shows`, or `ReadsEnd` with `close_term`) |
| `RunInWindow`, `term_create`, `term_clear` | `RunInWindow`, both when the program starts and when `open` fails |
| `force_close_term`, the `<Destroy>` binding | `UserCloses`, `term_send` at the end of file (`Destroy`, `close_term`) |
| `term_timer` | `term_timer`; a blink that finds the window changes nothing here |
| `RunCmd`, `QueueCmds`, `TermCmd`, `PlotCmd` | the operators of these names, in `Shows` |
| `DestroyWindows` | `DestroyWindows`, in `close_term` |
| program, user | `ProgramPrints`, `ProgramEnds`, `ClosesDebugWindow` |

Output is lines, and a read takes up to `Chunk` of them; that a read can end within
a line is `TermScreen`'s subject. A line is plain, makes a window, or has words for
windows: text, `update`, `close`, others, which as numbers draw a character and
as names are an error, and bad ones, such as `origin` without its numbers, which are an
error in a plot too. A line that makes a window may have a flaw: an `early` one is an
error before the toplevel is there (a colour of a term window that is no number),
a `late` one after it (a colour or a size that Tk does not take), which leaves the
toplevel on the screen with no array set (`bare`). `RunCmd` works on a value with a
field `ok`, FALSE from the error on, so that what it did before the error stays. Names of windows are not
empty: with an empty one, and words that are only names, the loop at
`debugwin.tcl`:278 never ends.

Things the code does that the model has too, and a reader may not expect:
`debug_scope.tcl` is never sourced, so the first word for a scope window is a Tcl
error; `close` of a plot calls `delete`, which is no command; `cmd_queue` is
initialised under the window's name and used under its path, so it survives
`DestroyWindows`, and `update` as the first word of a delayed window is an error;
a new run keeps the debug windows of the old one, so its own `term` line of the same
name is ignored. A window whose making failed is in no array: `DestroyWindows` passes
it, so it outlives the terminal, although the comment at `tkterm.tcl`:1111 is "destroy any
debug windows associated with this instance", and until the user closes it no other
window of its name is made. `debugwin` is one array for the whole program anyway.

### Fs9p and HostFile

`maxlen`, `txbuf` and `off` (`offlo`, `offhi`) are the program's; `call` is the library
call that runs and its local variables; `fids` and `host` are the server's. One
action is the code between two exchanges: `VersionReply`, `WalkReply`, `MoveReply` and so
on read the reply, `WalkStep`, `SendOpen`, `MoveStep` write the next request. The server
may refuse any request, answer a read or a write with less, or claim a count
that was not asked for. A message is a record, and `SizeOf` its bytes.

`HostFile` knows no messages: a handle has a file and a position, `Read` and `Write` move
some bytes and the cursor. `IsHostFile` maps an open fid to its file, the offset and
the bytes of a reply not yet looked at to the position, and what a call has still
to write, or has read, to the buffer.

Not in the model: `fs_walk` and `fs_open_relative` from a directory of the program's
own; records that are not zero at first; names longer than a message, where
`do_fs_walk` can write up to four bytes more than `maxlen` (the count at line 151 is
taken before the two length fields). `fs_create`, whose comment in `fs9p.h` is "create a
new file if necessary, or truncate an existing one", leaves the offset of a record
that was used before as it was, and so do model and `HostFile` (`Rewind` may be absent).

### Lisp, LispHeap and Arena

The C functions are recursive; here the calls under way are a stack of frames,
each with the pointer variables that the rest of its function still needs. A step
goes to the next call, return, write or allocation, so a collection can come
wherever the code allocates. What the collector starts from is the environment and
the pointers in the frames. A collector that scans the stack may find more, which
is harmless to what is checked; it finds no less as long as each pointer that a
function still needs is in memory when `doGC` runs. `doGC` does not save the registers, so
this is an assumption on the compiler: none is held only in a register that the
functions on the way to `doGC` leave alone. The assumption is one constant where it is known to
matter, for the operands of the allocation under way (`ScanOperands`). `AllocPair` turns
them into shifted numbers before it allocates, so where nothing else holds them a
compiler may leave no pointer on the stack; with `ScanOperands = FALSE` `FreeListOK` and
`Answers` fail, as `Cons(x, NULL)` in `ReadListFromString` does with its item.

| functions | actions |
|---|---|
| `Lisp_Init`, `Lisp_DefineCFunc`, `doDefine` | `InitStep`, `DefineStep` |
| `Lisp_Run`, `ReadItemFromString` and what it calls | `RunStep`, `ReadStep`, `StringToNum`, `CNum`, `ReadQuoted`, `ReadString`, `ReadList` |
| `Eval`, `Apply`, `applyLambda`, `DefineArgs`, `EvalList` | `EvalStep`, `ApplyStep`, `Scope`, `Bind`, `BindList`, `DefineArgs`, `BodyStep`, `EvalListStep` |
| `applyCfunc` and the builtins | `CFuncStep`, `Tests`, `Arithmetic`, `GCFree`, `ConsStep`, `Lambda`, `Controls`, `AppendStep`, `SetBang`, `Sequence`, `While` |
| `Lisp_Print`, `PrintList`, `NumToString` | `PrintStep`, `PrintListStep`, `PrintEnd`, `NumToString` |
| `getOneLine`, `REPL` | `Typed`, `Backspace`, `Enter`, `Prompt`, `Quit` |
| `peekchar` and `longjmp` in `Eval` | `NoKey`, `LosesKey`, `Break` |

A key comes at the prompt, or before, while the last line is evaluated (`ahead` says
which keys of a program may). Each `Eval` begins by taking whatever has come, where
`USE_SETJMP` is on and `peekchar` is that of the Propeller builds: `^B` and `^C` go back to
`Lisp_Run`, and any other key is lost (`LosesKey`). At the prompt `^C` is the end.

A token is one character and one cell. `Arena` is memory without a free list: cells
appear, are written by the interpreter, and are forgotten; a cell that appears was
in use by nobody. `IsArena` maps it to the cells that can be followed to (`Live`).

Left out: strings and lists that are not closed, strings that go over the end of a
line (whose blanks `Enter` would put into them), redefining `#t`, `append` on a number
(its bits would be a tail), division by zero, lines longer than the buffer,
arenas too small for `Lisp_Init`. The programs of `MCLisp` are examples of
proplisp's README where the code does what it says. It does not for `(f)` in its
section on scoping (2 there, 99 by the code), for the body `'(y x)` at 127-130 (`(b 1)` there, while
the code prints the quoted list as it is, `(y x)`) and for `begin`, which evaluates the
values of its arguments a second time (`lisplib.c`:1028 and `Sequence`); and `"(a ())"` is
read without its last item (`lisplib.c`:671).

### Launcher

`argv`, `arg`, `p`, `inquote` and `used` are `setargv`'s; a turn of its inner loop is `NextChar`, of
its outer one `NextArg`. `Main` and `fixup_argv` are the functions; `Tcl_AppInit` initialises
one package a step, and may fail at each. The command line is either anything, or
what a program makes of a list of arguments by the usual quoting (`CommandLine`).
`Documented` restates the rules of the comment at `flexprop_win.c`:325-330.
The test at line 485 compares a length of at most `MAX_PATH` with twice that, so it is
never true, and a path that is too long is used as it was cut; a blank command line
is left out; an executable in the root directory keeps its own name in the path.

### Shell

`line` is what stands in the terminal's input, `cmd` what `parse_cmd` made of `cmdbuf`
and the variables of the call that runs, `at` where it stands. `cwd`, `mounted` and
`disks` are the library's: a tree of directories and files for each medium. Text
is a sequence of symbols, and a name is one symbol, so the sizes of `cmdbuf`
(`LineSize`) and of `tempname` and `tempdir` (`PATH_MAX`) count symbols.

| function | actions |
|---|---|
| `main`, `fgets`, `parse_cmd` | `Types` (the user), `Prompt`, `Leave` |
| `main`'s commands of one call | `Cd`, `Del`, `Mkdir`, `Rmdir`, `Ren`, `Exec`, `OtherCommand` |
| `do_mount`, `do_mountfat`, `do_umount`, `do_mkfs` | the actions of these names |
| `do_dir` | `do_dir`, `ListEnd` |
| `do_copy` | `do_copy`, `OpenDest`, `CopyByte`, `CopyEnd`, `ReadError` |
| a program on the host | `HostChanges` |

A call may fail whenever the library says it may; `quiet` remembers that one did,
or that the host changed something, and the properties on what a command does to
files hold for quiet commands. A null argument is a name no command line gives.

Things the code does that the model has too: `strrchr(src, "/")` at `shell.c`:234
searches for an address and not for a slash, so that `copy /host/x.bin /sd` writes
`/sd//host/x.bin` or to a name cut somewhere else, and not `/sd/x.bin` as the comment
above it says (`Basenames`); `mkfs /ram`, which the shell's README lists, is an
unknown mount point to `do_mkfs`; and a trailing blank belongs to the second argument.

### LedServer and LedSettings

`mbox`, and `pin` and `delay` of a cog, are the program's; `todo` are the calls of
`update_mbox` still to be made. Every access to hub memory is a step: `PutPin`, `PutDelay`,
`PutCmd`, `Noticed` of main, `Poll`, `GetPin`, `GetDelay`, `Ack` of a cog, which between two
blinks (`Toggle`, `WaitCt1`) does the rest of its loop. `LedSettings` has no mailbox: a
setting is asked for, and taken whole. A cog takes it when it reads the pin; for the
one access until it has the delay, the refinement reads the delay in the mailbox.

## 3. Properties and runs

All runs but `Fs9p` and `LedServer` set `CHECK_DEADLOCK FALSE`: the program may exit, the bounds on tabs,
texts and the clock end every behaviour of `Editor` and `Build`, a terminal whose
parser failed takes no more bytes, no program is started after `MaxRuns`, and a Lisp
program, a launcher and a shell end.

| run | bounds | properties |
|---|---|---|
| `EditorShared` | 1 file of 2 names, 1 of them normal, 2 tabs, 1 new text, 1 second | `TypeOK`, `CleanShowsBase`, `NoticesChange`, `CompilesWhatTabsShow`, `NoUnaskedClose`, `OpenMakesNoDouble`, `HandlerEnds` |
| `EditorFiles` | 2 files, 1 tab, 2 new texts, 2 seconds | `CleanMeansOnDisk`, `AskedBeforeOverwrite` |
| `BuildShared` | 1 file that is a project, 2 tabs, 1 new text, 1 second | `BuildTypeOK`, `RunsThisBuild`, `ProjectGoesWithItsTab`, `RunsWhatTabShows` |
| `TermScreen` | 2 rows, 2 or 3 columns, runs of at most 4 characters, at most 3 lines, cursor at most 1 off the screen | `TermTypeOK`, `SawCrIsLast`, `KeepsFrame`, `StaysOnScreen`, `FailsOnlyOffScreen`, `PrintsInOrder` |
| `TermSession` | 2 programs, 3 lines each of 11, reads of 2 lines, 2 names | `OutputInOrder`, `NothingLeftBehind`, `EndsWithProgram` |
| `Fs9p` | 1 handle, 2 paths, files of up to 3 bytes, 1 or 2 bytes to a message, words that wrap at 3 | `Progress`, `FitsMessage`, `HandleNamesItsFile`, `ShortMeansEnd`, `IsHostFile`, `CallsEnd` |
| `Lisp` | 10 programs, arenas of 150, 160 and 171 cells | `FreeListOK`, `Answers`, `IsArena`, `Ends` |
| `Launcher` | command lines of up to 5 characters, 1 or 2 arguments of up to 3, 4 executables | `ParsesAsDocumented`, `StartsItsScript` |
| `LedServer` | 2 cogs, 3 calls of any cog, 2 pins and 2 delays, or the 4 calls of `led_server_asm.c` | `IsLedSettings`, `BlinksAsTold` |
| `Shell` | 2 lines, lines of up to 9 symbols, names of up to 3, files of up to 2 bytes | `RunsWhatWasMeant`, `LeavesNothing`, `CopyCopies`, `CommandsEnd` |

Why these bounds are enough: every interference in this code is between one
handler and one change it has not seen, about one file. Two tabs of one file give
the case of a shared `filetimes` element, or by two names that of a file with two
elements; two files and one tab give the case of Save As onto a file that is there. The
texts are the empty one, which a write that fails and another program leave, the
one a file has at first, and one, or two, typed here or written there. Three tabs or
more texts repeat these. `Aliases` and `Roots` in `Build`, whose run has one file, are
left to the proofs. For more files, tabs and seconds, longer
paths, names, files and lines, more programs and windows, the proofs answer: the
safety properties of all runs but `Lisp`, and the refinements of `Fs9p` and
`LedServer`, are theorems too.
On the screen, a run of 4 characters on 2 columns has a first, a full and a last
line and scrolls; 3 lines are the screen and the empty one, so from a screen that
`term_clear_to_eos` has lengthened, or a cursor farther off than 1, only a new run or
another size goes on.
Three lines and reads of two give a read that is full, one that is not, and one
that meets the end; two programs give an old one's windows and queues. A transfer
of three bytes by one or two, with words that wrap at three, has chunks, short
answers and a wrap in one call. With 150 cells most programs collect several
times, with 171 few: the sizes move the collections through the program.
Three calls to two cogs have every order of two calls to one cog with one to the other
in between; two lines in the shell are a command and one that meets what it left,
and `LineSize` and `PATH_MAX` are such that some lines and names fit and others do not.

* `CleanShowsBase`: no modified mark means the tab shows the version it was last
  in step with; undo and redo are excepted because ctext does not mark them.
* `NoticesChange`: a tab is in step with the file, or `mtime > filetimes` says it is
  not. It is what every question about changed files rests on.
* `CompilesWhatTabsShow`: when the compiler starts, the files hold what the tabs
  show, or are newer than the tabs were looked at.
* `NoUnaskedClose`: a modified tab is closed, or left by an orderly exit, only after
  "Save file?" was asked about it. It does not say that the text is safe: after a
  yes and no name in the file dialog it is gone, and an exit that an error in
  `checkAllChanges` ends is excepted, since `exitProgram` catches it and asks no further.
* `CleanMeansOnDisk`: the mark goes only with the text on disk, or the tab with it.
* `AskedBeforeOverwrite`: with Auto Reload off a version the tab has not seen is not
  overwritten without a question; what comes while that question waits is.
* `OpenMakesNoDouble`: opening never makes a second tab of a file, but for a name in a link
  that is not the normalized one: such a link to a missing file, clicked twice, does.
* `HandlerEnds`: every handler comes to its end.
* `RunsThisBuild`, `RunsWhatTabShows`: what is loaded on the board, at once or after the
  flash question, is the binary that this compile made of what it read, and that is the
  text the tab showed when the compiler ran. When the question is answered, Auto Reload
  may have changed the tab: what is flashed is then not what it shows by now.
* `ProjectGoesWithItsTab`: `curProj` does not outlive the project's last tab.
* `KeepsFrame`: while the cursor is on the screen, nothing but clearing to the end of
  the screen changes the number or the width of the lines.
* `StaysOnScreen`: only backspace, tab and the PST moves that assign the cursor
  without `term_gotoxy` take it off the screen.
* `FailsOnlyOffScreen`: with the cursor on the screen only a line end after a debug
  command can silence the terminal, a malformed argument of `ESC [ m`, or a line feed
  that is the first byte ever in PST mode, which reads `cur_saw_cr` before it exists.
* `SawCrIsLast`: in PST mode CR, LF and CR LF are one line end each, however reads
  cut them.
* `PrintsInOrder`: a run written by the three phases of `term_insert` shows what the
  characters one by one would. It compares screens after a pending wrap: a run that
  fills the last line exactly wraps at once when an earlier line wrapped, and with
  the next character otherwise, so there the cut between two reads is seen.

* `OutputInOrder`: while the terminal listens, `shown` and `unread` are what was printed.
* `NothingLeftBehind`: one channel, closed with its terminal; every debug window can
  be reached by its name, and so goes with the terminal, but one whose making ended in
  an error; a terminal blinks.
* `EndsWithProgram`: the channel of a program that ended is closed, unless a debug
  line has silenced the terminal.
* `Progress`, `ShortMeansEnd`, `FitsMessage`, `HandleNamesItsFile`: a transfer counts what it
  moved, a short read is at the end of the file, a message fits, a handle is on its file.
* `IsHostFile`, `IsArena`: the two refinements.
* `FreeListOK`: the free list has the cells it counts, none of them in use.
* `Answers`: a program prints the same, wherever collections come, and one of the
  answers expected wherever keys typed ahead and breaks come.
* `ParsesAsDocumented`, `StartsItsScript`: the arguments are those of the comment and
  those that were meant, written within their block; the script beside the
  executable gets them.
* `IsLedSettings`, `BlinksAsTold`: whole settings in order; and after the last, a blinking lamp.
* `RunsWhatWasMeant`: the words typed are the command, unless the line was cut.
* `LeavesNothing`: no way out of a command leaves a file open, or the user elsewhere.
* `CopyCopies`: without a failure, source and destination are the same.
* `HandlerEnds`, `CallsEnd`, `Ends`, `CommandsEnd`: each handler, library call, Lisp program
  and shell command ends.

**Where the exceptions are.** `loose` and `undone` are exact: they mark the steps by
which the code gives up the tie between tab and file, and each property holds for
every other tab. `SameSecond = FALSE` excludes one more, that another program writes
within the second of our own look at the file: times have whole seconds and such
a write is never noticed. It also stands for a write between the read and the
`file mtime` of `loadFileToWindow`.

**Fairness.** `HandlerEnds` has weak fairness of `Handler`, the steps of a handler that
has begun, answers to questions included: the event loop runs a handler to its end,
and a modal message box
keeps the rest of the program waiting until it is answered. `EndsWithProgram` has
weak fairness of reading: the event loop serves a readable channel. `CallsEnd` has
weak fairness of client and server: `serSendRecv` waits without a limit, so a
server that never answers blocks the program for good. `Ends` has weak fairness of
the interpreter's next step. `BlinksAsTold` has weak fairness of main and of each cog,
each of which has a processor of its own; `CommandsEnd` of the command that runs, since
nobody else has the processor. A read that fails, typing, other programs, the child and focus events
are not fair.

### What the documentation says and the code does not do

| run | statement | what happens |
|---|---|---|
| `DocsSavedBeforeCompile` | `doc/help.txt`:75, the current file "will be saved automatically before any compilation" | save, undo, compile: undo does not set `ar(modified)`, the file is not written |
| `DocsCompilesSelected` | `doc/help.txt`:75, the selected tab "is always the one compiled" | the second compile in a row is given `x.binary`, since `currentFile` answers `BINFILE` |

More things the code does, in the models but without a run of their own: a link to a
missing file that is clicked twice makes two tabs of it (`gui.tcl`:923, while `getTabFor` at 271-274
is to find the tab that contains a file); a debug window whose making failed outlives the terminal
(`debug_plot.tcl`:223, and `tkterm.tcl`:1111); Save As
onto a file that was never opened ends in a Tcl error at `gui.tcl`:556 (`NoTime`), since
`filetimes` has no element for it; and clearing to the end of the screen
(`term_clear_to_eos`, 353) pushes old text below the screen, from where scrolling brings
it back.

## 4. Proofs

TLAPS proves, for every value of the constants the modules' assumptions allow (any
number of tabs, files, texts and seconds; any size of the screen and run of
characters; any programs, lines, reads and windows; files, paths and messages of any
size; any media, names and lines typed; any command line, arguments and executable):

| theorem | statement | assumption beyond those of the modules |
|---|---|---|
| `TypeCorrect` | `Spec => []TypeOK` | |
| `CleanShowsBaseHolds` | `Spec => []CleanShowsBase` | |
| `NoticesChangeHolds` | `Spec => []NoticesChange` | `SameSecond = FALSE` |
| `CompilesWhatTabsShowHolds` | `Spec => []CompilesWhatTabsShow` | `SameSecond = FALSE` |
| `NoUnaskedCloseHolds` | `Spec => NoUnaskedClose` | |
| `CleanMeansOnDiskHolds` | `Spec => CleanMeansOnDisk` | |
| `OpenMakesNoDoubleHolds` | `Spec => OpenMakesNoDouble` | |
| `AskedBeforeOverwriteHolds` | `Spec => AskedBeforeOverwrite` | `SameSecond = FALSE` |
| `BuildImplementsEditor` | `BuildSpec => Spec` | |
| `BinaryIsThereHolds` | `BuildSpec => []BinaryIsThere` | |
| `RunsThisBuildHolds` | `BuildSpec => RunsThisBuild` | |
| `RunsWhatTabShowsHolds` | `BuildSpec => RunsWhatTabShows` | `SameSecond = FALSE` |
| `ProjectGoesWithItsTabHolds` | `BuildSpec => ProjectGoesWithItsTab` | |
| `BuildTypeCorrect` | `BuildSpec => []BuildTypeOK` | |
| `TermTypeCorrect` | `Spec => []TermTypeOK` | |
| `KeepsFrameHolds` | `Spec => KeepsFrame` | |
| `StaysOnScreenHolds` | `Spec => StaysOnScreen` | |
| `FailsOnlyOffScreenHolds` | `Spec => FailsOnlyOffScreen` | |
| `SawCrIsLastHolds` | `Spec => []SawCrIsLast` | |
| `PrintsInOrderHolds` | `Spec => PrintsInOrder` | |
| `OutputInOrderHolds` | `Spec => []OutputInOrder` | |
| `NothingLeftBehindHolds` | `Spec => []NothingLeftBehind` | |
| `TransfersAddUp` | `Spec => []Progress` | |
| `RequestsFit` | `Spec => []FitsMessage` | |
| `ShortReadsEnd` | `Spec => ShortMeansEnd` | |
| `HandleNamesItsFileHolds` | `Spec => []HandleNamesItsFile` | |
| `ClientImplementsHostFile` | `Spec => IsHostFile` | |
| `RunsWhatWasMeantHolds` | `Spec => []RunsWhatWasMeant` | |
| `LeavesNothingHolds` | `Spec => LeavesNothing` | |
| `CopyCopiesHolds` | `Spec => CopyCopies` | |
| `ParsesAsDocumentedHolds` | `Spec => []ParsesAsDocumented` | |
| `StartsItsScriptHolds` | `Spec => []StartsItsScript` | |
| `LedServerImplementsLedSettings` | `Spec => IsLedSettings` | |

The assumption `SameSecond = FALSE` is not a convenience: without it TLC refutes
`NoticesChange`, since a write in the same second leaves `mtime` as it was. The
assumptions of the modules are about the constants and say what the code and its
types say: `Fs9pAssumption` that paths are sequences of names, files of bytes, and a
message longer than the head of a read or write; `SessionAssumption` that a line is
plain, makes a window or has words for some; `LauncherAssumption` that a command line is a
text without a null character that has more than spaces in it (see Launcher above), that
there is at least the program's name to pass on, and that the executable has a name
without slashes; `ShellAssumption` that the media hold
trees of files and include the host, that a gap is of blanks, and that a typed word is
not empty, does not begin with a blank and has one inside only if it is the third.

**Induction.** The provers cannot use a theorem that takes a predicate as parameter, so
`Inductions` states induction about sets: `LeastNatural`, that a set of natural numbers
has a least, from the order being well founded, and `Inductive` from it. To prove
P(n) of all n one cites it for the set of the n with P(n). A fold of the
community modules is a recursive function inside; `FoldSolved` proves that it has a
solution, and `FoldSteps`, `FoldStays`, `FoldStaysIn` say what a property that each step
keeps says of the whole. What the modules compute with folds over lines, windows,
words and path names rests on these.

The argument. `TypeOK` is inductive, because it says for each `stage` that the tab
and file it works on are there. The safety invariants are not, and `SafetyInv` adds:

* `Blank`: a number that is not a tab has no file name, so a tab that is made
  starts without one, and closing one takes its tie away;
* `CleanAll`: `CleanShowsBase` also of tabs that are not there;
* `InStep`: a tab that is not loose has a `filetimes` element, and is in step or
  older than the file. A step that moves `filetimes[f]` makes all other tabs of `f`
  loose, and a step that writes `f` moves the clock forward, so `mtime` exceeds every
  `filetimes`;
* `WrittenClean`: in `saveFilesForCompile`, every tab already passed is unmodified;
  at `stage = "build"` these are all tabs, which with `CleanAll` and `InStep` gives
  `CompilesWhatTabsShow`.

`NoUnaskedClose` needs `AskedInv`: the tabs an exit has passed are asked about or
unmodified. For `Build`, the refinement `BuildImplementsEditor` carries the
invariants of `Editor` over, and `BuildInv` says that the names in `BINFILE` and
`curProj` are names of files, binaries or special commands. `FlashInv` and `FlashShows` say what
stays true while the flash question waits, whatever the editor does meanwhile: `BINFILE` names
a binary that was made of what `job` says was read, and that, but for what `Shown`
excepts, is what the tab showed.

The action properties of `Editor` follow from these invariants and the step. A mark
goes (`CleanMeansOnDisk`) by a write or a load only, and each leaves the file and
the text the same. A second tab of a file (`OpenMakesNoDouble`) comes of a file
name given to a tab; only `loadSourceFile` and Save As do that, and the first looks
for the name in the notebook, where `Blank` keeps names that are not in it from
counting. So the tab it makes has a name no other has; if another tab is of the same file,
the two names differ, and as a file has one normal name, one of them is not normal. A
file that is newer than the tab remembers (`AskedBeforeOverwrite`) is met with
a question because of `InStep`, which is where `SameSecond = FALSE` comes in.

For `TermScreen`, `TermTypeOK` is inductive. Beside types it says that a text has more
lines than the screen has rows, which `term_resize` relies on, and that `rest` is
empty exactly when nothing is being written. The lemmas are about the text: what
`Overwrite`, `Scrolled`, `BlankBelow` and the resized lines are, and how long. Each action
property is then proved from `TermTypeOK` and the step, one case per group of actions:
the lemma on `Overwrite` gives that a line written within its width keeps it, and the
one on `Scrolled` that a framed screen scrolls to a framed screen. `PrintsInOrder` compares
two computations of different length. `TypedRuns` solves the recursion of `TypedOn`;
`TypedBlock` says that typing n characters where the line has room fills n columns of it (`Block`);
`OverwriteFills` and `DownWraps` that `Overwrite` and `term_down` make the same block and the same
next line; and `TypedFrom` that two screens which agree once a full line is wrapped
agree after the same characters. Each phase of `term_insert` is then a block.

For `TermSession` the invariant adds to the two properties the types of the arrays of
`DebugWin` and how they go together: a window that was made has a class, a class has a
flag `delayed`, so that every such window can be found. A read is a fold over lines, a line over
windows, a window over words: `TermFold`, `QueueFold`, `SendFold` and `ReceiveFold` each prove that
the fold stays in the states in which the arrays agree (`Good`), a Tcl error in
the middle included, and `ShownGrows` that each line comes to `shown` once and in order.

For `Fs9p`, `IInv` says which request or reply may be in `txbuf` in each phase of a call
(`Exchange`: a case for each of version, walk, create, open, move), that a handle the
server has open is on a file that is there (`OpenFids`), and types, offsets
included: an offset is two words, and `Position` their value. `Progress` is part of
it, and the lemma it turns on is `AdvancedMoves`, that adding a count to the low word
and the carry to the high one adds it to the position. `RequestsFit` and `ShortReadsEnd`
follow from it. `ClientImplementsHostFile` maps each step to one of `HostFile` or a
stutter; a reply the client has not looked at yet counts as moved (`Taken`), so
the server's step is the one that moves the bytes. `HandleNamesItsFile` needs a second
invariant, `NamesInv`: what is behind the fid of a walk and what is still ahead of it
lead to the node of the path (`WalkLeads`, `OpenLeads`), name by name, by a walk to
`"."`, and by the fallback of `fs_create` to a walk without the last name. `NodeOf`, a fold
over the names, is proved to distribute over `\o`.

For `Shell`, `Intended` says that as long as the line was not cut, `cmd` is the command
and arguments that were typed. Below it is the proof that `parse_cmd` undoes the typing:
the line is the words with gaps of blanks between them (`LineShape`), and reading a
word from a text that begins with it gives the word and what follows
(`ReadsWord`, `ReadsNothing`, `ParsesLine`). `TypeOK` says of each medium that it is a tree of
byte strings and directories (`DisksOK`); `InUse`, which files are open and where the
user was in each phase of a command, gives `LeavesNothing`; `Copied`, that source and destination
agree up to the place the copy has reached unless a call failed or the host meddled,
gives `CopyCopies`. That a path is split and joined without loss (`NamesOfText`,
`NamesJoin`) is proved of the fold over its symbols.

For `Launcher`, what is proved is that two readings of a command line agree: the comment's,
character by character (`Step`), and `setargv`'s, which takes a run of backslashes and what
follows it at once. `ParseInv` says where in the documented reading `setargv` stands: between two
arguments (`Between`) closing that reading gives `argv`; within one (`Within`) the reading
has `argv`, `arg` and `inquote`, has no backslash pending and has not half a pair of quotes. It
also says that the runs of spaces that were passed pay for the arguments completed (`Paid`),
so that the guess of their number (`Guess`) never cuts one off, and that `used`, the characters
written, is behind the place that is read, so that the block is never overrun. The other half is
`CommandLineReads`, `Documented(CommandLine(args)) = args` for all arguments:
an induction over the characters of an argument, with the number of pending
backslashes in it (`QuotedReads`, `PlainReads`), and one over the arguments (`LineIs`).
`StartInv` then says that from `fixup_argv` on the script stands second, the arguments that
were meant come after it (`Told`), and that the script and the library are those of the
executable's directory (`RunsBeside`); `DirectoryOf` is the lemma on `MyRemoveFileSpec`.
The proof found an error of the model: a `CASE` of `fixup_argv` had two guards that may both
be true, which TLA+ does not order; there and in `Typed` of `Lisp` it is an `IF` now.

For `LedServer` the invariant is the protocol: while main waits, the mailbox holds the
message it wrote until the cog has zeroed `cmd`; a cog past its poll is the one main
waits for; and nobody but main, not waiting, changes pin and delay. With it each step
maps to `Ask` (`PutCmd`), `Take` (`GetPin`), `Blink` (`Toggle`) or a stutter.

The invariants of `Fs9p`, `Shell` and `LedServer` were checked by TLC on the
instances of the runs, from their initial states, before they were proved.

Only checked by TLC, not proved:

* `HandlerEnds`, `EndsWithProgram`, `CallsEnd`, `Ends`, `CommandsEnd`, `BlinksAsTold`: liveness under
  fairness is out of the provers' reach.
* `FreeListOK`, `Answers`, `IsArena`, all of `Lisp`. They are properties of programs that give a
  builtin what it is for, not of every program. `append` takes anything
  (`lisplib.c`:1037), and appending to a builtin, as in `(append head '(1))`, writes the tail of a
  cell whose tail `MarkUsed` (94-113) does not follow: after the next collection a later
  `append` to it writes to a cell of the free list. TLC shows that step
  against `IsArena` with this program, which is not one of the run's. A theorem would
  therefore assume something of the values programs compute, and rest on an invariant that
  says what every frame of the evaluator holds. `LispHeap` and `Lisp` also have `RECURSIVE`
  operators, which the provers do not take. Modules with theorems, and those they use,
  declare none.

## 5. What could follow

`Config`: `config_open`, `config_save` and its versions, the dialog's shadow, session
restore, with a restart between save and open. `SearchReplace`: replace all over a
short text against a reference definition of "all matches". Their hazards are in
`PROJECT.json`.

Proofs: `FreeListOK` and `IsArena` for programs whose calls of `append` get lists or
strings, once the recursive operators of `LispHeap` are functions.

## 6. Not modelled

Configuration and search are left out for the reasons `PROJECT.json` gives: straight
handlers that share nothing with the modelled parts but a list of names, and
positions within a text that `Editor` abstracts. Syntax highlighting, the line map,
fonts, menus, tooltips, the browser launcher, window geometry and what debug windows
draw (presentation); serial port discovery and the IP address entry (results of the
operating system); `do_indent` and `mapPercentEx` (string functions without state); Tcl
and Tk themselves; the other samples, which are demonstrations; packaging. The
compiler, the loader and the 9P server are external and appear only as what they
may answer.
