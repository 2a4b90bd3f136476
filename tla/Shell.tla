-------------------------------- MODULE Shell -------------------------------
(***************************************************************************)
(* The shell and its console: console.c, keyboard_read_str of keyboard.c,  *)
(* cmd_line.c and fs_terminal_commands.c. The shell shows its prompt,      *)
(* echoes and keeps the keys of a line, backspaces among them, splits the  *)
(* line and runs the command; cd, ls and cat resolve paths against the     *)
(* working directory and print.                                            *)
(*                                                                         *)
(* A cell of the console shows a character. Which command a word names is  *)
(* left open. If Unprotected, the clock's cursor is drawn in the middle of *)
(* console_putchar, and a backspace may be typed in the first cell.        *)
(***************************************************************************)
EXTENDS Integers, Sequences, SequencesExt

CONSTANTS xsize, ysize,
          Prompt,           \* what cmd_line_show_prompt prints
          Key,              \* the keys typed
          MAX_LINE,         \* KEYBOARD_BUFFER_SIZE - 1
          Output,           \* what a command prints
          Dirs,             \* the directories of the medium: sequences of names
          Paths,            \* arguments of commands: absolute or not, and parts
          NameLength,       \* of every name
          WORKING_DIRECTORY_PATH_BUFFER_SIZE,
          Unprotected

\* Characters with a meaning of their own.
Space == " "
Backspace == "back"
Newline == "new line"
FormFeed == "form feed"

\* What get_abs_path and its parts return when they fail.
NoPath == <<"error">>

ASSUME ShellAssumption ==
    /\ xsize \in Nat \ {0} /\ ysize \in Nat \ {0} /\ MAX_LINE \in Nat \ {0}
    /\ Newline \notin Key
    /\ \A string \in Output \cup {Prompt} : string \in Seq(ToSet(string))
    /\ <<>> \in Dirs /\ NoPath \notin Dirs
    /\ NameLength \in [DOMAIN NameLength -> Nat]
    /\ WORKING_DIRECTORY_PATH_BUFFER_SIZE \in Nat \ {0, 1}
    /\ \A path \in Paths :
        /\ path.parts \in Seq({".", ".."} \cup DOMAIN NameLength)
        /\ path.absolute \/ path.parts # <<>>

VARIABLES screen,       \* [xpos, ypos, cell]
          onoff,
          wiped,        \* not in the code: the screen was cleared since the prompt
          phase, str_buffer, words,
          cur_path, abs_path, parts

console == <<screen, onoff, wiped>>
paths == <<cur_path, abs_path, parts>>
shellVars == <<console, phase, str_buffer, words, paths>>

Cell == (0 .. xsize - 1) \X (0 .. ysize - 1)

Blank == [xpos |-> 0, ypos |-> 0, cell |-> [c \in Cell |-> Space]]

\* console_writechar. Off the screen it draws nothing.
Written(s, ch) ==
    IF <<s.xpos, s.ypos>> \in Cell
    THEN [s EXCEPT !.cell[<<s.xpos, s.ypos>>] = ch] ELSE s

\* console_putchar, in its parts: the character,
Moved(s, ch) ==
    CASE ch = Newline -> [s EXCEPT !.xpos = 0, !.ypos = @ + 1]
      [] ch = FormFeed -> Blank
      [] ch = Backspace -> [s EXCEPT !.xpos = @ - 1]
      [] OTHER -> [Written(s, ch) EXCEPT !.xpos = @ + 1]

\* the edges of the screen, of which only the lower one clears it,
Wrapped(s) ==
    IF s.xpos < 0 THEN [s EXCEPT !.xpos = xsize - 1, !.ypos = @ - 1]
    ELSE IF s.xpos >= xsize THEN [s EXCEPT !.xpos = 0, !.ypos = @ + 1] ELSE s

OffEnd(s) == s.ypos >= ysize

Cleared(s) == IF OffEnd(s) THEN Blank ELSE s

\* and the cursor, before and behind.
Put(s, ch) == Written(Cleared(Wrapped(Moved(Written(s, Space), ch))), "_")

Wipes(s, ch) == ch = FormFeed \/ OffEnd(Wrapped(Moved(Written(s, Space), ch)))

\* console_heartbeat between the character and the step to the next place.
PutInterrupted(s, ch) ==
    LET drawn == Written(Written(Written(s, Space), ch), IF onoff THEN "_" ELSE Space)
    IN Written(Cleared(Wrapped([drawn EXCEPT !.xpos = @ + 1])), "_")

Puts(s, string) ==
    LET shown[n \in 0 .. Len(string)] ==
            IF n = 0 THEN s ELSE Put(shown[n - 1], string[n])
    IN shown[Len(string)]

\* cmd_line_attempt: strip_backspace,
\* Mutant: a backspace takes nothing away.
KeepAll(line) == SelectSeq(line, LAMBDA ch : ch # Backspace)

Edited(kept, ch) ==
    IF ch # Backspace THEN Append(kept, ch)
    ELSE IF kept = <<>> THEN kept ELSE Front(kept)

Strip(line) ==
    LET kept[n \in 0 .. Len(line)] ==
            IF n = 0 THEN <<>> ELSE Edited(kept[n - 1], line[n])
    IN kept[Len(line)]

\* the first word of the line, as strtok splits it,
FirstWord(line) ==
    LET letters == {i \in DOMAIN line : line[i] # Space}
        from == Min(letters)
        to == Max({i \in letters : from .. i \subseteq letters})
    IN IF letters = {} THEN <<>> ELSE SubSeq(line, from, to)

\* and the rest, taken from the line as it was typed. A line of one word has none:
\* the code then reads from address 0.
AtNull == <<"?">>

\* Mutant: the space is part of it.
RestWithSpace(word, line) ==
    IF Len(word) = Len(line) THEN AtNull ELSE SubSeq(line, Len(word) + 1, Len(line))

Rest(word, line) ==
    IF Len(word) = Len(line) THEN AtNull ELSE SubSeq(line, Len(word) + 2, Len(line))

NoWords == [first |-> <<>>, rest |-> <<>>]

ShellInit ==
    /\ screen = Puts(Blank, <<Newline>>)    \* console_init
    /\ onoff = FALSE /\ wiped = FALSE
    /\ phase = "prompt" /\ str_buffer = <<>> /\ words = NoWords
    /\ cur_path = <<>> /\ abs_path = <<>> /\ parts = <<>>
-----------------------------------------------------------------------------
Prints(string) == screen' = Puts(screen, string)

ShowPrompt ==
    /\ phase = "prompt"
    /\ Prints(Prompt)
    /\ wiped' = FALSE
    /\ phase' = "reading"
    /\ str_buffer' = <<>>
    /\ UNCHANGED <<onoff, words, paths>>

\* A key of the line.
Echo(ch) ==
    /\ wiped' = (wiped \/ Wipes(screen, ch))
    /\ \/ screen' = Put(screen, ch) /\ UNCHANGED onoff
       \/ /\ Unprotected /\ ch \notin {Backspace, Newline}
          /\ screen' = PutInterrupted(screen, ch) /\ onoff' = ~onoff

FirstCell == screen.xpos = 0 /\ screen.ypos = 0

Type(ch) ==
    /\ phase = "reading" /\ Len(str_buffer) < MAX_LINE
    /\ ch = Backspace /\ FirstCell => Unprotected
    /\ Echo(ch)
    /\ str_buffer' = Append(str_buffer, ch)
    /\ UNCHANGED <<phase, words, paths>>

\* The line ends: with a newline, or with one key more than it holds, which is
\* echoed and not kept. An empty line has no first word to compare with.
EndLine(ch) ==
    LET word == FirstWord(Strip(str_buffer)) IN
    /\ phase = "reading"
    /\ ch = Newline \/ Len(str_buffer) = MAX_LINE
    /\ ch = Backspace /\ FirstCell => Unprotected
    /\ Echo(ch)
    /\ words' = [first |-> word, rest |-> Rest(word, str_buffer)]
    /\ phase' = IF word = <<>> THEN "prompt" ELSE "run"
    /\ UNCHANGED <<str_buffer, paths>>

\* The command is over: its words and paths with it, and the line is not read again.
Return ==
    /\ phase' = "prompt"
    /\ str_buffer' = <<>> /\ words' = NoWords /\ abs_path' = <<>> /\ parts' = <<>>

\* A command that needs no path: echo, pwd, help and those that run programs.
Command(string) ==
    /\ phase = "run"
    /\ Prints(string)
    /\ Return
    /\ UNCHANGED <<onoff, wiped, cur_path>>

\* cd, ls and cat: get_abs_path
GetAbsPath(path) ==
    /\ abs_path' = IF path.absolute THEN <<>> ELSE cur_path
    /\ parts' = path.parts

Resolve(command, path) ==
    /\ phase = "run"
    /\ phase' = command
    /\ GetAbsPath(path)
    /\ UNCHANGED <<console, str_buffer, words, cur_path>>

\* strlen of a path of these names.
PathLength(path) ==
    LET room == [i \in DOMAIN path |-> 1 + NameLength[path[i]]]
    IN IF path = <<>> THEN 1 ELSE MapThenSumSet(LAMBDA i : room[i], DOMAIN path)

\* move_into_directory
\* Mutant: the space for the slash is not counted.
NameFitsWithoutSlash(path, name) ==
    PathLength(path) + NameLength[name] <= WORKING_DIRECTORY_PATH_BUFFER_SIZE

NameFits(path, name) ==
    PathLength(path) + NameLength[name] + (IF path = <<>> THEN 0 ELSE 1)
        < WORKING_DIRECTORY_PATH_BUFFER_SIZE - 1

Into(path, name) == IF NameFits(path, name) THEN Append(path, name) ELSE NoPath

\* move_up_directory
Up(path) == IF path = <<>> THEN NoPath ELSE Front(path)

InPath == phase \in {"cd", "ls", "cat"}

\* process_path_part
Part ==
    /\ InPath /\ parts # <<>> /\ abs_path # NoPath
    /\ abs_path' = CASE Head(parts) = "." -> abs_path
                     [] Head(parts) = ".." -> Up(abs_path)
                     [] OTHER -> Into(abs_path, Head(parts))
    /\ parts' = Tail(parts)
    /\ UNCHANGED <<console, phase, str_buffer, words, cur_path>>

Resolved == InPath /\ (parts = <<>> \/ abs_path = NoPath)

\* cmd_line_cd: the directory is opened before it becomes the working directory.
ChangeDirectory ==
    /\ Resolved /\ phase = "cd"
    /\ Return
    /\ cur_path' = IF abs_path \in Dirs THEN abs_path ELSE cur_path
    /\ UNCHANGED console

\* ls_dir and cat_file: what is there is printed, or a message. The command goes on
\* with its next argument, if there is one.
List(string) ==
    /\ Resolved /\ phase \in {"ls", "cat"}
    /\ Prints(string)
    /\ \/ Return
       \/ (\E path \in Paths : GetAbsPath(path)) /\ UNCHANGED <<phase, str_buffer, words>>
    /\ UNCHANGED <<onoff, wiped, cur_path>>

\* clock_interrupt: console_heartbeat.
Heartbeat ==
    /\ screen' = Written(screen, IF onoff THEN "_" ELSE Space)
    /\ onoff' = ~onoff
    /\ UNCHANGED <<wiped, phase, str_buffer, words, paths>>

ShellNext ==
    \/ ShowPrompt
    \/ \E ch \in Key : Type(ch)
    \/ \E ch \in Key \cup {Newline} : EndLine(ch)
    \/ \E string \in Output : Command(string) \/ List(string)
    \/ \E command \in {"cd", "ls", "cat"}, path \in Paths : Resolve(command, path)
    \/ Part \/ ChangeDirectory \/ Heartbeat

ShellSpec == ShellInit /\ [][ShellNext]_shellVars
-----------------------------------------------------------------------------
\* What is printed has no backspaces, which could take the cursor off the screen.
PrintsForward ==
    \A string \in Output \cup {Prompt} : Backspace \notin ToSet(string)

\* The cell n places before the cursor, across the ends of lines.
Before(n) ==
    LET place == (screen.ypos * xsize + screen.xpos) - n
    IN screen.cell[<<place % xsize, place \div xsize>>]

\* The line on the screen is the line the shell will take: the same keys, in the
\* cells before the cursor, after any backspaces, over the ends of lines, until the
\* screen is cleared.
EchoTrue ==
    phase = "reading" /\ ~wiped =>
        LET line == Strip(str_buffer) IN
        \A k \in DOMAIN line : Before(Len(line) + 1 - k) = line[k]

\* A command gets the words that were typed. (Not so if a key was taken back or the
\* line begins with a space: the rest is then cut from the wrong place.)
WordsTyped ==
    LET line == str_buffer IN
    phase = "run" /\ Backspace \notin ToSet(line) /\ line[1] # Space
        /\ Space \in ToSet(line) =>
        line = words.first \o <<Space>> \o words.rest

\* A path under way fits its buffer, with the zero at its end.
PathFits ==
    abs_path # NoPath => PathLength(abs_path) + 1 <= WORKING_DIRECTORY_PATH_BUFFER_SIZE
=============================================================================
