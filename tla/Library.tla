------------------------------- MODULE Library -------------------------------
(***************************************************************************)
(* The components that can be understood on their own, side by side:       *)
(* `focus` chooses at the start which one moves.  The breakpoint cache is  *)
(* there twice over the same variables, with the tasks of the CLI and with *)
(* those of the MCP server.                                                *)
(***************************************************************************)
EXTENDS Naturals, Sequences, FiniteSets

CONSTANTS
  HeaderLimit, MaxFrameSize, Frames, MaxFrames,                        \* DapCodec
  RingSizes, MaxEntries,                                               \* Trace
  Components, MaxLength, MaxAliases, MaxBases,                         \* PathMapper
  Names, Places, Hits(_, _), Queries, MaxInserts,                      \* VariableHandleCache
  Files, FileLines, Asked, MaxIds, MaxEvents,                          \* BreakpointCache
  Width, Expandable, FrameLimits, Depths, MaxFailures, MaxStops,       \* AssembleContext
  InputLines, MaxLines, MaxMoves                                       \* McpServer

\* max_ring_size is a usize.
ASSUME TraceAssumption == RingSizes \subseteq Nat /\ MaxEntries \in Nat
ASSUME PathAssumption == MaxLength \in Nat
ASSUME HandleAssumption == MaxInserts \in Nat /\ IsFiniteSet(Names) /\ IsFiniteSet(Places)
ASSUME BreakpointAssumption == Asked \subseteq Seq(FileLines) /\ MaxIds \in Nat /\ MaxEvents \in Nat
\* Counts of what the program has, and the values of usize parameters.
ASSUME ContextAssumption ==
  Width \in [1..4 -> Nat] /\ Expandable \subseteq Nat /\ FrameLimits \subseteq Nat /\ Depths \subseteq Nat
\* A line's id is a number or something else, or not there.
ASSUME LineAssumption ==
  \A line \in InputLines : line.id \in {"absent", "null", "number", "string"} /\ line.number \in Nat

VARIABLES
  focus,
  codecFrames, codecInput, codecBuffer, codecOutput, codecStatus,
  traceSize, traceSent, traceChannel, traceRing, traceEntry, traceFile, traceLines,
  traceSkipped, traceClosed,
  pathAliases, pathBases, pathExisting,
  varEntries, varValid, varStep, varClock, varNewest,
  bpCached, bpTask, bpInput, bpPipe, bpEvents, bpActual, bpIds, bpSent, bpRemoved,
  ctxLimits, ctxState, ctxStops, ctxTodo, ctxStep, ctxAsOf, ctxCached, ctxGot, ctxFailed, ctxOutcome,
  stdioInput, stdioRead, stdioStep, stdioMessage, stdioAnswer, stdioOutput, stdioClosed,
  stdioInitialized, stdioState, stdioMoves

Codec == INSTANCE DapCodec
Log == INSTANCE Trace
Paths == INSTANCE PathMapper
Handles == INSTANCE VariableHandleCache
OneTask == INSTANCE BreakpointCache WITH Callers <- {"main"}, Loops <- {"main"}, Lines <- FileLines
TwoTasks == INSTANCE BreakpointCache WITH Callers <- {"caller"}, Loops <- {"loop"}, Lines <- FileLines
Context == INSTANCE AssembleContext
Stdio == INSTANCE McpServer

\* Sizes are usize; a frame has a header, and where that tells a length, the body's own.
HeaderLines == ({"length"} \X Nat) \cup {Codec!Other}
ASSUME CodecAssumption ==
  /\ HeaderLimit \in Nat /\ MaxFrameSize \in Nat
  /\ \A f \in Frames :
       /\ f.header \in Seq(HeaderLines) \ {<<>>}
       /\ f.body \in Seq({Codec!Byte(TRUE), Codec!Byte(FALSE)})
       /\ Codec!LengthLines(f.header) # {} => Codec!DeclaredLength(f.header) = Len(f.body)

-----------------------------------------------------------------------------
codec    == <<codecFrames, codecInput, codecBuffer, codecOutput, codecStatus>>
trace    == <<traceSize, traceSent, traceChannel, traceRing, traceEntry, traceFile, traceLines,
              traceSkipped, traceClosed>>
mapper   == <<pathAliases, pathBases, pathExisting>>
handles  == <<varEntries, varValid, varStep, varClock, varNewest>>
breakpts == <<bpCached, bpTask, bpInput, bpPipe, bpEvents, bpActual, bpIds, bpSent, bpRemoved>>
context  == <<ctxLimits, ctxState, ctxStops, ctxTodo, ctxStep, ctxAsOf, ctxCached, ctxGot, ctxFailed,
              ctxOutcome>>
stdio    == <<stdioInput, stdioRead, stdioStep, stdioMessage, stdioAnswer, stdioOutput, stdioClosed,
              stdioInitialized, stdioState, stdioMoves>>

vars == <<focus, codec, trace, mapper, handles, breakpts, context, stdio>>

\* A component that does not move starts in one of its initial states.
Init ==
  /\ focus \in {"codec", "trace", "mapper", "handles", "one task", "two tasks", "context", "stdio"}
  /\ Codec!Init /\ (focus # "codec" => codecFrames = <<>>)
  /\ Log!Init /\ (focus # "trace" => traceSize = CHOOSE size \in RingSizes : TRUE)
  /\ Paths!Init /\ (focus # "mapper" => pathExisting = {})
  /\ Handles!Init
  /\ IF focus = "one task" THEN OneTask!Init ELSE TwoTasks!Init
  /\ Context!Init /\ Stdio!Init
  /\ focus # "context" => ctxLimits = CHOOSE limits \in Context!Limits : TRUE

Next ==
  /\ UNCHANGED focus
  /\ \/ /\ focus = "codec" /\ Codec!Next
        /\ UNCHANGED <<trace, mapper, handles, breakpts, context, stdio>>
     \/ /\ focus = "trace" /\ Log!Next
        /\ UNCHANGED <<codec, mapper, handles, breakpts, context, stdio>>
     \/ /\ focus = "mapper" /\ Paths!Next
        /\ UNCHANGED <<codec, trace, handles, breakpts, context, stdio>>
     \/ /\ focus = "handles" /\ Handles!Next
        /\ UNCHANGED <<codec, trace, mapper, breakpts, context, stdio>>
     \/ /\ focus = "one task" /\ OneTask!Next
        /\ UNCHANGED <<codec, trace, mapper, handles, context, stdio>>
     \/ /\ focus = "two tasks" /\ TwoTasks!Next
        /\ UNCHANGED <<codec, trace, mapper, handles, context, stdio>>
     \/ /\ focus = "context" /\ Context!Next
        /\ UNCHANGED <<codec, trace, mapper, handles, breakpts, stdio>>
     \/ /\ focus = "stdio" /\ Stdio!Next
        /\ UNCHANGED <<codec, trace, mapper, handles, breakpts, context>>

Spec == Init /\ [][Next]_vars

-----------------------------------------------------------------------------
(* The properties of the components, stated and explained in their modules. *)

\* Every component's own type invariant.
TypeOK ==
  /\ Codec!TypeOK /\ Log!TypeOK /\ Paths!TypeOK /\ Handles!TypeOK /\ Context!TypeOK /\ Stdio!TypeOK
  /\ IF focus = "one task" THEN OneTask!TypeOK ELSE TwoTasks!TypeOK

\* However the stream is cut, the bodies sent come out, up to a frame that is refused.
DecodesTheStream == Codec!DecodesTheStream

\* recent gives the newest entries first, as many as the ring can hold.
RecentIsNewest == Log!RecentIsNewest

\* The trace file has no gap but for entries that could not be serialized.
FileHoldsPrefix == Log!FileHoldsPrefix

\* The path listed for a breakpoint resolves to the file it stands in.
ListedPathResolvesBack == Paths!ListedPathResolvesBack

\* One handle per name and place, the newest since the cache was emptied.
HoldsNewestHandles == Handles!HoldsNewestHandles

\* lookup prefers the closest place and finds something whenever, and only when, the very
\* name is there.
LookupFindsClosest == Handles!LookupFindsClosest

\* search gives the newest matches first and leaves out none that is newer.
SearchFindsNewest == Handles!SearchFindsNewest

\* With one task, as in the CLI, list_breakpoints shows what the adapter has, verified
\* or not.
ListShowsAdapter == focus = "one task" => OneTask!ListShowsAdapter

\* With one caller and a concurrent event loop, as in the MCP server over stdio, it shows
\* the right breakpoints.
ListShowsIds == focus = "two tasks" => TwoTasks!ListShowsIds

\* assemble_context leaves out what failed, and nothing beside it.
LosesOnlyWhatFailed == Context!LosesOnlyWhatFailed

\* Over stdio every line has the answers it is owed, in order.
AnswersInOrder == Stdio!AnswersInOrder

=============================================================================
