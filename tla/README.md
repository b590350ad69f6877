# A TLA+ verification project for cwr

cwr is an interpreter for a small C-like language, written in C. One process, one
thread: a source text goes through a lexer, a preprocessor and a parser, and the
tree the parser builds is walked by the interpreter (`tests/main.c` drives all of
it). What is hard here is not concurrency. It is memory and scopes: values with
hand-kept reference counts, a flat array of variables that must behave as a stack
of scopes, an error flag that every caller must look at, and results that cross the
destruction of the scope they came from.

## Inventory

| component | state | operations | interacts with |
|---|---|---|---|
| values (`cwr_value.h`) | heap blocks: type, `references_count`, union | create, add/remove reference, set, reference, dereference, at, destroy | interpreter, scopes |
| instances and scopes (`cwr_scope.c`, `cwr_instance.h`) | `instances`, `size`, `capacity` | add (with growth), get, get_by_name, root_destroy, destroy | interpreter |
| interpreter (`cwr_interpreter.c`) | the C call stack, the two scopes, `error->is_failed` | one evaluator for statements, expressions, bodies, calls | all of the above |
| driver (`tests/main.c`) and program context | the phases | interpret, run the entry point, destroy its value, destroy the scopes | interpreter |
| parser (`cwr_parser.c`, `cwr_node.h`) | token position, variables, functions, current root | statements, expressions, types, identifiers | lexer's tokens, interpreter's tree |
| preprocessor (`cwr_preprocessor.c`) | token list, macros, included modules | run, define, include, expand, string concatenation | lexer, parser |
| lexer (`cwr_lexer.c`), string buffer | position, buffer, tokens | tokenize | preprocessor |

What makes each of them correct:

* values: no access to a freed block, no block freed twice, counts equal to the
  number of holders, one owner of each block an array points to, nothing lost;
* scopes: lookups, declarations, assignments and the destruction of a root are those
  of a stack of lexical scopes, although the array is flat and shared by all calls;
* interpreter: an error stops the program, is seen by every caller and unwinds
  what was declared; every program that terminates in the language terminates here;
  what a function returns is there for who receives it;
* driver: everything is destroyed once, after an error as well;
* parser: the identifiers it hands out name, at run time, the variable that was meant;
  what it lets through never makes a lookup fail;
* preprocessor and lexer: expansion ends, every token is processed once, in order.

`PROJECT.json` lists the hazards at their lines.

## Modules

* `CwrValue` - cells, the allocator and every function of `cwr_value.h`, as operators
  on a memory `[cells, fault]`. `fault` records the first undefined operation
  (null dereference, use after free, double free, wild pointer); a program stops at it.
* `CwrScope` - the instance array as `[insts, size]`. A body is its C stack address;
  the `root` links of `cwr_func_body_expression` are given as the sequence of bodies
  from a requester outwards.
* `CwrInterpreter` - the state machine. `stack` is the C call stack of the evaluator,
  one frame for each active `cwr_intepreter_evaluate_*` call with its locals: the node,
  the chain of its `root`, the local `body`, the results of its callees, a loop index,
  the arguments array. An action is the code between two calls of the evaluator, one
  malloc, or one iteration of a loop over values (destruction of a root, of the
  arguments, of a scope), so a failed malloc or an error is possible at every point
  at which the code can meet it.
* `LexicalScopes` - the abstract specification: a stack of scopes with Open, Declare,
  Assign, Close.
* `CwrProperties` - the properties, and the refinement mapping from the flat array to
  `LexicalScopes` (a body being destroyed is already closed).
* `CwrPlain` - what the call stack, the array of variables and the heap look like while a
  program runs: the hypotheses of the theorems on scopes and memory (`Tame`, `Plain`) and
  their inductive invariants (`Scoped`, `Kept`), stated so that TLC can check them.
* `MCInterpreter` - the programs TLC runs, each with its source text in a comment. `MCTame` and
  `MCPlain` choose the programs of the runs `safe` and `errors` and assert `Tame` and `Plain` of
  them, so that TLC shows that the hypotheses of the theorems have instances.
* `CwrPreprocessor` - the state machine of `cwr_preprocessor.c`: one action for each
  iteration of the loop of `cwr_preprocessor_run` (`Skip`, `Expand`, `Concatenate`,
  `Define`, `Include`, `OtherDirective`, with `IncludeAgain`, `IncludeAbandoned`,
  `SyntaxError` and `OutOfMemory` for the ways an iteration leaves the loop), then the
  tables (`FreeTables`) and the driver's `cwr_tokens_list_destroy` (`DestroyList`).
  `tokens` is the allocated array and `count` the part of it in use, `position`,
  `macroses` and `included` are the fields of the C structure; `heap` is what malloc
  has given and not got back, with the first fault.
* `MacroExpansion` - the abstract specification: a rewriting of what has been passed
  (`out`) and what has not (`rest`), without positions, addresses or copies.
* `CwrPreprocessorProperties` - the properties and the refinement mapping: the list split
  at the position is the state of the rewriting.
* `MCPreprocessor` - the sources TLC runs, made of lines.
* `CwrLexer` - the state machine of `cwr_lexer.c`: one action for each way an iteration of
  the loop of `cwr_lexer_tokenize` goes (`ControlCharacter`, `Number`, `String`, `Character`,
  `Comment`, `Space`, `Letter`, `OperatorCharacter`, `IncludeDot`, `IncludeEnd`), and `Finish`
  for what follows it. `buffer` is the text of the string buffer, `newLine` and `include`
  are `add_new_line` and `is_include`; `fresh` says that the byte the buffer was created with
  has not been written yet, and `status` becomes "undefined" when that byte is read as a text.
* `LexicalGrammar` - the reference: the tokens a source should have, by maximal munch over
  whole words. Where the lexer has a rule of its own the reference gives an odd token.
* `CwrLexerProperties`, `MCLexer` - the properties, and all small sources.
* `CwrParserScope` - the parser's table of variables, its lookups and
  `cwr_parser_clear_scope`, the table of functions, and the equality of types.
* `CwrParser` - the state machine of `cwr_parser.c`. The expression functions change only
  the position and the error, so they are one recursive function, `Expr`, from a position to
  a result (node, position, `is_failed`, or the fault that ends the program); declarations
  and statements are actions. `opened` is the C stack of the parser: the constructs whose
  bodies are being read. `fault` is the first undefined thing the code does, such as the
  destruction of an empty record after an error, which many functions do because they go on
  before they look at `is_failed`.
* `CwrParserProperties` - the table of variables as a stack of scopes, the refinement of
  `LexicalScopes` by it, and termination. `CwrTreeProperties` - the tree of an accepted
  source against the source: a resolution of names without tables, and the tokens that a
  tree stands for. `MCParser` - the sources.
* `CwrPipeline` - the composition: `Parser == INSTANCE CwrParser` with its own tables, and
  the interpreter's actions unchanged. `Lower` is the tree as the interpreter reads it,
  `HandOver` the driver's decision (the interpreter is not created for a refused source).
  `names` is auxiliary: what the source calls each of the interpreter's variables, which the
  interpreter itself never looks at. `MCPipeline` - the sources.
* `Selection` - the values of a function at the members of a set of numbers, in order, as a
  recursive function: how the two refinement mappings, of the parser's table and of the
  interpreter's array, select the open bodies and the variables of each.
* `CwrTypeProofs`, `CwrScopeProofs`, `CwrMemoryProofs` (the interpreter),
  `CwrPreprocessorProofs`, `CwrOwnershipProofs` (the preprocessor), `CwrLexerProofs`,
  `CwrParserProofs`, `SelectionProofs` - the proofs.

How the state corresponds to the code: `phase`/`next` are the driver's position and the
index of its loops, `functions`/`variables` the two scopes of the program context,
`failed` is `error->is_failed`, `result` what `cwr_interpreter_evaluate_entry_point`
returned, `failures` counts the allocations that failed (bounded by `MaxFailures`).

### Abstractions

* malloc returns any free block: which one is fixed by a `CHOOSE`, since no code
  compares addresses. A freed address is used again, as with a real allocator. A
  malloc of zero bytes gives a block.
* The text of a string is one character code for each block; the length is kept. The
  index of an element is checked as in the code, which element is read is not told apart.
* A float is an integer number of `1/FloatUnit`. Numbers are unbounded; rounding and
  overflow of `float` and `int` are not modelled.
* Reading the wrong member of the union gives any element of `Garbage`.
* The address of a local body is any address not owned by a running body: the stack
  reuses the addresses of the bodies that are gone, and a stale entry can be adopted.
* Messages, locations and kinds of errors, and what printf prints, are left out.
* The malloc of a scope (`cwr_program_context_default`) is taken to succeed.
* Preprocessor: every token owns its value (`is_free_value`), as the lexer makes them; a
  block is given once, so that a stale address shows; the arrays (`tokens`, `included`,
  `macroses`, a body) are not blocks, only the values in them. A word is a text of one
  part, concatenation joins parts, so that no text arises in two ways. The position of
  an iteration that fails is left at its start, since nothing reads it again. The lexer
  of an included module is only the tokens it gives, without failures inside it; no
  module is shorter than the five tokens of the directive. `macro.number`, which nothing
  reads, is left out.
* Lexer: the characters and the spellings of the words are constants; in the runs one
  letter stands for `define` and one for `include`, since the lexer compares whole words.
  Characters are read as `isspace`, `iscntrl` and `isdigit` of the C locale read them.
* Lexer and parser: allocations succeed. The lexer looks at the result of none of them.
* Parser: the address of a body is a local's, so any that no running body has; of the
  addresses that no entry of the table names one stands for all (`NewAddress`), which
  loses nothing, since addresses are only compared. A string is its length, a number a
  multiple of `1/FloatUnit`. The bracket and separator tokens leave nothing in the tree.
  A `struct` statement ends `cwr_parser_get_statement` without a value: a fault.

## What is checked

| run | programs | what it shows |
|---|---|---|
| `safe` | six programs without errors: calls, recursion, nested loops, aliases, strings, pointers, bound printf, a `return` with a body; and one with an error in the target of an assignment | no memory error (`NoFault`), nothing dangling (`NoDangling`), exact counts (`RefCountExact`), one owner of each array (`SoleOwner`), no leak up to the end of the teardown (`NoLeak`), a nested array (`ScopesNested`) that implements lexical scopes (`ImplementsLexicalScopes`), and the end is reached (`Terminates`) |
| `errors` | six programs that stop with an error: in a called function, in an argument of an argument, in the body of a return, index errors, no `main`; four that do not, with calls in arguments, aliases and strings in nested loops | no memory error, every variable destroyed on the way out (`ErrorUnwinds`), until the error every value and block has the holders that whoever destroys it relies on (`Remembered`), nothing evaluated after the error (`FailStop`), the end is reached |
| `out_of_memory` | all programs, those the interpreter does not survive included, with one failing allocation anywhere | every caller is at a check of `is_failed` when an error reaches it (`ErrorSeen`), on which `FailStop` rests (proved) |
| `preprocess` | all sources of up to three lines out of ten: definitions (one redefined, one naming another), uses, strings, an include, other and malformed directives, with one failing allocation anywhere | the editing in place implements the rewriting (`ImplementsExpansion`), each value has one owner (`SoleOwner`) and none is lost (`NoLeak`), no memory error without a failed allocation (`SafeInMemory`), none but the known ones with one (`FaultsExplained`), what was passed stays (`OnlyForward`), no end of line is left (`NewLinesConsumed`), the sources are those the rewriting covers (`Regular`), the end is reached (`Terminates`) |
| `lex` | every sequence of up to three of sixteen characters, alone and after `#D f`, `#I ` and `#I <` | an ordinary source gets the tokens of the reference (`TokenisesOrdinary`), each line end among them belongs to a `#define` of its own (`NewLinesPaired`), the unset byte of the buffer is read at the start of a source only (`UnsetOnlyAtStart`), the lexer ends (`Terminates`) |
| `parse` | a function with every sequence of up to three statements, beginnings and ends of blocks; every sequence of up to three tokens as an expression; longer sources cut at every token | the flat table implements lexical scopes (`ImplementsLexicalScopes`), entries are in order of nesting with their positions as identifiers (`ScopesUnlessLoopVariable`), names in the tree resolve as a reference without tables says (`NamesResolve`), calls to the first function that fits (`CallsMeetFunctions`), no operand or statement is lost or reordered (`TokensKept`), the parser ends (`Terminates`) |
| `pipeline` | 150 sources: two overloads, `main`, and a function with blocks and loops, nested, with declarations before, in and after them | a variable or function the parser resolved is found by the interpreter and is the one of that name (`VariablesAgree`, `CallsAgree`), and an accepted source runs to the end, torn down (`AcceptedRuns`) |
| `new_lines` | `#define A` with nothing after the name | violation: the end of the line stays in the result |
| `missing_module` | `#include <string.h>` | violation: the name is freed twice |
| `entry_value` | `int main() { int a = 1; return a; }` | violation: what the driver destroys is already freed |
| `teardown` | a division by zero inside a for loop | violation: the teardown frees a value twice |
| `set_through` | `char *t = &s; *t = s;` on a pointer | violation: nothing is copied and a held value is freed |

Each violation is a disagreement of the code with its own driver or comment; the
findings in `PROJECT.json` quote the lines.

Bounds. `DefaultSize` is 2 instead of 8, so that the array grows, twice, in the middle
of calls. Fourteen addresses are more than any of the programs has alive at once, so
`CanMalloc` never stops one; four bodies are the deepest nesting (`main`, three nested
calls, or two loops and a call) - with fewer the model would be stuck, which the
deadlock check would show. One failure is enough: after the first the program
unwinds and allocates at most the void value of an aborted call.
`MaxFailures` is 0 in the other runs of the interpreter. Programs are fixed trees: the
evaluator has no input.

For the preprocessor three lines (`MaxLines`) are a definition, a redefinition or a
definition that uses it, and a use; strings before, in and after a macro; an include
between two uses. Sources end in a semicolon, since a macro or string that is the
last token is not looked at (hazard at preprocessor.c:549), and repeat an include in
their last line only: a repeated include silently ends the preprocessing (line 183), so
`ImplementsExpansion` cannot hold with something to expand after it. Macros are not
recursive; a recursive one is expanded for ever. In the model an empty list is a fault
(`Overruns`): the bound of the loop wraps. The definitions without a body and the
missing module are the two violation runs.

For the lexer three characters after a beginning reach every pair of rules with one
character between them: a word that touches a quote, a comment in a define line, a dot in
and after an include. For the parser three statements are a block with a declaration in it
and a use after it; a prefix of a longer source ends in the middle of every construct.
`MaxVariables` bounds the identifiers of the abstract scopes only.

What the parser's properties exclude, and why. A for loop that declares a variable
(`source/cwr_parser.c:607`) registers it twice, the second time without a root: the entry
stays for ever, `clear_scope` drops the wrong ones, and later variables are numbered one
too high, so that the interpreter does not find them ("That cant happen because of parser
checks", `source/cwr_scope.c:68`) and reads through NULL at `source/cwr_interpreter.c:528`.
`ScopesUnlessLoopVariable` holds up to the first such loop; `NamesResolve`,
`ImplementsLexicalScopes` and `VariablesAgree` are about the sources without one. The
`parse` run has such loops, for its other properties. A `return` inside a for loop leaves the
loop's variables in the interpreter's array, which the teardown then frees twice, so
`AcceptedRuns` excludes it; `VariablesAgree` does not. A loop whose condition is not an int is
dropped without an error (`source/cwr_parser.c:629`), and `TokensKept` excludes it.

`LexicalGrammar` counts as odd, and `TokenisesOrdinary` says nothing of: a word that touches a
quote, a keyword that ends the source (it comes out twice), a define line that ends with a
word (its end comes out before the word, `source/cwr_lexer.c:146`), an include not written
`#include <name>`, and literals that are not closed.

In `pipeline` the interpreter's four bodies (`Body`) are the deepest nesting (`main`, `f` and two
blocks, or `g` in a block), and fourteen addresses are more than are alive at once.

Fairness. Lexer, preprocessor, parser and interpreter are sequential code, which always takes
its next step: weak fairness of the step. With it, `Terminates` says that the programs given
(which terminate in the language) end, torn down, and that the sources given are tokenised,
preprocessed and parsed.

## What is proved

TLAPS checks, for every set of addresses, program, nesting and number of failures:

* `CwrTypeProofs`, first part: every function of `cwr_value.h` maps a memory to a memory, for
  any pointers, null and dangling ones included; those that destroy bring no block
  to life (`NoNew`); every operator computes a number.
* `CwrTypeProofs!TypeCorrect`: `Spec => []TypeOK`. The invariant is inductive as it
  stands. The argument goes through the three ways an action ends: it returns a
  pointer (`ReturnsType`), moves the running frame (`MovesType`), or evaluates a child
  of its node (`EvaluatesType`); one case for each action supplies the frame, the
  pointer and the memory. The shapes of the nodes the parser builds are the
  assumptions `NodeAssumption` and `ShapeAssumption`.
* `CwrTypeProofs!ErrorsSeen`: `Spec => []ErrorSeen`, inductive relative to `TypeOK`. An
  action pops an activation whose caller waits (`ReturnSeen`), moves one that is not
  failed or still unwinding (`MoveSeen`), or starts one when nothing has failed
  (`PushSeen`); at a point that is not a check of `is_failed` there is no error
  (`NoErrorAt`), which is what every action that computes something rests on.
* `CwrTypeProofs!ErrorsStop`: `Spec => FailStop`. With `ErrorSeen` an action that
  evaluates, declares or allocates is either guarded by `~failed` or at a point where
  there is no error; the others return, and destroy (`NoNew`).
* `CwrScopeProofs!ScopesCorrect`: `Spec => []ScopesNested` for every tame program: one that
  does not return from inside a loop. The hypothesis is needed: `ForIterated` returns
  without `cwr_scope_root_destroy`, the loop's variables stay in the array, and the
  invariant is false from then on (`ReturnInLoop` in the `out_of_memory` run). It is stated
  over a set `quiet` of nodes without a return, because a recursive definition is out of
  the provers' reach. The inductive invariant is `Scoped`, and half of it is about the call stack:
  who can wait for whom (`WaitsFor`), at which address each body is (`Distinct`), that
  the chain a callee sees names frames below it of the same call (`Enclosed`) and starts at
  the innermost body (`Innermost`), and that no statement lies between an operator and what
  it waits for without a call in between (`Shielded`). Then a declaration adds its variable on
  top because its root is the innermost body (`Layered`), and while a root is destroyed
  nothing above the loop's index has that root (`Leaving`), so that dropping the last entry
  for each match drops the right ones. The invariant says nothing after an error:
  nothing is declared then (`StaysFailed`, `StaysFaulty`).
* `CwrScopeProofs!ErrorsUnwind`: for every tame program
  `Spec /\ ErrorsOutsideLoops => []ErrorUnwinds`, failed allocations included. The invariant
  (`Unwound`) keeps of `Scoped` what outlives an error, that the variables lie in the order of the
  bodies (`Lay`): a step that raises an error or follows one is a return of an activation that
  owns nothing (`Popping`) or has destroyed its root (`Ending`), the start or an iteration of
  that destruction, or the driver's. The hypothesis, no error while a loop is on the call stack,
  is needed: `ForFailed` leaves a loop at once, with its variables in the array
  (`source/cwr_interpreter.c:175`).
* `CwrScopeProofs!ScopesImplemented`: `Spec => ImplementsLexicalScopes` for every tame
  program, errors and failed allocations included: the refinement of `LexicalScopes` by the
  interpreter's flat array, from `Scoped`. Each action is shown to be one of six changes of the
  call stack and the array: it leaves both (`Rests`), moves the running activation
  (`Shifts`), returns (`Returns`), starts an activation (`Enters`), binds a parameter
  (`Binds`), or declares or assigns (`Declares`, `Assigns`); and each of these to be a step of
  `LexicalScopes` or a stutter. The deep one is the assignment: walking the array
  backwards for an identifier that the chain of bodies can access (`Topmost`) finds the
  innermost binding that lexical scoping sees (`InnermostIs`). It takes that the chain and the
  call stack agree on what is visible (`AccessIs`, from `ChainComplete`: a body sees all
  open bodies down to its function's) and that the array is in the order of the bodies. A
  body closes at the start of its destruction, which then takes nothing from an open scope
  (`DropScopes`). After an error nothing is looked up, and the order of the variables alone
  (`Tracked`) is enough.
* `CwrMemoryProofs`: for every plain program, `Spec => []NothingFreed` (no freed value is
  read, none freed twice), and while no allocation has failed `NoDangling`, `RefCountExact`
  and `SoleOwner`. Plain programs are the tame ones without the operators whose use of
  memory is known to be wrong or not counted: `&`, stores through a pointer, unary plus, and
  the return of a variable itself (findings and hazards at their lines). The inductive
  invariant is `Memorised`. Its core, `Kept`, says who holds what: the frames and their results are the
  holders (`Holders`), a value that no variable has is held once, an arguments array is held
  by its call alone, a buffer belongs to one value (`Store`); an operator's results are
  either new or the value of a variable that its frame sees, and what a function is about to
  return is new (`Proper`). The last part is why a result survives the destruction of its
  function's variables, and it is not inductive by itself: it needs the order of the
  variables from `Scoped`, since what an operator below the call sees must not be
  destroyed with the callee's root. There is one lemma for each of the things a
  step does to the store (`StoreAdd`, `StoreDrop`, `StoreAssign` and so on) and one for
  each action. `failures = 0` is needed: the argument that cannot be
  added to the array is destroyed at once though a variable may hold it
  (`source/cwr_interpreter.c:402`).
* `CwrMemoryProofs!NothingLostCorrect` and `NoLeakCorrect`: for every plain program
  `Spec => [](failures = 0 => NoLeak)`, up to the end of the teardown. `NoLeak` is not
  inductive: an action frees what it drops only if no variable has it. The invariant
  (`Accounted`, inductive relative to `Memorised`) says that every live block is held by a
  variable, a frame or the driver, or is the block of a live value that is (`Covers`), and
  what makes the destructors free enough: a value with a block is a string of characters
  with a capacity (`Tidy`), and a frame has an arguments array or a buffer only at the four points
  whose actions free it or give it away (`Orderly`), with the arguments already added known
  to be variables (`Bound`). The argument is that of an account: `Account(m, G, D)` says
  that `G` covers the live blocks of `m` and that each value dropped so far (`D`) is gone or
  counted. Every operation of the heap keeps one (`AccountPut`, `AccountDestroy`,
  `AccountRemove` and so on), `GoOnFair` and `AnswerFair` say what an action that moves a frame
  or returns has to show about who holds what, and since counts are exact (`Kept`), what
  is counted is a variable's (`Settle`). The additional hypothesis `Terminated`
  is that the parser counts the terminator of a string literal
  (`source/cwr_parser.c:1167`): the block of a string without a character would never be freed
  (`cwr_array_value_destroy` does nothing without a capacity, `cwr_value.h:292`).

* `CwrPreprocessorProofs!TypeCorrect`: `Spec => []TypeOK` for every source, set of modules
  and number of failures. It is inductive as it stands. The substance is arithmetic:
  an include takes five tokens that are there (`IncludeBounds`: `name` and `>` cannot
  both be the last token), a definition takes no more than the list has, along each
  of the paths that count them (`DefineBounds`), and removing and replacing tokens
  (`RemoveType`, `ReplaceType`) keep the list within its array. That the search for the
  end of a body and for a macro find something rests on `Least`.
* `CwrPreprocessorProofs!GoesForward`: `Spec => OnlyForward`, from the same step lemmas.
* `CwrPreprocessorProofs!ExpansionCorrect`: `Spec /\ []Regular => ImplementsExpansion`, the
  refinement: the list split at the position is the state of the rewriting, and every
  iteration of the loop is one of its steps. Passing tokens moves them across the split
  (`CutMoves`); an edit leaves what is before it (`OutStays`) and splices what is after it
  (`RestSpliced`, for the arithmetic of the two functions that edit, `Replaced` and
  `Removed`); the first macro of a name is its definition, and stays it (`FirstOnly`,
  `DefsGrow`); the search for the end of a body stops at the first end of a line
  (`LineFound`). The one invariant needed beside `TypeOK` is that a running preprocessor has
  not failed and has included modules there are (`Simple`). `Regular` is a hypothesis
  because the code and the rewriting differ without it: an empty definition leaves the end of
  its line in the list (the finding of `new_lines`), a definition without an end of its line leaves its
  last token in the list, a name that could not be copied is not recognised, and the loop
  stops one token before the end, or at a second include, whatever is left there. The
  `preprocess` run checks that it holds for all its sources.
* `CwrPreprocessorProofs!NewLinesCorrect`: `Spec /\ []Regular => []NewLinesConsumed`, by way of the
  rewriting: what is proved of `MacroExpansion` holds of the list. The invariant (`Ruled`) is
  that no end of a line has been passed, that what is ahead is `Lined`, and that no body
  has an end of a line or a directive (`Clean`). In a `Lined` list every end of a line belongs
  to a definition, with no directive between the two, and nothing follows a `#` that would
  hide a definition. Each iteration takes off a beginning that no definition crosses
  (`Uncut`, `TailLined`) and may put a list of the same kind before the rest (`JoinLined`).
  The deep case is a definition, which goes up to the first end of a line: that is its own
  (`DefineRuled`). The hypothesis `Written` is that the sources and modules are
  `Lined`; the lexer's `NewLinesPaired` says the same but for directives in bodies, and the
  `preprocess` run checks it for its sources (`WrittenAssumption`). A second
  include is covered by `Regular`: it leaves the loop, with whatever follows.
* `CwrOwnershipProofs!SoleOwnerCorrect` and `NoLeakCorrect`: `Spec => []SoleOwner` and
  `Spec => []NoLeak`, whichever allocations fail. Neither is inductive: that editing the
  list keeps owners apart rests on the tables holding none of its values, and a new value
  is nobody else's because blocks are given in order. The invariant (`Inv`) says, as long as
  there is no fault, that the live blocks are among those given, that list and tables own
  their values once and apart (`Exclusive`), and that they own all (`Covered`). A step is
  described by the values it takes off the list, gives the list and gives the tables
  (`Moves`), and `MovesMemory` is the one argument for all of them; the rest is what
  removing, replacing, copying and appending do (`RemoveSole`, `ReplaceSole`, `CloneSole`,
  `TableDefine`, `TableInclude`).
* `CwrOwnershipProofs!FaultsCorrect`: `Spec => []FaultsExplained`. `Sound` is what a heap keeps
  through the reads, copies and frees of one iteration: the only fault in it is to have read
  a token without a value (`Missing`). There is none as long as no allocation has failed
  (`Whole`, the part added to the invariant). At the end `Exclusive` still holds unless an
  include was given up, so only then can destroying the tables or the list free twice.
* `CwrOwnershipProofs!SafeCorrect`: `Spec => [](Sensible => SafeInMemory)`, from the same
  invariant: without a failed allocation nothing undefined happens, errors in the source
  included. `Sensible` excludes the two things the code does not survive: an include of
  a module there is not (the finding at `source/cwr_preprocessor.c:196`) and a list that is
  empty or ends in the word `define` (the bound of the loop, line 549).
* `CwrLexerProofs!TypeCorrect`: `Spec => []TypeOK` for every alphabet, set of words and source:
  the position passes the end of the source by two characters at most, and every token is
  made of characters of the source. Each scan stops because the terminator stops it
  (`FirstIn`), so its end is at most one past the source.
* `CwrLexerProofs!NewLinesCorrect`: `Spec => []NewLinesPaired`. The invariant is strengthened
  by `TypeOK` and is otherwise inductive: the open define of the list survives appending
  anything that is not a line end (`OpenStays`), `newLine`
  is set by a `#` followed by the word define, and reset with the line end it adds.
* `CwrLexerProofs!UnsetCorrect`: `Spec => []UnsetOnlyAtStart`. The inductive invariant
  (`FreshInv`) says when the string buffer has not been written to: at the first
  character, or in a source that begins with a comment, since `Comment` is the only action
  that leaves the buffer as it is. An empty string is read without writing, and only there
  the position of its closing quote matters (`EmptyString`).
* `CwrParserProofs!TableCorrect`: `Spec => ScopesUnlessLoopVariable`, for every source. The
  inductive invariant (`Inv`) has two parts: the constructs on the stack (only the lowest is a
  function or its arguments, bodies have distinct addresses, the head of a for loop is on
  top) and the table (every entry has its position as identifier, belongs to an open
  construct, and lies above the entries of the constructs around it). Then the entries of
  the innermost body are the last ones, so that dropping the last entry for each match
  (`ClearScope`) drops exactly those. The theorem is conditional on `[]~AtLoopVariable`, because
  the second registration of a loop variable does break the invariant. The expression
  functions stay opaque in the proof: whatever they return, the table is not theirs.
* `CwrParserProofs!ScopesCorrect`: `Spec /\ []WithinBounds => ImplementsLexicalScopes`, the
  refinement, from the invariant of `TableCorrect`. There is one lemma for each change of the
  stack and the table (`OpensScope`, `ClosesScope`, `DeclaresInScope`, `SetLastScopes`), and one for
  each action, which says which of these it is. That the end of a body closes one scope and
  leaves the others as they are is that its entries are the last ones of the table. No
  step frees the name of a variable, since the head of no loop has one (`Heads`).
  `WithinBounds` says that the position is a number from 1 on (part of `TypeOK`, which is
  model-checked: it depends on what the expression functions return) and that `MaxVariables`
  is large enough for the source. What the mapping selects is a recursive function; its equation,
  and that it depends on what is selected only, are proved in `SelectionProofs` by induction.

Only model-checked:

* `NoFault`: that no null pointer is read rests on the parser's resolution of every name,
  which `pipeline` composes and no hypothesis on trees states yet; `ErrorUnwinds` of
  errors in loops, which leave the loop's variables behind; and
  `NoLeak` of the interpreter outside the plain programs, or after a failed allocation.
* `TokenisesOrdinary`, `NamesResolve`, `CallsMeetFunctions`, `TokensKept`,
  `VariablesAgree`, `CallsAgree`: they compare with recursive operators, which are out of the
  provers' reach. The parser's `TypeOK` is about the results of its recursive
  expression functions.
* All liveness properties (`Terminates`, `AcceptedRuns`), which are beyond the prover.

## Not modelled

* Failed allocations of the lexer and the parser, and the creation of the scopes.
* The parser's destruction of a finished tree (`cwr_nodes_list_destroy`), the construction
  and destruction of tokens outside the preprocessor, and the reading of the file.
* The composition of lexer, preprocessor and parser: each is checked over the token lists
  that the one before it makes, but not in one behaviour.
* Rounding and overflow of `float` and `int`, texts of messages, locations.
* The statements the evaluator's `default` branches would reject, which no parser output
  contains.

## Plan

1. The lexer and the preprocessor composed, with the define lines that end with a word.
2. Proofs: that no null pointer is read (`NoFault`), from a hypothesis on trees that says
   what the parser resolves.
3. Failed allocations in the parser, whose handlers return without an error
   (`source/cwr_parser.c:486`).
