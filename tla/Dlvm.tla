-------------------------------- MODULE Dlvm --------------------------------
(* The bytecode compiler (src/dlvm/src/compiler.rs) and the virtual machine  *)
(* (src/dlvm/src/lib.rs).  An instruction is a tuple that starts with its    *)
(* opcode; a string constant is in its instruction, not in a pool.  The      *)
(* machine is a record that Step moves by one instruction.                   *)
EXTENDS Values

\* compile_expr: operators the machine lacks fall back to Add, "!" emits nothing,
\* a name is none, and so is every expression that is not listed.
Opcodes == "+" :> "Add" @@ "-" :> "Sub" @@ "*" :> "Mul" @@ "/" :> "Div" @@ "==" :> "Eq"
           @@ "!=" :> "Ne" @@ "<" :> "Lt" @@ ">" :> "Gt" @@ "<=" :> "Le" @@ ">=" :> "Ge"
OpcodeOf(op) == IF op \in DOMAIN Opcodes THEN Opcodes[op] ELSE "Add"
BuiltinOf == [print |-> 0, println |-> 1, len |-> 2, assert |-> 3]

RECURSIVE Code(_), CodeAll(_)
CodeAll(es) == IF es = <<>> THEN <<>> ELSE Code(es[1]) \o CodeAll(Tail(es))
\* The two jumps of an if, patched once the branches are emitted, in 16 bits: a
\* branch that is longer wraps (and a build with overflow checks stops here).
AsI16(n) == ((n + 2^15) % 2^16) - 2^15
\* Mutant of Choice: the jump lands on the jump after the first branch.
ChoiceShort(c, yes, no) ==
  c \o <<<<"JmpIfNot", AsI16(Len(yes))>>>> \o yes \o <<<<"Jmp", AsI16(Len(no))>>>> \o no
Choice(c, yes, no) ==
  c \o <<<<"JmpIfNot", AsI16(Len(yes) + 1)>>>> \o yes \o <<<<"Jmp", AsI16(Len(no))>>>> \o no
\* A pipe compiles each function's name as an argument: none.
RECURSIVE Piping(_)
Piping(ops) ==
  IF ops = <<>> THEN <<>>
  ELSE <<<<"LoadNone">>, IF ops[1] \in {"print", "println"} THEN <<"Builtin", BuiltinOf[ops[1]]>>
                         ELSE <<"Call", 2>>>> \o Piping(Tail(ops))
Code(e) ==
  CASE Of(e, "int") -> <<<<"LoadInt", e[2]>>>>
    [] Of(e, "float") -> <<<<"LoadFloat", e[2]>>>>
    [] Tag(e) \in {"str", "char"} -> <<<<"LoadStr", e[2]>>>>
    [] Of(e, "bool") -> <<<<"LoadBool", e[2]>>>>
    [] Of(e, "bin") -> Code(e[3]) \o Code(e[4]) \o <<<<OpcodeOf(e[2])>>>>
    [] Of(e, "un") -> Code(e[3]) \o (IF e[2] = "-" THEN <<<<"Neg">>>> ELSE <<>>)
    [] Of(e, "call") -> CodeAll(e[3]) \o
         (IF Of(e[2], "ident") /\ e[2][2] \in DOMAIN BuiltinOf
          THEN <<<<"Builtin", BuiltinOf[e[2][2]]>>>> ELSE <<<<"Call", Len(e[3])>>>>)
    [] Of(e, "ifx") -> Choice(Code(e[2]), Code(e[3]), Code(e[4]))
    [] Of(e, "array") -> CodeAll(e[2]) \o <<<<"MakeArray", Len(e[2])>>>>
    [] Of(e, "pipe") -> Code(e[2]) \o Piping(e[3])
    [] OTHER -> <<<<"LoadNone">>>>

\* compile_stmt: a let leaves its value on the stack; a function and the other
\* statements emit nothing.
OrNone(opt) == IF opt = <<>> THEN <<<<"LoadNone">>>> ELSE Code(opt[1])
CodeOf(s) ==
  CASE Of(s, "expr") -> Code(s[2])
    [] Of(s, "let") -> OrNone(s[5])
    [] Of(s, "return") -> OrNone(s[2]) \o <<<<"Return">>>>
    [] OTHER -> <<>>
\* compile: one function that ends with a Return, unless it is empty.
Compile(program) ==
  LET code == FlattenSeq([i \in DOMAIN program |-> CodeOf(program[i])])
  IN IF code # <<>> /\ code[Len(code)] # <<"Return">> THEN Append(code, <<"Return">>) ELSE code

(* The machine.  ip counts from 0, as in the code; failed is the error.      *)
Boot == [stack |-> <<>>, calls |-> <<>>, ip |-> 0, running |-> TRUE, failed |-> "no"]
Fail(vm, why) == [vm EXCEPT !.running = FALSE, !.failed = why]
Depth(vm) == Len(vm.stack)
Push(vm, v) == [vm EXCEPT !.stack = Append(@, v)]
Drop(vm, n) == [vm EXCEPT !.stack = SubSeq(@, 1, Len(@) - n)]
Top(vm, k) == vm.stack[Depth(vm) - k]

\* Value's PartialEq: none equals none, arrays are never equal.
Equal(a, b) ==
  \/ Of(a, "none") /\ Of(b, "none")
  \/ Tag(a) \in {"int", "bool", "str"} /\ Tag(a) = Tag(b) /\ a[2] = b[2]
\* pop_bool: an empty string and an empty array are true.
Holds(v) == CASE Of(v, "bool") -> v[2] [] Of(v, "none") -> FALSE
              [] Of(v, "int") -> v[2] # 0 [] OTHER -> TRUE

\* The two operands are popped before anything else.
Order == [Lt |-> "<", Gt |-> ">", Le |-> "<=", Ge |-> ">="]
Binary(op, vm) ==
  LET a == Top(vm, 1)
      b == Top(vm, 0)
      rest == Drop(vm, 2)
      ints == Of(a, "int") /\ Of(b, "int")
  IN CASE Depth(vm) < 2 -> Fail(vm, "underflow")
       [] Depth(vm) >= 2 /\ "float" \in {Tag(a), Tag(b)} -> Fail(rest, "beyond")
       [] op = "Eq" -> Push(rest, Bool(Equal(a, b)))
       [] op = "Ne" -> Push(rest, Bool(~Equal(a, b)))
       [] op \in DOMAIN Order ->
            IF Of(a, "str") /\ Of(b, "str") THEN Fail(rest, "beyond")
            ELSE Push(rest, Bool(ints /\ Compare(Order[op], a[2], b[2])))
       [] op = "Div" /\ b = Num(0) -> Fail(rest, "zero")
       [] op = "Div" /\ b # Num(0) /\ ints -> Push(rest, Num(Quotient(a[2], b[2])))
       [] op = "Add" /\ ints -> Push(rest, Num(a[2] + b[2]))
       [] op = "Add" /\ Of(a, "str") /\ Of(b, "str") -> Push(rest, Str(a[2] \o b[2]))
       [] op = "Sub" /\ ints -> Push(rest, Num(a[2] - b[2]))
       [] op = "Mul" /\ ints -> Push(rest, Num(a[2] * b[2]))
       [] OTHER -> Fail(rest, "type")

\* A jump backwards stops at the start.
Jump(vm, offset) == [vm EXCEPT !.ip = IF @ + offset < 0 THEN 0 ELSE @ + offset]
JumpIf(vm, want, offset) ==
  IF Depth(vm) = 0 THEN Fail(vm, "underflow")
  ELSE LET rest == Drop(vm, 1) IN IF Holds(Top(vm, 0)) = want THEN Jump(rest, offset) ELSE rest

\* Call saves where it is and goes on: there is no function table to look in.
\* Mutant of Call: it saves its own place.
CallHere(vm, argc) ==
  [vm EXCEPT !.calls = Append(@, [ret |-> vm.ip - 1, base |-> IF argc > Depth(vm) THEN 0 ELSE Depth(vm) - argc])]
Call(vm, argc) ==
  [vm EXCEPT !.calls = Append(@, [ret |-> vm.ip, base |-> IF argc > Depth(vm) THEN 0 ELSE Depth(vm) - argc])]
\* Return goes back to where the last call was made.
Return(vm) ==
  IF Depth(vm) = 0 THEN Fail(vm, "underflow")
  ELSE IF vm.calls = <<>> THEN [vm EXCEPT !.running = FALSE]
  ELSE LET frame == vm.calls[Len(vm.calls)]
           kept == IF frame.base < Depth(vm) - 1 THEN frame.base ELSE Depth(vm) - 1
       IN [vm EXCEPT !.stack = Append(SubSeq(@, 1, kept), Top(vm, 0)), !.ip = frame.ret,
                     !.calls = SubSeq(@, 1, Len(@) - 1)]

\* execute_builtin: print, println, len and assert.
Builtin(vm, idx) ==
  LET v == Top(vm, 0)
      rest == Drop(vm, 1)
  IN CASE Depth(vm) = 0 -> Fail(vm, "underflow")
       [] Depth(vm) > 0 /\ idx \in {0, 1} -> Push(rest, None)
       [] Depth(vm) > 0 /\ idx = 2 ->
            IF Tag(v) \in {"array", "str"} THEN Push(rest, Num(Len(v[2]))) ELSE Fail(rest, "type")
       [] Depth(vm) > 0 /\ idx = 3 -> IF Holds(v) THEN Push(rest, None) ELSE Fail(rest, "type")

\* Index, of an array (a string's characters are left out).
Index(vm) ==
  LET a == Top(vm, 1)
      i == Top(vm, 0)
      rest == Drop(vm, 2)
  IN CASE Depth(vm) < 2 -> Fail(vm, "underflow")
       [] Depth(vm) >= 2 /\ Of(a, "array") /\ Of(i, "int") /\ i[2] \in 0..Len(a[2]) - 1 ->
            Push(rest, a[2][i[2] + 1])
       [] OTHER -> Fail(rest, IF Of(a, "str") THEN "beyond" ELSE "type")

\* execute_op.
Execute(op, vm) ==
  CASE op[1] = "LoadInt" -> Push(vm, Num(op[2]))
    [] op[1] = "LoadFloat" -> Push(vm, <<"float", op[2]>>)
    [] op[1] = "LoadStr" -> Push(vm, Str(op[2]))
    [] op[1] = "LoadBool" -> Push(vm, Bool(op[2]))
    [] op[1] \in {"LoadNone", "Spawn", "Recv"} -> Push(vm, None)
    [] op[1] = "Neg" ->
         CASE Depth(vm) = 0 -> Fail(vm, "underflow")
           [] Depth(vm) > 0 /\ Of(Top(vm, 0), "int") -> Push(Drop(vm, 1), Num(-Top(vm, 0)[2]))
           [] OTHER -> Fail(vm, IF Of(Top(vm, 0), "float") THEN "beyond" ELSE "type")
    [] op[1] = "Jmp" -> Jump(vm, op[2])
    [] op[1] = "JmpIf" -> JumpIf(vm, TRUE, op[2])
    [] op[1] = "JmpIfNot" -> JumpIf(vm, FALSE, op[2])
    [] op[1] = "Halt" -> [vm EXCEPT !.running = FALSE]
    [] op[1] = "Call" -> Call(vm, op[2])
    [] op[1] = "Return" -> Return(vm)
    [] op[1] = "MakeClosure" -> Push(vm, <<"closure", op[2]>>)
    [] op[1] = "MakeArray" ->
         IF Depth(vm) < op[2] THEN Fail(vm, "underflow")
         ELSE Push(Drop(vm, op[2]), <<"array", SubSeq(vm.stack, Depth(vm) - op[2] + 1, Depth(vm))>>)
    [] op[1] = "Index" -> Index(vm)
    [] op[1] = "Member" -> IF Depth(vm) = 0 THEN Fail(vm, "underflow") ELSE Push(vm, None)
    [] op[1] = "Send" -> IF Depth(vm) < 2 THEN Fail(vm, "underflow") ELSE Push(Drop(vm, 2), None)
    [] op[1] = "Builtin" -> Builtin(vm, op[2])
    [] OTHER -> Binary(op[1], vm)

\* One turn of run: it stops at the end of the code.
Step(code, vm) ==
  IF vm.ip >= Len(code) THEN [vm EXCEPT !.running = FALSE]
  ELSE Execute(code[vm.ip + 1], [vm EXCEPT !.ip = @ + 1])
\* What run answers: the top of the stack, or none.
Answer(vm) == IF Depth(vm) = 0 THEN None ELSE Top(vm, 0)
=============================================================================
