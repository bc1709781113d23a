------------------------------- MODULE Names -------------------------------
(***************************************************************************)
(* The names of LLDB's enumerations (names.cpp) and the declarations they  *)
(* are meant to follow (lldb-enumerations.h). An enumerator of LanguageType *)
(* or BasicType has its place in the declaration, counted from 0, as value; *)
(* one of TypeClass is a bit. A row of a table is the text shown, blanks   *)
(* and all, and the enumerator it stands for.                              *)
(***************************************************************************)
EXTENDS Integers, Sequences, FiniteSetsExt

LanguageType == <<
    "Unknown", "C89", "C", "Ada83", "C_plus_plus", "Cobol74", "Cobol85",
    "Fortran77", "Fortran90", "Pascal83", "Modula2", "Java", "C99", "Ada95",
    "Fortran95", "PLI", "ObjC", "ObjC_plus_plus", "UPC", "D", "Python",
    "OpenCL", "Go", "Modula3", "Haskell", "C_plus_plus_03", "C_plus_plus_11",
    "OCaml", "Rust", "C11", "Swift", "Julia", "Dylan", "C_plus_plus_14",
    "Fortran03", "Fortran08", "MipsAssembler", "ExtRenderScript" >>

BasicType == <<
    "Invalid", "Void", "Char", "SignedChar", "UnsignedChar", "WChar",
    "SignedWChar", "UnsignedWChar", "Char16", "Char32", "Short",
    "UnsignedShort", "Int", "UnsignedInt", "Long", "UnsignedLong", "LongLong",
    "UnsignedLongLong", "Int128", "UnsignedInt128", "Bool", "Half", "Float",
    "Double", "LongDouble", "FloatComplex", "DoubleComplex",
    "LongDoubleComplex", "ObjCID", "ObjCClass", "ObjCSel", "NullPtr",
    "Other" >>

TypeClass == [
    Array |-> 0, BlockPointer |-> 1, Builtin |-> 2, Class |-> 3,
    ComplexFloat |-> 4, ComplexInteger |-> 5, Enumeration |-> 6,
    Function |-> 7, MemberPointer |-> 8, ObjCObject |-> 9,
    ObjCInterface |-> 10, ObjCObjectPointer |-> 11, Pointer |-> 12,
    Reference |-> 13, Struct |-> 14, Typedef |-> 15, Union |-> 16,
    Vector |-> 17, Other |-> 31 ]

\* the kinds of symbols; Any is the value of Invalid
SymbolType == {
    "Invalid", "Absolute", "Code", "Resolver", "Data", "Trampoline", "Runtime",
    "Exception", "SourceFile", "HeaderFile", "ObjectFile", "CommonBlock",
    "Block", "Local", "Param", "Variable", "VariableType", "LineEntry",
    "LineHeader", "ScopeBegin", "ScopeEnd", "Additional", "Compiler",
    "Instrumentation", "Undefined", "ObjCClass", "ObjCMetaClass", "ObjCIVar",
    "ReExported" }

eTypeClassAny == 0..31      \* a type class is the set of its bits
eTypeClassInvalid == {}

languagetypes_names == <<
    <<"unknown", "Unknown">>, <<"c89", "C89">>, <<"c", "C">>,
    <<"ada83", "Ada83">>, <<"c++", "C_plus_plus">>, <<"cobol74", "Cobol74">>,
    <<"cobol85", "Cobol85">>, <<"fortran77", "Fortran77">>,
    <<"fortran90", "Fortran90">>, <<"pascal83", "Pascal83">>,
    <<"modula2", "Modula2">>, <<"java", "Java">>, <<"c99", "C99">>,
    <<"ada95", "Ada95">>, <<"fortran95", "Fortran95">>, <<"pli", "PLI">>,
    <<"objective-c", "ObjC">>, <<"objective-c++", "ObjC_plus_plus">>,
    <<"upc", "UPC">>, <<"d", "D">>, <<"python", "Python">>,
    <<"opencl", "OpenCL">>, <<"go", "Go">>, <<"modula3", "Modula3">>,
    <<"haskell", "Haskell">>, <<"c++03", "C_plus_plus_03">>,
    <<"c++11", "C_plus_plus_11">>, <<"ocaml", "OCaml">>, <<"rust", "Rust">>,
    <<"c11", "C11">>, <<"swift", "Swift">>, <<"julia", "Julia">>,
    <<"dylan", "Dylan">>, <<"c++14", "C_plus_plus_14">>,
    <<"fortran03", "Fortran03">>, <<"fortran08", "Fortran08">>,
    <<"mipsassem", "MipsAssembler">>, <<"renderscript", "ExtRenderScript">>,
    <<"objc", "ObjC">>, <<"objc++", "ObjC_plus_plus">> >>

typeclass_names == <<
    <<"Invalid", "Invalid">>, <<"Array", "Array">>,
    <<"BlockPointer", "BlockPointer">>, <<"Builtin", "Builtin">>,
    <<"Class", "Class">>, <<"ComplexFloat", "ComplexFloat">>,
    <<"ComplexInteger", "ComplexInteger">>, <<"Enumeration", "Enumeration">>,
    <<"Function", "Function">>, <<"MemberPointer", "MemberPointer">>,
    <<"ObjCObject", "ObjCObject">>, <<"ObjCInterface", "ObjCInterface">>,
    <<"ObjCObjectPointer", "ObjCObjectPointer">>, <<"Pointer", "Pointer">>,
    <<"Reference", "Reference">>, <<"Struct", "Struct">>,
    <<"Typedef", "Typedef">>, <<"Union", "Union">>, <<"Vector", "Vector">>,
    <<"Other", "Other">>, <<"Any", "Any">> >>

basictypes_names == <<
    <<"Invalid", "Invalid">>, <<"Void", "Void">>, <<"Char", "Char">>,
    <<"SignedChar", "SignedChar">>, <<"UnsignedChar", "UnsignedChar">>,
    <<"WChar ", "WChar">>, <<"SignedWChar ", "SignedWChar">>,
    <<"UnsignedWChar", "UnsignedWChar">>, <<"Char16", "Char16">>,
    <<"Char32", "Char32">>, <<"Short ", "Short">>,
    <<"UnsignedShort", "UnsignedShort">>, <<"Int ", "Int">>,
    <<"UnsignedInt ", "UnsignedInt">>, <<"Long", "Long">>,
    <<"UnsignedLong", "UnsignedLong">>, <<"LongLong  ", "LongLong">>,
    <<"UnsignedLongLong", "UnsignedLongLong">>, <<"Int128", "Int128">>,
    <<"UnsignedInt128", "UnsignedInt128">>, <<"Bool", "Bool">>,
    <<"Half", "Half">>, <<"Float ", "Float">>, <<"Double", "Double">>,
    <<"LongDouble", "LongDouble">>, <<"FloatComplex", "FloatComplex">>,
    <<"DoubleComplex", "DoubleComplex">>,
    <<"LongDoubleComplex", "LongDoubleComplex">>, <<"ObjCID", "ObjCID">>,
    <<"ObjCClass", "ObjCClass">>, <<"ObjCSel", "ObjCSel">>,
    <<"NullPtr", "NullPtr">>, <<"Other ", "Other">> >>

\* The value is the index, so far as the table goes.
getNameForLanguageType(type) ==
    languagetypes_names[IF type < Len(languagetypes_names) THEN type + 1 ELSE 1][1]

getNameForBasicType(type) ==
    basictypes_names[IF type < Len(basictypes_names) THEN type + 1 ELSE 1][1]

\* Variant of getNameForTypeClass that shifts before it looks.
ShiftsFirst(type) ==
    LET set == {itc \in 1..(Len(typeclass_names) - 3) : itc \in type}
    IN  IF type = eTypeClassAny THEN "Any"
        ELSE typeclass_names[IF set = {} THEN 1 ELSE Min(set) + 1][1]

\* The loop looks at bit itc - 1 and stops two entries before the table's end.
getNameForTypeClass(type) ==
    LET set == {itc \in 1..(Len(typeclass_names) - 3) : itc - 1 \in type}
    IN  IF type = eTypeClassAny THEN "Any"
        ELSE typeclass_names[IF set = {} THEN 1 ELSE Min(set) + 1][1]
=============================================================================
