----------------------------- MODULE DatFormat -----------------------------
(***************************************************************************)
(* The raw .dat files of DISK sessions: what the writer (csrc/callback.cpp)*)
(* puts in one and what load_raw_tensor (activationscope/utils.py) makes   *)
(* of the first bytes of one.  Both sides number the dtypes; the sizes and *)
(* numbers of the writer are ATen's, the tables of the reader are its own. *)
(* The content of the data is left out: what matters is its length and     *)
(* the dtype it is taken for.                                              *)
(***************************************************************************)
EXTENDS Integers, Sequences, Functions

CONSTANT ReadsUInt16   \* has this version of PyTorch tensors of dtype uint16?

ASSUME DatFormatAssumption == ReadsUInt16 \in BOOLEAN

\* ATen's number and size of a dtype.
ScalarType ==
  [uint8 |-> <<0, 1>>, int8 |-> <<1, 1>>, int16 |-> <<2, 2>>, int32 |-> <<3, 4>>,
   int64 |-> <<4, 8>>, float16 |-> <<5, 2>>, float32 |-> <<6, 4>>,
   float64 |-> <<7, 8>>, complex32 |-> <<8, 4>>, complex64 |-> <<9, 8>>,
   complex128 |-> <<10, 16>>, bool |-> <<11, 1>>, qint8 |-> <<12, 1>>,
   quint8 |-> <<13, 1>>, qint32 |-> <<14, 4>>, bfloat16 |-> <<15, 2>>,
   uint16 |-> <<27, 2>>, uint32 |-> <<28, 4>>, uint64 |-> <<29, 8>>]

Dtypes  == DOMAIN ScalarType
Code(d) == ScalarType[d][1]
Size(d) == ScalarType[d][2]

\* A tensor's form is its dtype and its shape.
Numel(shape)      == FoldFunction(LAMBDA n, m : n * m, 1, shape)
HeaderBytes(form) == 16 + 8 * Len(form.shape)
FileBytes(form)   == HeaderBytes(form) + Numel(form.shape) * Size(form.dtype)

\* Seeded fault: the row of bool was left out, and the rows after it moved up.
AtenScalarToTorchShort ==
  << "uint8", "int8", "int16", "int32", "int64", "float16", "float32", "float64",
     "complex64", "complex64", "complex128", "qint8", "quint8", "qint32", "bfloat16" >>

\* _ATEN_SCALAR_TO_TORCH, from 0: complex32 is taken for complex64.
AtenScalarToTorch ==
  << "uint8", "int8", "int16", "int32", "int64", "float16", "float32", "float64",
     "complex64", "complex64", "complex128", "bool", "qint8", "quint8", "qint32",
     "bfloat16" >>

TorchDtype(code) ==
  IF code + 1 \in DOMAIN AtenScalarToTorch THEN AtenScalarToTorch[code + 1] ELSE "float32"

\* The dtype the bytes are read as; one the table lacks is read as float32.
NumpyDtype(d) ==
  IF d \in {"float32", "float64", "float16", "int8", "int16", "int32", "int64",
            "uint8", "bool"} THEN d
  ELSE IF d = "bfloat16" THEN "uint16" ELSE "float32"

ReadAs(form) == NumpyDtype(TorchDtype(Code(form.dtype)))

\* load_raw_tensor on the first n bytes of the file of a tensor of that form:
\* the header and the shape are whole, frombuffer wants a multiple of the
\* item's size, reshape the number of elements, from_numpy a known dtype.
Loads(form, n) ==
  LET data == n - HeaderBytes(form)  item == Size(ReadAs(form)) IN
  /\ data >= 0
  /\ data % item = 0
  /\ data \div item = Numel(form.shape)
  /\ ReadAs(form) = "uint16" => ReadsUInt16

Loaded(form) == [dtype |-> ReadAs(form), shape |-> form.shape]

\* Does it return anything for the whole file of such a tensor, is that the
\* tensor that was written, and may it take the bytes for something else, of a
\* truncated file or of a whole one?
Readable(form) == Loads(form, FileBytes(form))
Exact(form)    == Readable(form) /\ Loaded(form) = form
Misreads(form) == \E n \in 0 .. FileBytes(form) - 1 : Loads(form, n)
Garbles(form)  == Misreads(form) \/ (Readable(form) /\ ~ Exact(form))

\* The dtypes a DISK session is meant for: those PyTorch and NumPy share.
Supported == {"uint8", "int8", "int16", "int32", "int64", "float16", "float32",
              "float64", "bool"}
=============================================================================
