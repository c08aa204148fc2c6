------------------------------ MODULE Hdf5Output ------------------------------
(***************************************************************************)
(* infrastructure/storage/hdf5_writer.py: what Hdf5TraceWriter does to the *)
(* image of job-<id>.h5.  An image is                                      *)
(*   rows      the length of the "traces" dataset,                         *)
(*   data      how many leading rows hold filtered amplitudes,             *)
(*   attr      the written_trace_count attribute,                          *)
(*   complete  the complete attribute.                                     *)
(* Amplitudes, sample counts and HDF5 layout are left out: write_chunk     *)
(* accepts only start = written, so the rows are a prefix of the survey.   *)
(***************************************************************************)
EXTENDS Job

Images == [rows     : 0 .. TraceCount,
           data     : 0 .. TraceCount,
           attr     : 0 .. TraceCount,
           complete : BOOLEAN]

\* __init__: a zero-row dataset, written_trace_count = 0, complete = False.
EmptyImage == [rows |-> 0, data |-> 0, attr |-> 0, complete |-> FALSE]

\* What a path on disk can be: no file, a file that h5py cannot open or whose
\* attributes cannot be read, or a readable file.
FileStates == {"absent", "torn", "sound"}

\* open_for_resume(allow_complete = TRUE): the metadata it accepts.
OpensForResume(img) ==
    /\ img.rows = img.attr
    /\ img.complete => img.attr = TraceCount

\* write_chunk resizes the dataset, stores the amplitudes and only then moves
\* the prefix marker.  An exception leaves the steps already taken.
Resized(img, stop)  == [img EXCEPT !.rows = stop]
Filled(img, stop)   == [Resized(img, stop) EXCEPT !.data = stop]
Written(img, stop)  == [Filled(img, stop) EXCEPT !.attr = stop]

AcceptsChunk(img, start, stop) ==
    /\ ~img.complete
    /\ start = img.attr
    /\ stop <= TraceCount

\* A faulty order: the marker moves before the amplitudes are stored.
BadPartialWrites(img, stop) ==
    {img, Resized(img, stop), [Resized(img, stop) EXCEPT !.attr = stop]}

PartialWrites(img, stop) == {img, Resized(img, stop), Filled(img, stop)}

\* finalize(): refused unless every trace was written; the marker is set only
\* after a first flush, and reverted if the second one raises.
AcceptsFinalize(img) == ~img.complete /\ img.attr = TraceCount
BadMarked(img) == img   \* faulty: the marker is forgotten
Marked(img)   == [img EXCEPT !.complete = TRUE]
Reverted(img) == [img EXCEPT !.complete = FALSE]

\* The rows the marker promises are there, and a complete file has them all.
MarkerHonest(img) ==
    /\ img.attr <= img.data
    /\ img.data <= img.rows
    /\ img.complete => img.attr = TraceCount
=============================================================================
