--------------------------------- MODULE MCSolve ---------------------------------
(* Each engine, PDHG on matrices with one entry of size one in each row and   *)
(* column, which equilibration leaves as they are, and that the power         *)
(* iteration meets in the kernel of its operator, or not.                     *)
EXTENDS Solve

MCMatrices == {<< <<1>> >>, << <<-1>> >>, << <<0, 1>>, <<1, 0>> >>, << <<1, 0>>, <<0, -1>> >>}
===============================================================================
