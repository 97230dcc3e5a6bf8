---------------------------- MODULE MCResharing ----------------------------
(***************************************************************************)
(* Resharing for TLC, which first compares the arithmetic of the library   *)
(* with what it is to compute, for all polynomials up to three             *)
(* coefficients over the instance's field.                                 *)
(***************************************************************************)
EXTENDS Resharing

Polynomials == UNION {[1..n -> Scalar] : n \in 1..3}

\* The loop of evaluate_polynomial and of evaluate_hiding computes the polynomial.
ASSUME HornerEvaluates ==
  \A p \in Polynomials, x \in Scalar :
    Horner(p, x) = SumOver([k \in DOMAIN p |-> Times(p[k], IF k = 1 THEN 1 ELSE (x ^ (k - 1)) % Q)])

\* The Lagrange coefficients of any set of indices recover the constant term of any
\* polynomial with no more coefficients.
ASSUME InterpolatesAtZero ==
  \A p \in Polynomials, I \in SUBSET (1..(Q - 1)) :
    Cardinality(I) >= Len(p) =>
      SumOver([i \in I |-> Times(Horner(p, i), calculate_lagrange_coefficients(i, I))]) = p[1]

\* A proof verifies for its index and key if it was made with the key's secret, and only
\* then.
ASSUME ProofsVerify ==
  \A i, j \in 1..2, secret, other, k \in Scalar, h \in Scalar \ {0} :
    verify_proof(prove(i, other, Times(G, secret), k, h), j, Times(G, secret))
      <=> i = j /\ other = secret
=============================================================================
