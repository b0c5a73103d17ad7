------------------------------- MODULE MCMounts -------------------------------
(***************************************************************************)
(* A small instance of Mounts: the project and three directories of the    *)
(* host, and specs with a guest path of each kind.                         *)
(***************************************************************************)
EXTENDS Mounts

MCSystem == {<<"/", "usr", "bin">>, Home}

Spec3(h, g, m) == [host |-> h, guest |-> g, mode |-> m]

MCSpecs == {
  Spec3("data",    <<"~">>,                            "rw"),
  Spec3("data",    <<"~", "a">>,                       "ro"),
  Spec3("data",    Home \o <<"a">>,                    "rw"),
  Spec3("more",    <<"~", "a", "b">>,                  "rw"),
  Spec3("data",    <<"~", "my dir">>,                  "rw"),
  Spec3("my data", <<"~", "a">>,                       "rw"),
  Spec3("project", <<"~", "project">>,                 "ro"),
  Spec3("more",    Base \o <<"project">>,              "rw"),
  Spec3("project", <<"a">>,                            "rw"),
  Spec3("data",    <<"/", "root">>,                    "rw"),
  Spec3("more",    KeyDir \o <<"a">>,                  "rw"),
  Spec3("more",    Staging \o <<"a">>,                 "rw"),
  Spec3("data",    <<"/", "mnt">>,                     "rw"),
  Spec3("data",    <<"/", "home">>,                    "ro")}

=============================================================================
