\* One request of any kind, from the middlewares to its answer.
SPECIFICATION Spec
CONSTANTS
  Null = Null
  AcceptLanguage <- Headers
  Char = {"u", "p", ":"}
  Credential <- Credentials
  ExpectedUser <- User
  ExpectedPass <- Pass
  MaxFlips = 2
INVARIANTS
  TypeOK
  ErrorsSpeakThePreferredLanguage
  CodeNamesTheCause
  OnlyAdmittedRun
  HealthIsOfTheCall
