------------------------------ MODULE WireTypes ------------------------------
(***************************************************************************)
(* The semantic types of the inference engine, the wire types that the     *)
(* frontends speak, and the SQL type names of a cast (src/src/infer.rs).   *)
(***************************************************************************)

WireTypes ==
    {"bool", "int4", "int8", "float8", "numeric", "text", "date", "time",
     "timestamp", "uuid", "json"}

\* The semantic types with a wire type of their own.
IntegerTypes == {"IdInt", "FkInt", "IntBig", "FileSize"}
RealTypes == {"Float", "Lat", "Lng"}
DecimalTypes == {"Money", "Percent"}

\* The semantic types that are sent as text.
TextTypes ==
    {"Email", "Phone", "Url", "Ip", "FirstName", "LastName", "FullName", "Username",
     "Company", "City", "Country", "CountryCode", "StreetAddress", "Zipcode", "Color",
     "HexColor", "StatusEnum", "KindEnum", "Slug", "PasswordHash", "LoremShort",
     "LoremLong", "CurrencyCode", "LanguageCode", "MimeType", "UserAgent",
     "CreditCard", "ShortCode", "Version"}

SemanticTypes ==
    IntegerTypes \cup RealTypes \cup DecimalTypes \cup TextTypes
    \cup {"IdUuid", "Bool", "IntSmall", "Timestamp", "Date", "Time", "Json"}

WireType(st) ==
    CASE st \in IntegerTypes -> "int8"
      [] st = "IntSmall" -> "int4"
      [] st = "Bool" -> "bool"
      [] st \in RealTypes -> "float8"
      [] st \in DecimalTypes -> "numeric"
      [] st = "Timestamp" -> "timestamp"
      [] st = "Date" -> "date"
      [] st = "Time" -> "time"
      [] st = "IdUuid" -> "uuid"
      [] st = "Json" -> "json"
      [] st \in TextTypes -> "text"

\* What fills a column whose cast contradicts the flavour of its name.
GenericFor ==
    [bool |-> "Bool", int4 |-> "IntSmall", int8 |-> "IntBig", float8 |-> "Float",
     numeric |-> "Money", date |-> "Date", time |-> "Time", timestamp |-> "Timestamp",
     uuid |-> "IdUuid", json |-> "Json", text |-> "LoremShort"]

\* The names that a SQL cast may give a wire type.
SqlNames ==
    [bool |-> {"bool", "boolean"},
     int4 |-> {"int", "integer", "int4", "smallint", "int2"},
     int8 |-> {"bigint", "int8", "serial8", "bigserial"},
     float8 |-> {"float", "float4", "float8", "real", "double"},
     numeric |-> {"numeric", "decimal", "money"},
     text |-> {"text", "varchar", "char", "bpchar", "citext", "string"},
     date |-> {"date"},
     time |-> {"time", "timetz"},
     timestamp |-> {"timestamp", "timestamptz", "datetime"},
     uuid |-> {"uuid"},
     json |-> {"json", "jsonb"}]

\* The wire type of a cast to name, "none" when the name is not known.
WireTypeFromSql(name) ==
    IF \E wt \in WireTypes : name \in SqlNames[wt]
    THEN CHOOSE wt \in WireTypes : name \in SqlNames[wt]
    ELSE "none"
=============================================================================
