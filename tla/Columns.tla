------------------------------ MODULE Columns -------------------------------
(***************************************************************************)
(* The types of columns as the three drivers know them (src/src/mssql.c,    *)
(* odbc.c, mysql.c): which values go into the JSON in quotes, and the name   *)
(* that is given for the type.                                             *)
(***************************************************************************)

MssqlQuoted == {"SYBVARCHAR", "SYBCHAR", "SYBTEXT", "SYBDATETIMN", "SYBDATETIME",
                "SYBDATETIME4", "SYBBINARY", "SYBVARBINARY", "SYBUNIQUE"}
OdbcQuoted == {"SQL_CHAR", "SQL_VARCHAR", "SQL_LONGVARCHAR", "SQL_WCHAR", "SQL_WVARCHAR",
               "SQL_WLONGVARCHAR", "SQL_DATE", "SQL_TIME", "SQL_TIMESTAMP"}
MysqlQuoted == {"VARCHAR", "VAR_STRING", "DATE", "TIME", "DATETIME", "BLOB", "STRING",
                "LONG_BLOB", "TINY_BLOB", "NEWDATE", "MEDIUM_BLOB"}

IsQuotedShort(type) ==                                                  \* mutant
    type \in (MssqlQuoted \ {"SYBDATETIME4"}) \cup OdbcQuoted \cup MysqlQuoted
IsQuoted(type) == type \in MssqlQuoted \cup OdbcQuoted \cup MysqlQuoted

\* The servers' types whose values are no numbers.  With the ODBC 3 behaviour
\* that odbc.c asks for, dates come with the codes SQL_TYPE_...; binary data are
\* fetched as hexadecimal digits; a BIT of MySQL is bytes.
IsText(type) ==
    \/ IsQuoted(type)
    \/ type \in {"SYBIMAGE",
                 "SQL_TYPE_DATE", "SQL_TYPE_TIME", "SQL_TYPE_TIMESTAMP", "SQL_GUID",
                 "SQL_BINARY", "SQL_VARBINARY", "SQL_LONGVARBINARY",
                 "TIMESTAMP", "BIT", "GEOMETRY"}

Named(name, types) == {<<type, name>> : type \in types}

MssqlNames ==
    Named("varchar", {"SYBVARCHAR"}) \cup Named("char", {"SYBCHAR"})
    \cup Named("int", {"SYBINT4", "SYBINT2", "SYBINT1", "SYBINTN"})     \* tinyint, ... by length
    \cup Named("float", {"SYBFLT8", "SYBREAL", "SYBFLTN"})              \* real, float by length
    \cup Named("money", {"SYBMONEY"}) \cup Named("smallmoney", {"SYBMONEY4"})
    \cup Named("image", {"SYBIMAGE"}) \cup Named("text", {"SYBTEXT"}) \cup Named("bit", {"SYBBIT"})
    \cup Named("datetime", {"SYBDATETIME4", "SYBDATETIME", "SYBDATETIMN"})
    \cup Named("numeric", {"SYBNUMERIC"}) \cup Named("decimal", {"SYBDECIMAL"})
    \cup Named("guid", {"SYBUNIQUE"}) \cup Named("binary", {"SYBBINARY"})
    \cup Named("varbinary", {"SYBVARBINARY"})

OdbcNames ==
    Named("char", {"SQL_CHAR"}) \cup Named("varchar", {"SQL_VARCHAR", "SQL_LONGVARCHAR"})
    \cup Named("wchar", {"SQL_WCHAR"}) \cup Named("wvarchar", {"SQL_WVARCHAR", "SQL_WLONGVARCHAR"})
    \cup Named("date", {"SQL_DATE"}) \cup Named("time", {"SQL_TIME"})
    \cup Named("timestamp", {"SQL_TIMESTAMP"})
    \cup Named("decimal", {"SQL_DECIMAL"}) \cup Named("numeric", {"SQL_NUMERIC"})
    \cup Named("smallint", {"SQL_SMALLINT"}) \cup Named("integer", {"SQL_INTEGER"})
    \cup Named("real", {"SQL_REAL"}) \cup Named("float", {"SQL_FLOAT"})
    \cup Named("double", {"SQL_DOUBLE"}) \cup Named("bit", {"SQL_BIT"})
    \cup Named("tinyint", {"SQL_TINYINT"}) \cup Named("bigint", {"SQL_BIGINT"})
    \cup Named("binary", {"SQL_BINARY"}) \cup Named("varbinary", {"SQL_VARBINARY", "SQL_LONGVARBINARY"})

MysqlNames ==
    Named("varchar", {"VARCHAR", "STRING", "VAR_STRING"})
    \cup Named("blob", {"BLOB", "LONG_BLOB", "TINY_BLOB", "MEDIUM_BLOB"})
    \cup Named("date", {"DATE", "NEWDATE"}) \cup Named("time", {"TIME"})
    \cup Named("datetime", {"DATETIME"}) \cup Named("decimal", {"DECIMAL", "NEWDECIMAL"})
    \cup Named("tinyint", {"TINY"}) \cup Named("shortint", {"SHORT"}) \cup Named("longint", {"LONG"})
    \cup Named("float", {"FLOAT"}) \cup Named("double", {"DOUBLE"}) \cup Named("null", {"NULL"})
    \cup Named("timestamp", {"TIMESTAMP"}) \cup Named("longlong", {"LONGLONG"})
    \cup Named("int24", {"INT24"}) \cup Named("year", {"YEAR"}) \cup Named("bit", {"BIT"})
    \cup Named("enum", {"ENUM", "SET"}) \cup Named("geometry", {"GEOMETRY"})

Names == MssqlNames \cup OdbcNames \cup MysqlNames

SameDriver(t, u) ==
    \E names \in {MssqlNames, OdbcNames, MysqlNames} : {t, u} \subseteq {n[1] : n \in names}

\* A type without a name is written as "unknown", or, by the mysql driver, not
\* at all: what the caller's buffer held stays.
TypeName(type) ==
    IF \E n \in Names : n[1] = type THEN (CHOOSE n \in Names : n[1] = type)[2] ELSE "unknown"
=============================================================================
